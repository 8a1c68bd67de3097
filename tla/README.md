# A TLA+ development of the provable-agent-reference control plane

This directory specifies the stateful core of the repository in TLA+, checks it
with TLC on small instances, and proves its main properties with TLAPS for all
instances.  `PROJECT.json` lists components, runs, mutants, the map from
definitions to source lines, findings, hazards and theorems.

Paths below are relative to the repository root; `cp/` stands for
`src/provable_agent_reference/control_plane/`.

## The system

The repository is a reference for accountable agent runs.  A *control plane*
keeps runs, capability grants, a hash-chained journal, an outbox, artifacts,
agent activities and effect records in PostgreSQL.  A *control chain* compiles,
verifies, approves, authorizes and audits a draft; the records it makes are
packed, signed and sent to receivers, and *adapters* turn recorded events into the
evidence it starts from.  *Releases* are made by a workflow and validated
independently by a script.

| Part | State | Operations | Interacts through | What is hard |
|---|---|---|---|---|
| Outbox (`cp/store.py`, `cp/outbox.py`) | table `outbox` | `claim_outbox`, `complete_outbox`, `retry_outbox`, `OutboxWorker.run_once` | rows committed by run creation and delegation; the publish callback | leases, several workers, crashes between publish and complete, ambiguous failures |
| Run creation (`cp/service.py`, `cp/store.py`) | `runs`, `idempotency_keys`, `journal_records`, `outbox` | `create_run` | one transaction over four tables | concurrent calls with one key, retries after lost answers |
| Delegation (`cp/service.py`, `cp/models.py`, `cp/store.py`) | `capability_grants`, `journal_records`, `outbox` | `delegate_capability`, `create_delegation` | row locks on run, parent, grant id | chain of hashes under concurrency, revocation, replay, attenuation along chains |
| Artifact store (`cp/artifacts.py`) | files below the store root | `publish`, `read` | the file system | concurrent publishers, crashes, power loss |
| Artifact metadata and reconciler (`cp/store.py`, `cp/artifacts.py`) | table `artifacts` | `stage_artifact`, `claim_artifacts`, `finalize_artifact`, `retry_artifact`, `unavailable_artifact`, `ArtifactReconciler.run_once` | files and rows out of step | leases, missing bytes |
| Activity log (`cp/store.py`, migration 0002) | `agent_activity_records` | `append_agent_activities`, `reconstruct_agent_activities` | the workflow | replays, chain order |
| Effects (`synthetic_effects.py`, `cp/store.py`, migration 0003) | `effect_records` | proposal, approval, dispatch, receipt, reconciliation, persistence | the workflow | unknown outcomes, single use of an approval |
| Workflow (`synthetic_workflow.py`) | budget and activity list of a run | a scripted agent run, `persist` | activity log and effects | two transactions for one result |
| Control chain (`compiler.py`, `verification.py`, `approvals.py`, `authorization.py`, `audit.py`, `pipeline.py`) | none; the records are in the caller's hands | `run_pipeline`, or its five functions one by one | calls | records of different rounds, order of calls, two copies of one hash |
| Assurance packet and DSSE (`assurance_packet.py`, `contracts.py`, `dsse.py`, `canonical.py`) | a packet or an envelope under way | `build_assurance_packet`, `load_assurance_packet`, `sign_assurance_packet`, `verify_envelope` | a file or a channel between two processes | records altered and resealed, pinned keys that are revoked, expired or listed twice |
| Codex adapter (`adapters/`) | facts gathered over two streams | `build_evidence` | its bundle is the evidence of a case | events out of order, missing partners, coverage over both streams |
| Release workflow (`.github/workflows/release.yml`, `scripts/verify_release.py`) | runs, lock, branches, tags, releases | the steps of a run | git and GitHub | queued, cancelled and repeated runs, lines released in any order, branches moving under a run |
| Validation runner (`scripts/external_validation/runner.py`) | the release directory, a report and its temporary file | `main` | the files and tags of releases | mixed and damaged downloads, failed and timed out checks, crashes while writing |
| Other scripts, health and readiness probes, demo, TypeScript verifier, evals | none | | | not modelled |

## Modules

| Module | Models | Checked by | Proved in |
|---|---|---|---|
| `AtLeastOnce` | what an outbox promises | through `Outbox` | |
| `Outbox` | table, leases and workers | `Outbox_workers` | `OutboxProofs` |
| `IdempotentRegistry` | what `create_run` promises | through `RunCreation` | |
| `RunCreation` | `create_run` statement by statement | `RunCreation_callers` | `RunCreationProofs` |
| `Delegation` | `create_delegation` statement by statement | `Delegation_chain`, `Delegation_refused` | `DelegationProofs` |
| `ArtifactStore` | `publish`, file operation by file operation | `ArtifactStore_processes`, `ArtifactStore_threads` | `ArtifactProofs` |
| `ControlChain` | the functions of the control chain, on records | through `AssurancePath` | |
| `AssurancePacket` | building, checking and loading a packet | through `AssurancePath` | |
| `Envelope` | DSSE signing and verification | through `AssurancePath` | |
| `CodexAdapter` | the Codex adapter, event by event | through `AssurancePath` | |
| `AssurancePath` | a case from evidence to a receiver's verdict | `AssurancePath_cases` | `AssurancePathProofs` |
| `Release` | the release workflow, its lock and its verifier | through `ValidationRunner` | `ReleaseProofs` |
| `ValidationRunner` | downloads and the run of `runner.py` on releases | `Release_lines` | `ReleaseProofs` |
| `ArtifactReconciler` | table `artifacts`, leases, reconcilers and files | `ArtifactReconciler_workers` | `ArtifactProofs` |
| `RunRecords` | `append_agent_activities` and `persist_effect_records`, document by document | `RunRecords_callers` | `RunRecordsProofs` |
| `Workflow` | the agent run on several hosts: budget, single use, effect, and its two transactions | `Workflow_safety`, `Workflow_restart` | `WorkflowProofs` |

`Workflow` composes what `RunRecords` and the in-memory lifecycle offer: each
store transaction is one step in it, which the lock on the run in `RunRecords`
justifies.  `ArtifactReconciler` takes from `ArtifactStore` that a file appears
in one step and whole (its `BytesPublished`; the theorem `PublicationIsAtomic` says
that this is what `publish` does), and adds damage by the medium.  Every row that `RunCreation`,
`Delegation` and `RunRecords` commit to `outbox` is an `Enqueue` of `Outbox`.
`AssurancePath` composes the four modules above it in the table: the bundle of
`CodexAdapter` or of the caller enters `ControlChain`, whose records
`AssurancePacket` packs and `Envelope` signs.  `ValidationRunner` extends
`Release` and works on its tags and releases.

Each `MC...` module holds only the constants of the instances.  The operators
named as mutants (`EligibleLeased`, `NeverWaits`, ...) stand before the
definition they would replace; no specification uses them.

### Assumptions shared by the models

* PostgreSQL runs transactions at READ COMMITTED, the default that the code
  leaves in place.  Tables hold committed rows.  A row lock lasts until its
  transaction ends.  An `INSERT ... ON CONFLICT DO NOTHING` waits for an open
  transaction that inserted the same key.  A statement that is alone in its
  transaction is one step.
* A sha256 digest is taken as the value it commits to; different values have
  different digests.  The one exception is deliberate: `Requests` in
  `Delegation` may contain two calls with the same grant id, because the store
  checks for that collision.
* Time is abstract: the clock may pass any boundary between any two steps.
* `psycopg.connect` and `connection.transaction()` roll back when the process
  or the connection fails, so a failed transaction leaves nothing.

### Outbox

One row per value of `Items`, numbered by `(created_at, outbox_id)`.
`row` is `published_at` (NULL or not, and whether the row is committed yet);
`claimedBy` is `claimed_by`; `fresh` says that `claimed_at` is at most sixty
seconds old; `due` that `available_at` has passed.  `claimed_at` and
`claimed_by` are always written together, so `claimed_at IS NULL` is
`claimedBy = NoWorker`.  `hand[w][o]` is the `attempts` value with which worker
`w` holds row `o` in its current batch.

A claim takes two steps: `ClaimLock` evaluates `WHERE ... ORDER BY ... FOR UPDATE
SKIP LOCKED LIMIT`, `ClaimCommit` writes the leases.  In between the rows are
locked, so another claim skips them and a late `UPDATE` by an earlier holder waits.
`PublishOk` and `PublishFail` are the two ways the callback ends; after a
failure the sink may or may not have the message.  `Complete`, `Retry` and
`Abort` are the statement that follows, with its `WHERE` clause in `Owns`:
`Abort` is the `RuntimeError` that leaves `run_once` and drops the batch.

`delivered`, `harm` and `faults` are history: how often the sink got the row,
which faults hit it, and how many happened.  A lapsed lease counts as a fault
only while its holder still works on the row (`LeaseLapse`); otherwise it is
the passing of time (`LeaseExpiry`).

Fairness: worker processes are scheduled and call `run_once` again, leases grow
old and back-offs end.  The sink is not assumed to succeed; the number of
failures is bounded by `MaxFaults`, which is "faults cease".

Runs: two rows, two workers, batches of two and three faults are enough for a
second worker to take over a row in the middle of a batch, for the first to
return with a late statement and for a third claim to follow.  If two workers
share a `worker_id`, `LeaseIsRespected` does not hold (the `WHERE` clause cannot
tell them apart); the theorems on the other properties cover that configuration.

### RunCreation

A caller's `pc` names the next statement of the transaction.  What it has
written is in `written` until `Commit` makes it visible.  `keyHolder` is the
uncommitted row of `idempotency_keys` that makes other inserts of the key wait.
`Replay` is the answer for an existing row.  The `FOR UPDATE` of that `SELECT`
is not modelled as a lock: the row it locks is never updated again.  A caller
whose call failed or whose answer got lost repeats the same call.

The instance has three requests under one key: two with the same `run_id` (they
differ in `purpose`), one with another `run_id` (another case), and a fourth
request under a key of its own.

Fairness: a call that was made runs on, and a failed call is made again; the
code has no retry loop of its own, the idempotency key exists for such callers.

### Delegation

Grants hold the document's fields that the checks compare; `rights` stands for
capabilities together with allowed effects, both compared by set inclusion.
`sealed` says that `grant_hash` is the hash of `grant_document`.  Row locks are
read off the labels of the callers (`HoldsRun`, `HoldsParent`, `HoldsGrant`).  A
journal record contains the record it is chained to, since a hash is the value
it commits to.  `CreateRun` is the commit of `create_run` as far as this table
is concerned; `AddRoot` and `Revoke` are statements of an operator, since the
code has no operation that creates root grants or revokes one.  `Ancestors(g)`,
of which `AuthorityShrinks` speaks, is the least set of stored grants that holds the
parent of `g` and, with any delegated grant, its parent.

Two facts a reader may not expect, both modelled as the code has them: the
parent is checked before the `ON CONFLICT` branch, so a replay after the
parent expired is refused; and only the direct parent's revocation counts.

The instance `Delegation_chain` has three callers, so that three levels of a
chain can be created concurrently, and a grandchild that asks for more than its
grandparent has: `AuthorityShrinks` is checked over chains here.  It also checks
`RetriesAreHonoured`: a caller that repeats a call that was committed is not refused for
its grant id.  `Delegation_refused` asks for every kind of refused grant, including a
parent whose stored hash does not match, in two runs: calls of the second name a
parent of the first and a grant id that the first asks for, so that a call holds its run
and waits for what a call of the other run holds; it checks that every call is answered.

### ArtifactStore

Names refer to inodes; a publisher keeps writing to the inode it opened
whatever happens to the name.  `whole` and `synced` say which inodes hold all
bytes and which are on disk.  Directory entries are taken as durable, and
`os.replace` as atomic.  A crash (`PublisherDies`) restarts the publisher under the
same pid.  The names of this specification begin with `Store` (`StoreInit`,
`StoreNext`, `StoreSpec`), so that `ArtifactProofs` can speak of it and of the
reconciler together.

`ArtifactStore_threads` is expected to fail: see Findings.

### ArtifactReconciler

The lease columns are modelled as in `Outbox`.  `status` is the column of that
name, "absent" while the row does not exist; `fits` says that the caller of
`stage_artifact` gave the true length.  `BytesPublished` and `Stage` may come in either
order: no code of the repository fixes it.  A read ends in one of the three
statements `finalize_artifact`, `unavailable_artifact` and `retry_artifact`; each
raises when the lease is lost, which drops the batch (`Abort`).

`verdict` (what the latest claim read) and `late` (staged before its bytes were
published) are history.  `UnavailableHasReason` lists exactly when an artifact
is given up for good; staging before publishing is one of the reasons, since
`unavailable` is final.

Bounds: two workers, two artifacts and two faults let a lapsed claimer and its
successor read different states of a file.  Fairness is that of `Outbox`.

### RunRecords

A call is a run and a sequence of documents: a batch of activities, or a receipt
and its reconciliation.  Both functions lock the run, check, and go through
the documents in a loop, so one set of labels serves both; `next` is the loop's
position, `written` the uncommitted rows, `tail` is `expected_previous`.  A document
contains the document whose hash it names; `sealed` says that its own hashes are
right.  `Waits` is the unique index at work on uncommitted rows.

The instance has two runs and calls of both kinds that conflict in every
way the checks distinguish, three callers and one fault.  No two transactions can
wait for each other's ids in it: transactions of one run exclude each other, effect
ids are inserted in one order (receipt, then reconciliation), and the service derives
activity ids from the run.  Batches of two runs with the same ids in opposite order
would need ids from elsewhere; PostgreSQL's deadlock detector would then fail one of
the two transactions, which is the fault `Fail`.  A replay of a stored
batch of activities is refused (the expected sequence has moved on), one of
effect records is accepted: `ExactReplaysAreAccepted`.

### Workflow

A host is a process with one workflow object; `toolCalls` and `lifecycle` are the
dicts of its gateway and its lifecycle registry, and a restart empties them.  The
control chain between tool call and consumption is pure and always authorizes,
since the workflow asks for exactly the candidate's output; an authorization is
therefore identified by the run and the approver.  `Withdraw` is an operator's
call of `transition`.  `uses` and `executed` count executions.

Two hosts, two approvers for one run, and one fault: enough for a rival to come
between the two transactions, and for a withdrawn authorization to be tried
again.  There is no waiting in this module, so no liveness property is stated.

### AssurancePath

`case` holds the records that a caller of the control chain has: candidate,
verification, approval, authorization and manifest.  Each function is one
step: `CompileCase`, `VerifyCase`, `ApproveCase`, `AuthorizeCase`,
`AuditCase`, or all of them in `RunPipeline`.  A step replaces its own record
and leaves the others, so a call after a second `CompileCase` or `VerifyCase`
is given records of two rounds, and evidence may be another bundle each time.
Whoever holds the records may alter one, and reseal it or not (`AlterRecord`);
the one constructor that would refuse an altered record is in `Constructible`.
`Pack` is `build_assurance_packet` with its self check; `SendBare` and
`SendSigned` put the packet on a channel, where it may be altered;
`ReceiveBare` is `load_assurance_packet`; `ReceiveSigned` is `verify_envelope` alone,
with the trust bundle and the clock of the receiver.  It checks the signature and,
where there is one, the `packet_hash`, and returns the payload without loading it;
`sign_assurance_packet` signs any object (`SendCopy`: an altered copy, or one without its
hash), so an envelope may verify and its packet still be refused.  Whether the receiver
goes on to load it is its own choice (`LoadVerified`), and `AcceptedPacketsReplay`
is about what was loaded.

A hash in a record is a copy of what it commits to, with a tag for its kind
(`Digest`); a signature is a tagged copy of key and message.  So a digest agrees
exactly when the contents do, and a record has to be resealed to hide a change.
Text is a model value; what a text may look like (length, pattern) is
abstract.

Two assumptions restrict the instances to what the classes admit.
`BundlesAreConstructed`: a caller's bundle went through the checks of
`EvidenceBundle.__post_init__`.  `AlterationsKeepFields`: `dataclasses.replace`
refuses a field that the record does not have.

`CodexAdapter` reads two streams.  `adapter` is where it is, and which facts
(configuration, started and ended items, communications, tasks) it has gathered;
`Coverage` is `_build_coverage` over both.  An input on which the code
raises leads to no evidence.

Bounds: by `CallByCall` records are put together call by call, and altered, only
in a case with the caller's own evidence and until it is packed; the adapter's
bundle goes through the pipeline.  `MaxCalls = 6` lets one stage be repeated after
a complete round, `MaxEdits = 1` alters one record or the packet, before or after it is signed, and
`MaxEvents = 3` is enough for a send, its receive and an event of the other stream.
Nothing waits here and nothing is scheduled, so no liveness is stated; a case
may stop at any time.

### Release and ValidationRunner

A tag is `[line, patch, pre]`; major and minor are one number.  `run` has a stage
per tag: pending, cancelled, the five stages in which it holds the lock
`release-publication`, failed or published.  `seen` and `main` of a run are what
it fetched: every tag at checkout, main's head later.  `Routed`, `Contained`,
`PatchAllowed` and `IsLatest` are `select_release_route`,
`validate_release_ancestry` with `validate_base_commit`, and
`classify_release`.  GitHub keeps one pending run of a
group and cancels an older pending one (`Enqueue`).  A run may be repeated
by hand, also after it published: `gh release create` then fails.

Branches move forward and tags stay where they are: that is what the
repository's rulesets ask for, and the assumption `HistoriesMoveForward`.

A pushed tag runs `release.yml` and `verify_release.py` as they are in the tagged
tree.  The model gives every tree today's copies of both; a tree contributes only its
version, notes and allow-list.  That no tag is pushed on a tree with an older workflow
is what decision proposal 0009 leaves to review and rulesets (threat T3 in
`docs/implementation/decision-proposals/`), since the workflow cannot enforce it.

A validator downloads files of a release over what is in the directory;
one file may arrive damaged.  An invocation has the options `--expected-tag`, `--expected-commit`,
`--expected-artifact-version`, `--allow-dirty`, `--require-artifacts` and the release
directory.  `runner` is `main()` step by step: the version is read from the working
tree, which is that of the head when the tree is clean and may be any when it is
dirty (`Versions`); then provenance, five checks, artifacts (of the expected version, else
of the version read: `ExpectedVersion`), and the three steps of `write_report` (open the
temporary file, fill it, rename it).  A process may die between any two; the
code does not call `fsync`, and power loss is not covered.  A file that is
missing or not yet filled is not one of `Reports`, the complete ones
(`PartialIsNoReport`).

Bounds: two lines, four tags and a second commit for one of them, one
repeated run; two downloads of whole or partial selections, one fault.  The
validator starts when `MinReleases = 2` releases are there and the workflow
rests (`Quiet`), since the two share nothing that still changes.  Four invocations:
without expectations, on the tag of a release, with the files of another version than
the checkout's, and with required files that are missing.  Not modelled: that `HEAD` or
the working tree changes during a run, two runners that share a report path, a repository
directory that is missing or not the top level of its checkout, and lightweight tags.  A
run that is cancelled stays so until a person repeats it, so no liveness
property is stated.

## Findings

* **Publishers that share a pid can publish a partial file**
  (`ArtifactStore_threads`, property `TargetIsWhole`).  The docstring at
  `cp/artifacts.py:9` promises staged atomic publication.  The staged name is
  the digest and the pid (`cp/artifacts.py:27`), and the `finally` block
  (`cp/artifacts.py:38`) unlinks that name even when `open("xb")` failed
  because another publisher made the file.  The trace: A stages and checks; B
  fails to open and unlinks A's file; B retries and opens an empty one; A's
  `os.replace` publishes B's empty file.  Processes with pids of their own are
  safe (`ArtifactStore_processes`).

* **Consumption of an authorization does not survive a restart**
  (`Workflow_restart`, property `SingleConsumption`).
  `docs/implementation/phase-1-threat-model-and-privacy.md:25` names single
  consumption as the implemented control against duplicate effects.  The registry
  is a dict of the workflow object (`synthetic_effects.py:26`), and the durable
  `authorization.consumed` activity is stored after the effect was executed
  (`synthetic_workflow.py:305`).  The trace: a host consumes and executes, restarts
  before the first transaction, consumes and executes again.  Other
  documents state the limit that this row of the threat model leaves out: the class
  docstring says "in-process", `docs/implementation/phase-1-contracts.md:18` claims no
  durable lifecycle, and `docs/spec/lifecycle.md:66` leaves durable consumption to
  production.  Within the life of a host
  `UsedOncePerLife` holds.

## What is proved

For every value of the constants that satisfies the named assumptions:

* `OutboxProofs`: type correctness; `PublishedWasDelivered`;
  `PublishedIsFinal`; `DuplicatesNeedFaults`;
  `LeaseIsRespected` under the hypothesis that worker ids are distinct; and that
  `Outbox` implements `AtLeastOnce`.
  The invariant `IInv` is needed because a statement such as `Complete` looks
  only at the table: that the row was delivered is known from the worker's
  label (`SentBeforeComplete`), that a published row cannot be claimed from
  the absence of leases and locks (`PublishedIsSettled`), and that two workers
  cannot hold the same claim (`ClaimsAreExclusive`, a conjunct of `IInv`) from the bound
  that `attempts` is for every claim handed out (`ClaimsAreCounted`).  `LeaseIsRespected` needs one
  more invariant, `LeaseIsLatestClaim`: a row's `claimed_by` names a worker
  only while that worker's claim is the latest.

  `DuplicatesNeedFaults` is an accounting argument.  A worker either works under
  the live lease of the row's latest claim (`Current`), or has delivered and not
  yet said so (`Sending`), or is late (`Late`): it lost its lease and may still
  deliver.  `Paid` says that the copies delivered, together with those that late
  workers still owe, never exceed the faults that hit the row plus the one copy
  that is due (`Credit`).  `LeaseInv` supplies what the statements of the
  live holder will find in the table.  There is one lemma per action; the ones
  that turn a worker late are the ones that count a fault.  Worker ids may be
  shared here.
* `RunCreationProofs`: type correctness; `AllOrNothing`; `KeysAreResolved`;
  `AnswersAreOwn`; `NoCallerIsStuck`; and that `RunCreation` implements
  `IdempotentRegistry`.  `IInv` adds who may hold a key (`HoldersWrite`,
  `WritersHold`), what each label has written (`WrittenSoFar`), and that a
  committed key is bound to a request of its own (`KeysBindTheirOwn`).

* `DelegationProofs`: type correctness; `AuthorityShrinks`; `JournalIsChained`;
  `ChainIsUncontended`; `RecordedOnce`; `AnswersAreTrue`; `NoGrantUnderRevoked`; `RetriesAreHonoured`.
  The last one needs that grants and calls stay in the scope they were stored in
  (`GrantsAreInScope`, `CallsAreInScope`) and that rows are never rewritten.
  `AuthorityShrinks` is about chains of any length without induction over
  them: `Ancestors(g)` is contained in every set that is closed under parents, and
  the stored grants that permit `g` are such a set, since `PermitsChild` is
  transitive.
  `IInv` says what the locks buy: nobody else holds the run, parent or grant
  row (`locks exclusive`), the locked parent still passes the checks
  (`ParentsAreChecked`), the new grant id is still free (`GrantsAreNew`), and the
  record read as last is still the last (`PreviousIsLast`).
* `ArtifactProofs`, about the store: type correctness, and under the hypothesis
  `DistinctPids` `TargetIsWhole`, `PublishedIsReadable`, `FailuresNeedCrashes`
  and `PublicationIsAtomic`.  `StoreInv` says that a staged name has
  one user, that what its user wrote and checked is still what the name refers
  to, and that no writer is left on an inode that was published.
  `PublicationIsAtomic` maps the target to what a reader finds there (`FileOf`)
  and shows that every step of `publish`, crash or power loss leaves that alone or
  turns "absent" into "whole".  This is the step `BytesPublished` that
  the reconciler's model takes for all of them.
* `ArtifactProofs`, about the reconciler: type correctness; `UnavailableHasReason`;
  `VerdictIsFinal`; and `VerdictIsOfLatestClaim` under the hypothesis
  `DistinctIds` that no two processes run with the same `worker_id`.
  `ReconcilerInv` adds to the lease invariants of the outbox what a worker read
  before it issues its statement: one about to give a row up has a reason and keeps
  it (`ReasonIsKept`), although the file may change after the read.  `VerdictInv`
  says that the lease names only the latest claimer, that what this one is about to
  do is what it read, and that only an earlier claimer still holds a settled row.
  Without `DistinctIds` the property is false: with a shared id the `WHERE` clause
  takes the statement of the earlier claimer for one of the latest, and
  TLC finds a counterexample when `WorkerId` gives both workers one id.

* `AssurancePathProofs`: the five invariants of `AssurancePath_cases`, for any
  contexts, drafts, bundles, alterations, trust bundles and event streams of any
  length.
  - `AcceptedPacketsReplay`: a packet that `load_assurance_packet` accepts, bare or
    after `verify_envelope`, is a chain that comes out the same when made again from
    its own contents.  The argument is about the operators: every check of `Loads`
    fixes one link of the chain (`LoadedReplays`).
  - `SignedIsAuthentic`: the envelope under way was made over something that was signed
    (`WireFromPacket`, `Envelops`), so an alteration on the way leaves a signature that
    holds for the original only.
  - `AuthorizationIsEarned`: while nobody altered a record, each one was made by
    its function from records made so (`RecordsEarned`).  The later calls
    compare hashes only; that equal hashes make them records of one candidate is
    `CandidateByHash`.
  - `PackedIsAccepted`: every record has the fields of its class and a verification
    the status that its findings give (`RecordsShaped`), also after an alteration;
    the evidence is a valid bundle (`EvidenceSound`), also the adapter's; so what
    passes the self check of `build_assurance_packet` passes the receiver's checks
    as well (`PacketLoads`).
  - `CoverageIsHonest`: the facts and counters that the two passes of the adapter keep
    are those of the streams read so far (`FactsFaithful`), and evidence is built
    of streams without orphan receives only (`BuiltSound`).
* `ReleaseProofs`: type correctness of the workflow; `LinesComeOutInOrder`;
  `LatestNeverGoesBack`; `ReleasedFromProtected`, for any commits, histories, tags
  and number of runs, together with the validator's steps; and
  `PassingReportIsSound` for the validator, for any downloads, damage, dirty trees, values
  of the modelled options, faults and crashes.  `WorkflowInv` says what the lock buys:
  a run past its start holds it (`LockIsHeld`), so from checkout to
  publication the run's tags contain all that was released (`CheckoutIsCurrent`)
  and the verdict on them still holds (`VerdictStands`).  `ProtectedInv`
  adds that what was contained in a branch stays contained, by the assumptions
  `HistoriesMoveForward` and `AncestryIsTransitive`.  `RunnerInv` follows what
  speaks against a passing report into `errors`, step by step (`ProvenanceTold`,
  `ChecksTold`, `ArtifactsTold`); the temporary file holds the whole report when it
  takes the report's place (`TemporaryFilled`), and the report that is there
  is a complete one, whatever run wrote it (`ReportWhole`).

* `RunRecordsProofs`: type correctness; `ReconstructionSucceeds`, `BatchesAreWhole`,
  `EffectsAreBound`, `AnnouncedOnce` and `ExactReplaysAreAccepted`, for any
  callers, runs and documents.  `ReconstructionSucceeds` is about logs of any length:
  `IInv` says that the log of a run is a chain (`IsChain`) and that the log with the
  uncommitted rows of its writer is one too, whose last document is what the writer
  takes for it (`WrittenContinues`); `ChainGrows` is the step and `SizeOfChain` the
  count.  The other parts say what the lock on the run
  and the unique ids keep apart (`TransactionsApart`), that what a loop has passed is
  written or stored already (`DocumentsFollow`), and that what is written is new
  (`WrittenIsNew`).  `KindsHaveTheirIds` keeps activities and effect records from
  sharing outbox rows.
* `WorkflowProofs`: type correctness; `UsedOncePerLife`, `RecordsAgree` and
  `OneCallIsRecorded`, for any hosts, runs and approvers.  `IInv` adds that what a host
  executed its lifecycle no longer offers (`UsesAreConsumed`) and that effect records
  follow the activities of their own call (`StoredInOrder`).  `OneCallIsRecorded` needs
  an invariant that holds only until the first fault: an executed call has a batch
  or a host that offers it (`BatchesFollow`), and a batch has its effect records
  or a host that writes them (`RecordsFollow`).  It speaks of one call of a run: a
  second approver's execution for the same run is refused by the log and stays
  unrecorded, without any fault.

With this, every safety invariant and every action property of the passing runs is
proved for all instances.

Some properties are only proved and not repeated in a run, because another
property of the run implies them or because they only state types: `TypeOK` of
`Outbox`, `RunCreation`, `Delegation`, `ArtifactReconciler`, `RunRecords`, `Workflow`
and `Release` and `StoreTypeOK` of `ArtifactStore`,
`PublishedWasDelivered` and `PublishedIsFinal`, `KeysAreResolved` and
`AnswersAreOwn`, `PublishedIsReadable`, `FailuresNeedCrashes`, `PublicationIsAtomic`.

Only model-checked: liveness, which is outside the prover's reach
(`EventuallyPublished` of `Outbox` and `ArtifactStore`, `EventuallySettled`,
`EveryCallIsAnswered` of `RunCreation`, `Delegation` and `RunRecords`).


## Not modelled

* Health, readiness, token and demo modules: stateless probes and wrappers.
* The other scripts (`validate_repo.py`, `validate_dist.py`,
  `validate_agentic_contracts.py`, `check_built_distributions.py`, the
  `control_plane_*` commands, `generate_examples.py`): one-shot tools that walk
  files and report; what they check is the layout of documents.
* The TypeScript verifier, examples, evals and schemas: a second implementation of
  digest checks, sample code and data.
* In the modelled parts: logging and wording; canonical JSON, base64 and sha256 byte
  by byte; lengths and patterns of text; the normalization of single Codex
  events; the memory query of the workflow; timing of a single statement.

## Plan

1. The refinement of the artifact store in the form of the other two (`AtLeastOnce`,
   `IdempotentRegistry`): `PublicationIsAtomic` as an abstract specification that
   a run checks as well.
2. That the transactions of `RunRecords` are the single steps that `Workflow` takes
   for them, as a theorem instead of the argument above.
