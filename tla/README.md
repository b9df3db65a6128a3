# Verification of mncs-actions

TLA+ models of the evidence machinery of mncs-actions: how checks are run, packaged,
aggregated, fetched, reused and accepted, on GitHub runners and on the machines of the
sessions that ask for evidence. TLC model-checks small instances; TLAPS proves the
results listed under *Proofs* for every value of the constants. Every definition is
translated from the source; `PROJECT.json` maps each one to its lines.

Read a component's module first: its header says which code it stands for and what is
abstracted, its properties are at the end. `MC_*` modules hold the instances, `*Proofs`
modules the theorems.

## The system

mncs-actions has no server and no database. Its state is in files: a result file a
provider writes, the evidence directory of a composite action, a ledger file per
dispatch, a composite proof, a badge, the accepted family graph on `main`. Its
concurrency is between processes that share those files, between a measurement and the
moving repository it was made of, and between machines and GitHub. A verdict is PASS,
FAIL or UNKNOWN; the rule that runs through the code is that what is missing, stale,
malformed or refused is never PASS.

| Component | Code | State it keeps | Operations | Talks to |
|---|---|---|---|---|
| Dispatch ledger | `bin/mncs-actions-remote` | one JSON file per (repository, workflow, sha, inputs), written without a lock | dispatch: claim, supersede, resolve, record | `gh`/GitHub runs; other sessions through the file |
| Transport | same file | staged artifacts | status, fetch, validate | GitHub; the host |
| External-evidence policy | `native/mncs/actions/external_evidence.mncs` | none: a request in, decisions out | evaluate_obligation, build_result | the host that projects requests and acts on decisions |
| Evidence packaging | `actions/verify`, `run-check`, `mncs-test`, `mncs-debug`, `lib/mncs_actions.py` | result file, evidence directory (check, receipt, manifest, observed), step outputs | run, validate, package, upload, gate | the caller's workflow; the reader of the artifact |
| Aggregation, family job | `actions/aggregate`, `mncs-family-verify.yml`, `actions/render-badge` | result files of all providers, aggregate evidence, badge | providers in order, aggregate, gate, render | run-check of each provider |
| Provider scripts | `mncs-test/test.sh`, `mncs-debug/test.sh`, `emit_obligation_check.py` | the result file, the detailed test result, witness, diagnosis, debug check | refuse, run, decline, capture, diagnose, emit | the runner, debugger or host command; run-check after them |
| Family acceptance | `scripts/family_{graph,proof,contracts,coherence,commons_record}.py`, `family-graph-advance.yml` | the files of a pass; the accepted graph and contracts on `main` | propose, resolve, build, cohere, evaluate, claim, relate, advance, build-proof, verify-accepted | members' repositories, the evaluator of mncs-standard |
| Selective verification | `scripts/selective_family_verify.py`, `family.mncs`, `traversal.mncs` | an output directory: evidence per consumer, composite proof | bind, reuse or check each consumer, reduce | RAVEL's plan, Commons' graph, consumers' checkouts, a prior proof |
| Family evidence | `family_protocol.py`, `family_producer.py`, `assemble_family_evidence.py`, `run_family_contracts.py`, canary, drift and advance workflows | producers' directories, envelopes, artifacts, the assembled evidence, a proposed contract | operate, hash, seal, confirm, upload, verify, assemble, aggregate; re-run | the owners' code; artifacts of earlier attempts |
| Development pressure | `development_pressure.py`, `pressure_to_obligations.py`, `project_obligations.py` | bundles, files of obligation records, the check `mncds-obligations` | observe, project, settle, project again | the assembler of the family evidence; the owners of obligations |

The components work as a chain of documents. A provider script answers for its provider;
run-check packages the answer; aggregation composes packaged checks into a verdict and a
badge. Between repositories the same documents travel as envelopes (family evidence), as
an accepted graph with a bundle that replays (acceptance), or as evidence that a later
composite proof copies (selective verification). Where a check cannot be run locally the
policy asks for a run elsewhere and the ledger keeps two sessions from asking twice. What
stays UNKNOWN becomes pressure, then an obligation an owner has to settle.

### What is hard

* **Concurrency without locks.** Two sessions use one ledger file with separate
  open, read, truncate and write calls; two hosts measure before either's run is
  listed.
* **Time.** A claim expires; `gh` is killed by its timeout after GitHub has acted; the
  run listing lags; `time.mktime` reads UTC as local time.
* **Stale state.** A branch moves between measurement and dispatch; result files,
  manifests, claims and badges of earlier executions lie in the directories that later
  ones use; evidence is copied from proof to proof.
* **Partial failure.** A packaging step dies between two files and the directory is
  uploaded all the same; an aggregation dies before its outputs; a provider's shell ends
  before its exit code is recorded.
* **Code of others.** Runners, debuggers and owners' operations may exit with 0 and write
  nothing, die after one of two files, or leave a process behind that writes while the
  directory is hashed, sealed or uploaded.
* **Repeated runs.** Re-running failed jobs finds the artifacts of earlier attempts; a
  local run finds the directories of earlier ones.
* **Restated checks.** advance, build-proof and verify-accepted verify one closure in
  three places; the graph is built four times with growing inputs.

`PROJECT.json` lists these hazards at their lines, with the properties that would catch
them, or a note where none does.

## Modules

| Module | Stands for | Composes |
|---|---|---|
| `DispatchLedger` | `cmd_dispatch` of several sessions for one identity, one system call a step | `Lease` (refinement mapping) |
| `Lease` | what a ledger promises: one grant at a time, one dispatch per grant | |
| `DispatchLedgerProofs` | theorems about the ledger, the refinement among them | `DispatchLedger`, TLAPS |
| `ExternalEvidencePolicy` | the policy as operators, in the order of its early returns | |
| `PolicyRequests` | the policy asked about one request after another | `ExternalEvidencePolicy` |
| `AmbientEvidence` | hosts, worktree, branch, GitHub runs and transport around the policy | `ExternalEvidencePolicy` |
| `ExternalEvidenceProofs` | theorems about the policy and the passes that use it | `PolicyRequests`, `AmbientEvidence`, TLAPS |
| `EvidencePackaging` | a composite action used repeatedly in one job, and the reader of its artifacts | |
| `ProviderScripts` | the scripts in front of the packaging and the debug stage behind it, as one job | `EvidencePackaging` |
| `ProviderScriptsProofs` | theorems about the composed job | `ProviderScripts`, TLAPS |
| `Aggregation` | loading and composing of check results, as operators | |
| `FamilyVerify` | one job of the reusable workflow | `Aggregation` |
| `FamilyVerifyProofs` | theorems about it | `FamilyVerify`, TLAPS |
| `FamilyAcceptance` | passes of the acceptance workflow and the replay of their bundles | |
| `FamilyAcceptanceProofs` | theorems about it | `FamilyAcceptance`, TLAPS |
| `SelectiveFamily` | calls of the selective verification, with everything around them moving | |
| `SelectiveFamilyProofs` | theorems about it | `SelectiveFamily`, TLAPS |
| `FamilyEvidence` | producer jobs, their artifacts and the assembler, over the attempts of a run | `Aggregation` |
| `FamilyEvidenceProofs` | theorems about it | `FamilyEvidence`, TLAPS |
| `DevelopmentPressure` | a line of observations, and what becomes of their unknowns | |
| `DevelopmentPressureProofs` | theorems about it | `DevelopmentPressure`, TLAPS |

### DispatchLedger

`ledger` is the file: absent, empty (created or truncated and not yet written), garbled
(a late write over a shorter one) or an entry. `pc[s]` follows `_claim_ledger` and
`cmd_dispatch`: `Begin` reads the clock; `CreateLedger` is `os.open(O_EXCL)` and
`WriteClaim` the write after it; `ClaimHeld`, `Supersede` and `TruncateClaim` the branch of a file that
exists; `ResolveWorkflow`, `DispatchAccepted`, `DispatchRefused`, `DispatchUnheard` (GitHub acted,
`gh` did not say so), `ResolveRun` (a listing that may lag or fail), `TruncateFinal` and
`WriteFinal` the rest. `Crash` may come anywhere. `Tick` advances the clock but not past
the sum of the `gh` timeouts of an invocation under way: about 400 s against a TTL of
1800 s. The clock does not go backwards. `ResolveRun` takes the newest listed run of the
workflow that is at most `Slack` older than its dispatch (5 s in the code), whoever started
it: `OtherRun` starts runs of another identity or by hand. `MaxRun + Slack < TTL` is the
assumption on these times.

The code does not promise mutual exclusion, and has none: between creating and writing
the file another session reads an empty file as expired, and two sessions may both
supersede an expired claim. The model marks those two windows in `breach`; the
properties say what holds as long as neither was hit (`ClaimDiscipline`, `RunsSpaced`),
and what holds even then (`LateWriteOnlyAfterRace`, `HeldMeansRecentClaim`,
the first half of `RecordedRunFollowsClaim`). Its second half, that an entry never names
the run of an earlier dispatch of its identity, needs the discipline: a successor's claim
is a TTL later, and that is more than the slack. It may name a run somebody else started.

`Lease` is the abstract specification: grants at least a TTL apart, at most one dispatch
under each, and nothing promised once the exclusion was lost. `Grants` instantiates it
with the claims made so far, the claim times of the runs launched and `breach`, and
`ImplementsLease` is its specification: every system call of the ledger is a grant, a
launch, the loss, or no step of the lease at all.

### ExternalEvidencePolicy, PolicyRequests

`EvaluateObligation` has the fourteen early returns of `evaluate_obligation` in their
order; `BuildResult` folds `Accumulate` over the obligations as the loop of
`build_result` does. The properties compare the fold with closed definitions: the queue is
the first `max_dispatches` eligible obligations, exactly the rest is deferred, every
dispatch is justified by what was measured, and verdicts never decide anything.
`Projection` is the type of what a host may say of one obligation; the requests are
constants, which TLC enumerates and the theorems leave open. The names of
`PolicyRequests`' behaviour (`RequestInit`, `RequestNext`, `RequestSpec`) are its own, so
that one module can speak of it and of `AmbientEvidence`.

### AmbientEvidence

A pass of a host measures the worktree and the visible runs (`Evaluate`, which runs the
policy on the projection), then dispatches and fetches in any order until `EndPass`.
Worktree, branch and GitHub are external and move in between. A dispatched run executes
the commit the branch names *then*. The ledger appears as the set of claims the next look
would find live. A dispatch call is three steps, with `stage[h]` between them: `Claim`
looks and finds none, `WriteClaim` writes one, `Dispatch` launches; two hosts may both look
before either has written. `ClaimFails` and `DispatchFails` are calls that end without a
run, the second with its claim in the ledger. `ClaimExpires` may come at any time,
whatever the run and the passes are doing. The code promises nothing of an identity whose
claim two hosts took, or whose claim ran out before the run was listed or a pass that had
measured before was over: `docs/ambient-external-evidence.md:64-66` says that identical
runs are then launched, rarely. `lost` remembers such identities, and `InFlightAtMostOne`
and `AttemptsBounded` speak of all others. How often it happens is a matter of
`DispatchLedger`, which has the file's steps and its times.

### EvidencePackaging

One job uses an action several times on the same result file and evidence directory,
which the default inputs do. `RunProvider` may leave any result; packaging is
`Validate`, `CopyResult`, `WriteReceipt`, `WriteManifest`, `WriteOutputs`, each of which
may be the last (`PackagingDies`) and leave a torn file; `Upload` happens whatever
happened before; `Gate` is the condition of the gate step of each action. A digest is the
content it was taken of. Step outputs set before a failure remain visible.

### ProviderScripts

For verify and a plain run-check the provider is any command. For the actions whose
provider this repository scripts, the way each script ends is an action: `RefuseToTest`
and `RunTests` (`mncs-test/test.sh`), `RunDebugger` with `Decline`, `CaptureNothing`,
`Reject` and `Diagnose` (`mncs-debug/test.sh`), `EmitCheck` and `EmitterDies`
(`emit_obligation_check.py`), `ScriptKilled` for all. `CaptureFailure`, `PackageDebug` and
`JudgeDebug` are the debug stage that follows a FAIL of mncs-test, between its packaging
and its upload. Runner, debugger and host command write what they like, or nothing: a
detailed result, witness, diagnosis or check of an earlier use is still there, and
`by` says whose it is. `slips` remembers where a provider kept silent, so that the
properties can name exactly the exceptions the scripts allow. Not told apart: the
projections beside the diagnosis, and the form of mncs-debug that takes a program and a
request instead of a test result.

### Aggregation, FamilyVerify

Providers run in order, each through run-check with its own result file and a check id
equal to the provider; a failing step skips the rest. The aggregation reads the result
files in the workspace, not the packaged copies. Badge rendering always runs. Two of the five equal
providers are instantiated for TLC; the theorems hold for any number.

### FamilyAcceptance

`work` holds the files of a pass in the order the workflow writes them (`Steps`); a
command's refusals are the guards of its action, a pass stops where one refuses or at
`Stop`. `Keep` leaves a file of an earlier pass in place, as a command that is not run
again does. Each replay check of verify-accepted (`ReplayIdentity`, `ReplayBoundary`,
`ReplayEvidence`, `ReplayCoherence`, `ReplayClaim`, `ReplayTransition`, `ReplayRerun`)
is an operator of its own. The promotion evaluator belongs to another repository and is
external. An obligation is `open` or not and `required` or not; `Deciding` ones are both,
as in `acceptance_record`: an open optional obligation is visible and decides neither the
claim nor the tier, a required one that the boundary tolerates keeps the claim and lowers
the tier. `Blockers` reads the pins in the trees that were checked out, which are those of
the candidate in the workspace, while the skeleton it reports on may be of an earlier pass.
Temporary paths and the schema of obligation records are refusals that are not modelled.

### SelectiveFamily

A call binds plan, graph, producer and tools (`Begin`), then for each edge reads the consumer's
revision (`Visit`) and either copies the evidence of a prior proof (`Reuse`) or checks
(`StartCheck`, `RunBatches`, `RunOracle`, `RunFails`), and reduces the records
(`Finish`, `Refuse`). The tools are the runner and its libraries as `_runtime_bindings`
finds them, and they matter where tests are run: a composite PASS is at the tools its call
bound for the edges whose runner is `mncs-test`. `native` tells the canonical path from the Python oracle. What a passing
check really ran on is kept with the evidence as history, so that a property can compare
it with what the evidence names. Simplifications: an edge's fingerprint is the edge and
the declaration it was generated from; all batches of a consumer run in one step; the
edges of one consumer select the same tests; no selector declares an inventory identity.
A consumer's records are known by their places (`RecordsOf`): reuse reads the first, the
directory holds the last.

### FamilyEvidence

One variable says which of the four callers runs: canary (the fixed contract), drift and
advance (a candidate of the present heads) or a local invocation. `job[p]` follows
`family_producer.py`: `Start` validates contract, descriptors and the clean directory,
`Operate` runs the owner's code, `Hash` walks the tree, `Seal` reads checks and contract
again and writes the envelope, `Confirm` compares the tree, `Upload` is the `always()`
step of the job. `LateWrite` is a process the owner's code left behind, writing anything
but the envelope itself; `JobDies` and
`AssemblerDies` may come between any two steps. A directory is a function from the names
in it to files: `Only` is one with a single file, `Over` writes files over those there are. The assembler is `OpenEnvelopes`, `Take` per
envelope, `Conclude` and the `Aggregate` step with its gate. `RerunAll`, `RerunFailed` and `LocalAgain`
are further attempts over what earlier ones left; `LocalEdit` changes the contract file
between two of its reads. The assembler of
the workflows is an `always()` job: `PrepareFails` skips the producers and not the
assembler, which then downloads what earlier attempts uploaded - their candidate, or a new
one beside their envelopes - and ends at once only when no attempt has uploaded a candidate.
The canary has no candidate; its assembler reads the contract of the checkout. A run is
green only if all its jobs succeeded. Checks carry the attempt they were written in, which no program
reads and `SealsItsOwnRun` does.

### DevelopmentPressure

`bundles` is the line of observations; `Observe` may be given any earlier bundle or none,
as `--previous-pressure` may. `ProjectPressure` opens a required record per pressure and
refuses a bundle that lists a key twice, in which case the file of an earlier call stays.
Owners `Settle` records of that file, with the resolution block or without, or `Author` one
of their own; `ProjectObligations` reads the files it is given and writes the check, or
refuses and leaves the earlier one. `settled` is history: what owners said, of which
subject. A check speaks for the observation the file on disk came from (`check.from`), and
no document says which one that is: after a refused projection it is an earlier one.

## Runs

`CHECK_DEADLOCK FALSE` is set where the bounded system really stops: calls, time,
executions, providers, passes and revisions are used up. `policy.cfg` never stops and
checks deadlock.

| Run | Instance | Shows |
|---|---|---|
| `ledger_safety` | 2 sessions (symmetric), TTL 3, MaxRun 1, Slack 1, 3 calls, 1 run of somebody else, clock from 3 to 6, UTC, lagging listing | runs spaced by the TTL, no lasting block after crashes and failures, the ledger implements `Lease` |
| `policy` | every projection of one obligation; requests of three typical obligations, budgets 0 to 3 | what is dispatched, that the budget is first come first served, that verdicts never decide |
| `ambient_safety` | 2 hosts (symmetric), 1 obligation, 2 revisions, 2 runs, 1 attempt, unreliable measurement | evidence only of the exact revision; one run under way and attempts bounded (but after a failure) while the claim was not lost; nothing unpublished requested |
| `ambient_liveness` | 1 host, 1 obligation, 2 revisions, 2 runs, 2 attempts | the newest usable run is admitted, also over staged evidence of another revision |
| `packaging` | every action with its script and the debug stage, two executions on one directory | accepted artifacts and green gates are one execution's own, fresh, and debug evidence is about the failure at hand |
| `family_verify` | 2 providers and an additional check, 9 boundaries | PASS badges, green jobs, current badges, nothing hidden |
| `family_evidence` | 2 producers, 3 checks, the four callers, 2 attempts, 1 late write, 1 edit, 2 revisions | evidence is of one contract and one execution each, byte for byte what was validated |
| `acceptance` | 2 members, 2 passes (the second fresh or over the first's files), 1 commit of main, 2 templates | what proposals and replaying bundles prove |
| `selective` | 2 consumers (git checkout, source archive), 3 selections, 2 calls, 2 changes around them | composite PASS is earned, reused evidence is current |
| `pressure` | 1 check that is FAIL, or UNKNOWN for two limitations or one listed twice, 3 observations, 2 subjects, 2 words of owners | no pressure vanishes unsaid, the past was observed, owners decide |
| `selective_reuse` | one consumer, 2 calls, 1 change | *violated*: see Findings |
| `selective_batches` | one consumer with two batches | *violated* |

### Why the bounds are enough

The theorems lift the bounds for every safety property; where the runs stand alone is said
under *Only model-checked*. The instances are still chosen to make each case happen, because
a run finds a wrong property in a minute and shows how it fails.

* *Ledger.* Both unlocked windows need two sessions. A claim, its expiry and a successor
  with its own dispatch need three calls; the clock starts at `TTL` and ends at `MaxTime`, twice the TTL, which
  lets one claim run out. A TTL of three is the least that exceeds an invocation and the
  slack together; one run of somebody else is enough to be taken for one's own.
* *Policy.* An obligation's decision depends on nothing but itself and the budget left,
  so one obligation is enumerated in full; three suffice for before, at and after the end
  of the budget.
* *Ambient.* Two hosts race; two revisions give a measured and a moved commit; with two
  runs one is raced, doubled or failed, and the other is its successor; a limit of one
  attempt makes the second run the one beyond it. The liveness run has an older run's
  evidence staged when a newer revision's run ends.
* *Packaging.* A leftover is from one earlier execution: two executions meet it, at every point
  where the second may die; so does a witness, diagnosis or test result an earlier use left.
* *Family evidence.* The interference of an artifact, a late write, an edit or a death
  with a document needs one of each; the second producer is the one whose evidence must
  not be mixed with the first's, and declares two checks so that one may be missing.
* *Pressure.* Three observations are the least in which a key goes and comes back, or a
  line forks; two subjects tell a record from another subject's; two words of owners
  settle every limitation a bundle may hold, or contradict each other. An UNKNOWN check that
  names no limitation, and so has the default one, is left to the theorems.
* *Family job.* A provider that overwrites an earlier result needs two; the boundaries
  hold everything required, optional, undeclared, declared twice and empty.
* *Acceptance.* Two members tell a claim about one revision from another's; the second
  pass meets every set of the first's files; one commit of main falls in between.
* *Selective.* Two calls are one link of a chain of reuse, and each link is checked
  against the present by the same comparison. Two changes make an edit and its commit, or
  move two inputs apart. The three selections give a single edge, two edges of two
  consumers and two of one, whose evidence shares a directory. No change comes after the
  last call. A plan with the tests of two consumers is refused by the canonical path
  (`Complete`) and is not among the selections.

### Fairness

Only `ambient_liveness` uses `FairSpec`: weak fairness of each
host's pass (the host polls and acts on what it decided), of GitHub (a run is listed and
ends) and of expiry (the wall clock). Nobody has to edit, commit or push, and no
particular outcome of a run is assumed. `EvidenceIsAdmitted` is stated for the newest run,
once it is completed at the checked out revision with the check packaged, while the
checkout stays there: its own evidence is admitted, not some evidence of the revision. Two
cases are outside it because the code does otherwise: evidence of the very revision that is
in force stays in force, and a host that had set out to fetch an older run of the same
revision may put that one's evidence in place.

## Proofs

`tlapm` checks the eight proof modules completely; nothing is assumed besides the named
assumptions on the constants. Every invariant a passing run checks, the refinement and the
action property of the policy are theorems.

**DispatchLedgerProofs** (from `LedgerAssumption`, in which `MaxRun + Slack < TTL`
carries the argument). None of the properties is inductive alone. The invariant is `TypeOK`,

* `Clocks`: an invocation under way read its clock at most `MaxRun` ago, so its claim
  cannot have expired; this turns time into exclusion;
* `Recorded`: what the file and the holders know was really written as a claim, from
  which `HeldMeansRecentClaim` follows;
* `RunsFollow`: a resolved or recorded run exists and is at most `Slack` older than its
  claim (at or east of UTC);
* `OwnRuns`: outside the windows, a run of this identity that is resolved or recorded is the
  run of that very claim: by `RunsSpaced` the run of any other claim is too old for it;
* `ClaimDiscipline` and `RunsSpaced`: who may be past claiming, what the file then holds,
  and that claims and the runs under them are a TTL apart, unless a window was hit.

One lemma per part shows that each action keeps it; `Inductive` puts them together and
`TypeCorrect`, `DisciplineHolds`, `ClaimsSpaceRuns`, `LateWritesAreRaces`, `HeldIsRecent`
and `EntryNamesItsRun` read the properties off it.

`LedgerIsLease` is the refinement, for any number of sessions and calls: `Init` maps to
`LeaseInit`, and under the invariant each action to a lease step or a stutter. A claim is
a `Grant` because `ClaimDiscipline` says that outside the windows the file showed the last
claim, or none that is still held; a dispatch is a `Launch` because a session past
claiming has not launched under its claim yet; a step through a window sets `lost`.

**FamilyVerifyProofs** (from `FamilyAssumption` and `BoundaryAssumption`: any sequence of
different providers, any boundaries). Lemmas about `AggregateVerdict` (one of three
values; PASS means all required are PASS; worse evidence is never better) and about
`Loaded`, then the invariant `TypeOK`, `Progress` (providers that had their turn are
settled as long as nothing failed), `Composed` (an established verdict is the composition
of the files as they still are), `Gated` and `Badged`. The order of the workflow enters
only through `Progress`; without it the badge could be PASS over a provider that never
ran. The five checked properties, type correctness and the monotonicity of the composition are theorems.

**ProviderScriptsProofs** (from `PackagingAssumption`: any number of uses of any of the
actions). The six properties of `packaging` are theorems of `JobSpec`. The invariant is

* `Sound`: a manifest contains the receipt it was written over, whose produced file is the
  manifest's check; an artifact whose receipt and manifest agree is thereby of one
  execution, without any argument about what died in between;
* `Kept`: check, receipt and manifest that agree are of one packaging, unless one died
  between check and receipt;
* `Stages`: what the packaging of the present execution has written so far, up to the outputs
  the gate reads; without it a gate might read outputs of one execution and files of another;
* `Fresh` and `Debugged`: a result or debug check is of its execution, or `slips` names the
  program that kept silent.

Providers, packaging steps, debug stage and the next use each have a lemma per part;
`JobIsKept` puts them together.

**ExternalEvidenceProofs, the policy** (from `RequestAssumption`: requests of any number
of obligations, any budget). `BuildResult` takes the last value of a recursive function
over the obligations. `AccumulatorsExist` shows that the function is there; `Decided` and
`Queued` say what it holds after the first `n` obligations: which decisions are marked
deferred, how long the queue is and who stands where in it, in terms of the number of
eligible obligations before. `BudgetStep` carries this over one more obligation, and
`SummedUp` is the induction. It needs no operator parameter: `Induction` is stated of a
set of naturals, and derived from the well-foundedness of `<`. `VerdictsNeverDecide` is an
action property over the invariant that the result is the result of the request:
`SameAccumulators` shows by a second induction that requests which differ in verdicts
only have accumulators that do.

**ExternalEvidenceProofs, the passes** (from `AmbientAssumption`: any number of hosts,
obligations, workflows, commits and runs, any limits). None of the four properties is
inductive. The invariant has, beside types (`WorldInv`, `RunsInv`),

* `StagedInv` and `PlansInv`: staged evidence is of a completed run that packaged the
  check, decisions stand in the order of the obligations, and a decision that is current
  or on a finished run names such a run at the measured revision. Completed runs do not
  change any more, so a decision stays true however old it gets: `CurrentIsProved`.
* `UnpublishedInv`: a commit that was not pushed is no run's, and no pass wants to
  dispatch at it. The policy refuses it when it is measured; that the number of a commit
  is new when it is made does the rest: `OnlyPublishedRequested`.
* `ClaimsInv`: a claim stands for every run that is not listed yet, and for every listing
  that a pass under way did not see, or it is in `lost`.
* `HoldersInv`: a host between its look at the claim and its launch is the only one there and
  has seen every run of the identity, unless the claim was lost. This is the step the code
  makes without a lock, and the reason for the exception in the next two.
* `InFlightInv`: of the runs at a revision nobody raced to and whose claim was not lost only
  the last is under way; if it is, and a pass wants to dispatch there, the pass missed its
  listing. A dispatch that found no claim has therefore missed nothing: `InFlightAtMostOne`.
* `AttemptsInv`: a pass that wants to dispatch beyond the limit has seen a failure, or is
  held off by the claim of a run it has not seen: `AttemptsBounded`.

`EvaluateBegins` connects the two parts: what a pass plans is what the policy decides of
its measurement. Each part of the invariant has a lemma for a step; `RunsStep` and
`PlansStep` say once what a step may do to runs and plans.

**FamilyEvidenceProofs** (from `ConstantsAssumption`: any producers, checks, revisions,
attempts, late writes and edits). `JobsInv` says what a job knows at each step of itself:
from `Start` on the directory holds only what was written in this attempt, a sealed
envelope is consistent (its revision is the one its own contract names) and lists the
files that were hashed. `AssemblerInv` and `TakenInv` carry this to what was uploaded and
taken: bytes the envelope vouches for. `EditInv` counts the edits of a local contract.
`EvidenceIsOfOneContract` speaks of local evidence only up to two edits, because the
contract is read twice by each program (`assemble_family_evidence.py:112` and `:121`,
`family_producer.py:338` and `:343`): with three, a digest may be of another document than the revisions
beside it, and the proof is what brought the exception to light. In the workflows nobody
edits: there the evidence is of the candidate the assembler found, in whichever attempt that
was uploaded.

**FamilyAcceptanceProofs** (from `ConstantsAssumption`: any finite set of members, any
passes and templates). `DocsInv` says of each file what whoever wrote it had verified or
computed, without saying in which pass: that is all one knows of a file that an earlier
pass may have left. The verifications tie the files together by the digests they hold, so
`ReplayedInv` and with it `ReplayedIsEarned`, `TierIsHonest` and `ProposalIsBound` hold of
mixed workspaces too. In a pass of its own workspace more is true (`OwnInv`): each file
was written once, after those it speaks of, which is what `UninterruptedPassReplays` needs.

**SelectiveFamilyProofs** (from `ConstantsAssumption`: any consumers and selections, any
number of calls and changes). `RecordsInv` follows evidence from the check that made it
into the records of a call, `ProofsInv` on to the proofs, and `VisitInv` back from a proof to the
records of a later call, along chains of any length. That nothing moved during a call is
known only at its end; `Earlier` (worlds only grow) turns equality of the two ends into
equality of everything read in between. On the canonical path the native results of all
records are joined to one sequence; lemmas about `FlattenSeq`, by induction, show that as
many results as edges, none of them empty, are one each.

**DevelopmentPressureProofs** (from `PressureAssumption`: any checks, limitations, owners'
records and subjects, any number of observations). `PressureInv` says that every bundle
is well formed (it names an earlier one, its history is what that one reported, and what
that one reported it reports or lists as not reproduced), that
the file of records has a required record for each pressure of its bundle, whatever was
settled in it, and that each record that is not open is an owner's word. Its action lemmas
need the bundles only as something that is appended to. `HistoryIsProved` follows from
the first part; `VerdictsAreOwners` from the other two and `VerdictMeans`, the lemma about
what PASS and FAIL of a set of records say. `NothingIsLost` is about the recursive function
`Lineage`; instead of an induction over the bundles, the invariant `Traced` speaks of every
function that satisfies its equation, and says that one exists, so that the induction is
the one over the behaviour (`LineExtended`).

**Only model-checked**: `EvidenceIsAdmitted`, because liveness under fairness and
`ENABLED` are beyond the prover, and the two violated properties. What a limit of the
models excludes is excluded from the theorems as well: see the assumptions below.

## Findings

1. `selective_reuse`: the canonical path records evidence of a form its own reuse cannot
   read, and a call that is given a matching canonical proof ends in a `KeyError`, where
   the documentation says it reuses or runs the check. The oracle path reuses.
2. `selective_batches`: a consumer with more than eight tests yields one result per
   batch, which the native reducer compares with the selected edges by position; the
   composite proof is UNKNOWN though all tests passed.

Smaller disagreements are in the models, and the properties are stated around them, so
that they say what does hold; each is a hazard with a note unless it is harmless:

* A failed run is dispatched again although the attempts are exhausted
  (`external_evidence.mncs` answers for a failed run before it asks for the limit;
  `docs/ambient-external-evidence.md:46` defers): `AttemptsBounded` has the exception.
* A successful run without a usable artifact is subscribed to in every pass; the comment at
  `external_evidence.mncs:423-424` says the next pass admits or redispatches.
  `EvidenceIsAdmitted` speaks of runs that packaged the check.
* Local evidence may name one contract's revisions beside another's digest when the file is
  edited three times during a run; `docs/family-workflow.md:143` calls the evidence bound
  to one contract. `EvidenceIsOfOneContract` has the exception.
* Two sessions may take one claim at the same time; `docs/ambient-external-evidence.md:64-66`
  says identical runs are rare, not excluded. `InFlightAtMostOne` and `AttemptsBounded`
  except the identities it happened to.
* A refused projection of pressure leaves the records of an earlier bundle in place, and the
  next `mncds-obligations` is about that bundle without saying so. `DecidedByOwners` speaks
  of the bundle the file came from.
* After a re-run whose prepare failed the assembler may assemble an earlier attempt's
  candidate again; the evidence is whole and of one contract, and the run is red.
* A raced run is filtered out of the listing (`_resolve_run`), whose comment wants it
  returned.
* A command that ends its shell leaves no receipt (`docs/receipt-and-claim.md:49-50`
  promises one on every path).
* `emit_obligation_check.py` ends in a traceback when a command wrote something before its
  timeout, or may not be started for another reason than a missing file; its docstring
  promises UNKNOWN for both. `GreenIsFresh` shows that no earlier result is taken instead.
* `mncs-debug/test.sh` accepts a witness or diagnosis that an earlier failure left when the
  debugger writes none; `tests/test_mncs_debug_action.py:117` asserts the run id.
  `DebugIsOfThisFailure` names the exception.
* `README.md:101-104` says the debug transport invokes the projection its diagnosis calls
  missing and checks again; the script records its name and invokes nothing. The model
  does not tell projections apart.
* The acceptance workflow never binds its predecessor's proof, and no workflow gives the
  assembler an earlier bundle of pressure: the documents describe both links.
* A plan with the tests of two consumers cannot be established on the canonical path.

## Assumptions of the models

* A SHA-256 digest identifies its content; a file that does not parse is a refusal.
* Writes of one system call are atomic; a file rewritten with `write_text` is truncated first.
* GitHub executes a dispatched workflow at the commit the branch then names, keeps the
  outputs of a failed step, and runs `always()` steps unless the runner is lost.
* Pinned revisions of the composite actions behave as the sources in this repository.
* The owners' code, test runners, debuggers and host commands are any programs that write
  only the files they are given to write.

## Not modelled

* The authority map, mesh and promotion-gate checks, summaries, action pins, JUnit, RFC
  ledger and project check, the conformance action: stateless functions of committed
  documents; nothing happens between two states of theirs.
* The adapters to the other family repositories: one foreign command each, and a pure
  translation of its answer.
* The SVG of the badge, digests byte by byte, JSON validation, the reading of pins and of
  git diffs, the wording of `gh` errors and the probe of the transport: conversions no
  property is about; where a refusal matters it is a guard.
* The cold replay of `family_proof.py` over member checkouts and the publication of records
  in a Commons checkout: file operations of other repositories.
* `mncs-development-canary.yml` runs the members' own test suites and keeps nothing.
* The applications behind `family_check`: their decision is one verdict per batch.

## Plan

1. `AmbientEvidence` uses a set of live claims; stating it over `DispatchLedger` would compose
   the two, and make `lost` a consequence of the ledger's `breach` and of its times.
2. `FamilyAcceptance` takes the evidence of a member as an outcome of its producer; the
   assembler of `FamilyEvidence` is a candidate for an abstract specification of that step,
   with a refinement proved as `LedgerIsLease` is.
3. `ExternalEvidencePolicy` decides the first of several obligations it is asked about as it
   would decide it alone: a theorem about `BuildResult` that the lemmas of
   `ExternalEvidenceProofs` have prepared.
