-------------------------- MODULE FamilyAcceptance --------------------------
(***************************************************************************)
(* How the accepted state of the family advances (scripts/family_graph.py, *)
(* scripts/family_proof.py, scripts/family_contracts.py,                   *)
(* scripts/family_coherence.py and scripts/family_commons_record.py, in    *)
(* the order of .github/workflows/family-graph-advance.yml).               *)
(*                                                                         *)
(* A pass over a checkout of main writes one file after another: a         *)
(* candidate, the obligations it was nominated with, four builds of one    *)
(* graph, the boundary, the coherence report, the checks, the promotion    *)
(* claim, the Commons record, a proposal and a bundle, which is replayed.  *)
(* Every command reads its inputs from files, and trusts nothing but what  *)
(* it verifies of them.  A pass may stop at any step, and a second pass    *)
(* may run in the same workspace: it then leaves any file of the first in  *)
(* place, as a command line that is not run again does.  Meanwhile the     *)
(* heads of the members move, and main too.                                *)
(*                                                                         *)
(* A digest is modelled by the content it is taken of.  A malformed file   *)
(* is refused, which changes nothing.                                      *)
(***************************************************************************)
EXTENDS Integers, Sequences, FiniteSets

CONSTANTS
    Members,        \* the members of the family, the orchestrator left out
    Standard,       \* the member whose tree holds the promotion evaluator
    MaxRevision,    \* bound on the revisions
    FirstHead,      \* the heads at first; revision 0 is the accepted one
    LastRevision,   \* the last revision of each member
    Outcomes,       \* the verdicts the members may reach together
    Recorded,       \* the candidate the tree of a revision records, or -1
    Required,       \* what each version of the boundary template requires
    Tolerated,      \* whose open obligations it tolerates
    Floor,          \* the least revision of each member the run can use
    Pins,           \* <<m, n>>: m pins a revision of n
    Pinned,         \* the revisions of n that a revision of m names
    Unclassified,   \* <<n, r, q>>: paths no capability row covers changed
    MaxPasses,      \* bound on the passes
    MaxCommits,     \* bound on the commits of main
    None            \* a file that is not there

Revision == 0..MaxRevision
Template == 1..Len(Required)

ASSUME ConstantsAssumption ==
    /\ Standard \in Members /\ IsFiniteSet(Members)
    /\ MaxRevision \in Nat /\ FirstHead \in [Members -> Revision]
    /\ LastRevision \in [Members -> Revision]
    /\ Outcomes \subseteq [Members -> {"PASS", "UNKNOWN"}]
    /\ Recorded \in [Members -> [Revision -> Revision \cup {-1}]]
    /\ Required \in Seq(SUBSET Members) /\ Required # << >>
    /\ Tolerated \in Seq(SUBSET Members) /\ Len(Tolerated) = Len(Required)
    /\ Floor \in [Members -> Nat]
    /\ Pins \subseteq Members \X Members
    /\ Pinned \in [Pins -> [Revision -> SUBSET Revision]]
    /\ Unclassified \subseteq Members \X Revision \X Revision
    /\ MaxPasses \in Nat /\ MaxCommits \in Nat

VARIABLES
    main,       \* contracts, accepted graph and boundary template of main
    head,       \* the head of each member
    checkout,   \* main as the pass checked it out
    work,       \* the files of the workspace
    pc,         \* the file the pass writes next
    kept,       \* does the pass run in the workspace of another?
    pass,       \* how many passes were started
    replayed,   \* the replay accepted the bundle
    chain       \* what was accepted, oldest first

vars == <<main, head, checkout, work, pc, kept, pass, replayed, chain>>

\* The steps of a pass, named for the file each of them writes.
Steps == <<"candidate", "obligations", "skeleton", "checks", "boundary",
           "coherence", "validated", "claim", "promoted", "commons",
           "related", "proposal", "bundle", "replay">>
Files == {Steps[i] : i \in 1..13}
Following == [s \in Files \cup {"replay"} |->
                IF s = "replay" THEN "done"
                ELSE Steps[1 + CHOOSE i \in 1..13 : Steps[i] = s]]
Graphs == {"skeleton", "validated", "promoted", "related"}

Empty == [f \in Files |-> None]

-----------------------------------------------------------------------------
(* Documents and what is derived from them.                                *)

\* A bug to tell apart: the evidence is part of the identity.
DigestOfAll(g) == [base |-> g.base, members |-> g.members,
                   actions |-> g.actions, evidence |-> g.evidence]

\* The identity of a graph: the base, the members and the orchestrator.
Digest(g) == [base |-> g.base, members |-> g.members, actions |-> g.actions]

Base(c) == [graph |-> c.graph, contracts |-> c.contracts]

\* A candidate that observes the heads.
Observed(fixed, heads) == [base |-> fixed, revision |-> heads]

\* The revision a member's tree nominates: the recorded one, or its head.
Nominated(m, r) == IF Recorded[m][r] = -1 THEN r ELSE Recorded[m][r]

\* What the coherence analysis of a constellation holds against it, with the
\* pins read in the trees that are checked out.
Blockers(trees, members, template) ==
    {k \in {"pin", "movement", "floor", "cycle"} :
        \/ k = "pin" /\ \E p \in Pins :
                            Cardinality(Pinned[p][trees[p[1]]]) # 1
        \/ k = "movement" /\ \E p \in Pins, r \in Revision :
                                /\ Pinned[p][trees[p[1]]] = {r}
                                /\ r # members[p[2]]
                                /\ <<p[2], r, members[p[2]]>> \in Unclassified
        \/ k = "floor" /\ \E m \in Members : members[m] < Floor[m]
        \/ k = "cycle" /\ Required[template] = {}}

\* A bug to tell apart: a build drops what the coherence report says.
GraphWithoutReport(stage) ==
    [base |-> Base(checkout), members |-> work["candidate"].revision,
     actions |-> checkout.commit,
     evidence |-> IF stage = "skeleton" THEN None ELSE work["checks"],
     promotion |-> IF stage \in {"promoted", "related"} THEN work["claim"]
                   ELSE None,
     blockers |-> {}]

\* The graph that a build writes at one of its four stages.
Graph(stage) ==
    LET later == stage # "skeleton"
        promotion == IF stage \in {"promoted", "related"}
                     THEN work["claim"] ELSE None
    IN  [base |-> Base(checkout), members |-> work["candidate"].revision,
         actions |-> checkout.commit,
         evidence |-> IF later THEN work["checks"] ELSE None,
         promotion |-> promotion,
         blockers |-> (IF later THEN work["coherence"].blockers ELSE {})
                      \cup {k \in {"promotion"} : /\ promotion # None
                                                  /\ promotion.verdict # "PASS"}]

\* The owner's evaluator.  It refuses a boundary of another graph, and
\* evidence about a revision the graph does not hold.
Admits(boundary, checks, obligations, g) ==
    /\ boundary.graph = Digest(g)
    /\ \A m \in Members : checks[m].subject = g.members[m]
    /\ \A o \in obligations : o.subject = g.members[o.member]

\* Open, and required: an open optional obligation is visible, not deciding.
Deciding(o) == o.open /\ o.required

Passing(checks, required) == {m \in required : checks[m].verdict = "PASS"}

Claim(boundary, checks, obligations, g, producer) ==
    LET required == Required[boundary.template]
        passed == Passing(checks, required)
        open == {o \in obligations :
                    Deciding(o) /\ o.member \notin Tolerated[boundary.template]}
    IN  [verdict |-> IF passed = required /\ open = {} THEN "PASS" ELSE "UNKNOWN",
         graph |-> Digest(g), boundary |-> boundary, checks |-> checks,
         obligations |-> obligations, total |-> Cardinality(required),
         passed |-> Cardinality(passed), producer |-> producer]

\* A bug to tell apart: open obligations do not lower the tier.
TierOfChecks(claim, boundary, checks, obligations) ==
    IF claim.verdict # "PASS" THEN "refused"
    ELSE IF \E m \in Members \ Required[boundary.template] :
                checks[m].verdict # "PASS" THEN "core" ELSE "full"

\* The acceptance tier.
Tier(claim, boundary, checks, obligations) ==
    IF claim.verdict # "PASS" \/ claim.total < 1 \/ claim.passed # claim.total
    THEN "refused"
    ELSE IF \/ \E o \in obligations : Deciding(o)
            \/ \E m \in Members \ Required[boundary.template] :
                    checks[m].verdict # "PASS"
    THEN "core" ELSE "full"

-----------------------------------------------------------------------------
(* The verifications.                                                      *)

\* The claim was evaluated under this boundary, which is the template for
\* this graph.
ClaimIsBound(claim, boundary, g, template) ==
    /\ boundary.graph = Digest(g)
    /\ claim.boundary = boundary
    /\ claim.total = Cardinality(Required[boundary.template])
    /\ boundary.template = template

\* A claim that is well formed.
ClaimIsValid(claim, g) ==
    /\ claim.graph = Digest(g)
    /\ claim.total >= 1 /\ claim.passed <= claim.total
    /\ claim.verdict = "PASS" => claim.passed = claim.total

\* The Commons record is about the members of this graph, this claim and
\* this predecessor.
RecordIsBound(record, claim, g) ==
    /\ record.members = g.members /\ record.actions = g.actions
    /\ record.promotes = claim
    /\ record.predecessor = g.base.graph

\* A bug to tell apart: the files are not verified again.
VerifiedByBase(g) == g.base.contracts = checkout.contracts

\* verify: the closure of a graph in the workspace.
Verified(g) ==
    /\ g.base.contracts = checkout.contracts
    /\ g.promotion = work["claim"]
    /\ ClaimIsBound(work["claim"], work["boundary"], g, checkout.template)
    /\ ClaimIsValid(work["claim"], g)
    /\ work["coherence"].graph = Digest(g)
    /\ RecordIsBound(work["commons"], work["claim"], g)

WorkTier == Tier(work["claim"], work["boundary"], work["checks"],
                 work["obligations"])

\* Why advance would not refuse.
MayAdvance ==
    LET g == work["related"] IN
    /\ g.base.contracts = checkout.contracts
    /\ g.promotion.verdict = "PASS"
    /\ g.blockers = {}
    /\ work["coherence"].graph = Digest(g)
    /\ work["coherence"].blockers \cap {"movement", "cycle"} = {}
    /\ Verified(g)
    /\ WorkTier # "refused"
    /\ g.members # checkout.contracts

\* Why build-proof would not refuse.
MayPack ==
    LET g == work["related"] IN
    /\ work["bundle"] = None
    /\ Digest(work["proposal"].graph) = Digest(g)
    /\ g.promotion.verdict = "PASS"
    /\ Verified(g)
    /\ work["coherence"].blockers = {}
    /\ work["claim"].verdict = "PASS"
    /\ WorkTier # "refused" /\ work["proposal"].tier = WorkTier
    /\ work["claim"].producer = g.members[Standard]
    /\ work["proposal"].contracts = g.members

Bundle ==
    [graph |-> work["related"], accepted |-> work["proposal"],
     boundary |-> work["boundary"], template |-> checkout.template,
     coherence |-> work["coherence"], claim |-> work["claim"],
     commons |-> work["commons"], before |-> checkout.contracts,
     after |-> work["proposal"].contracts, checks |-> work["checks"],
     obligations |-> work["obligations"], tier |-> WorkTier,
     predecessor |-> [graph |-> work["related"].base.graph, proof |-> None]]

ReplayIdentity(b) ==
    b.accepted.graph = b.graph /\ b.accepted.tier = b.tier

ReplayBoundary(b) ==
    /\ b.boundary.graph = Digest(b.graph)
    /\ b.template = checkout.template
    /\ b.boundary.template = checkout.template

ReplayEvidence(b) == b.checks = b.graph.evidence

ReplayCoherence(b) ==
    b.coherence.graph = Digest(b.graph) /\ b.coherence.blockers = {}

ReplayClaim(b) ==
    /\ b.graph.promotion = b.claim
    /\ b.claim.verdict = "PASS"
    /\ b.claim.boundary = b.boundary
    /\ ClaimIsValid(b.claim, b.graph)

ReplayTransition(b) ==
    /\ b.before = b.graph.base.contracts
    /\ b.after = b.graph.members
    /\ b.tier = Tier(b.claim, b.boundary, b.checks, b.obligations)
    /\ b.predecessor.graph = b.graph.base.graph

\* A bug to tell apart: the recorded verdict is taken as it is.
ReplayRecorded(b) == b.claim.verdict = "PASS"

\* The evaluator runs again over the bytes of the bundle.
ReplayRerun(b) ==
    /\ Admits(b.boundary, b.checks, b.obligations, b.graph)
    /\ Claim(b.boundary, b.checks, b.obligations, b.graph, b.claim.producer)
            = b.claim

Replays(b) ==
    /\ ReplayIdentity(b) /\ ReplayBoundary(b) /\ ReplayEvidence(b)
    /\ ReplayCoherence(b) /\ ReplayClaim(b)
    /\ RecordIsBound(b.commons, b.claim, b.graph)
    /\ ReplayTransition(b) /\ ReplayRerun(b)

-----------------------------------------------------------------------------
(* A pass.                                                                 *)

Init ==
    /\ main = [commit |-> 0, graph |-> 0, template |-> 1,
               contracts |-> [m \in Members |-> 0]]
    /\ head = FirstHead
    /\ checkout = main
    /\ work = Empty
    /\ pc = "done" /\ kept = FALSE /\ pass = 0 /\ replayed = FALSE
    /\ chain = << >>

\* A step that writes a file and nothing else, if it does not refuse.
Write(f, accepted, document) ==
    /\ pc = f /\ accepted
    /\ work' = [work EXCEPT ![f] = document]
    /\ pc' = Following[f]
    /\ UNCHANGED <<main, head, checkout, kept, pass, replayed, chain>>

Start(fresh) ==
    /\ pc = "done" /\ pass < MaxPasses
    /\ pass = 0 => fresh
    /\ pass' = pass + 1
    /\ checkout' = main
    /\ work' = IF fresh THEN Empty ELSE work
    /\ kept' = ~fresh
    /\ replayed' = FALSE
    /\ pc' = "candidate"
    /\ UNCHANGED <<main, head, chain>>

Propose == Write("candidate", TRUE, Observed(checkout.contracts, head))

MayNominate ==
    /\ work["candidate"].base = checkout.contracts
    /\ work["obligations"] \in {None, {}}

\* The obligations are those of the tree the candidate was read in; which of
\* them are open and which required is the owner's matter.  The checkouts
\* then move to the nominated revisions.
Nominate ==
    /\ pc = "obligations" /\ MayNominate
    /\ LET seen == work["candidate"].revision
           speaking == {m \in Members : Recorded[m][seen[m]] # -1}
       IN  \E open, required \in SUBSET speaking :
             work' = [work EXCEPT
                !["candidate"].revision = [m \in Members |-> Nominated(m, seen[m])],
                !["obligations"] = {[member |-> m, open |-> m \in open,
                                     required |-> m \in required,
                                     subject |-> Nominated(m, seen[m])] :
                                        m \in speaking}]
    /\ pc' = Following[pc]
    /\ UNCHANGED <<main, head, checkout, kept, pass, replayed, chain>>

MayBuild == work["candidate"].base = checkout.contracts

Build(stage) == Write(stage, MayBuild, Graph(stage))

\* Each member is checked at the candidate revision; its verdict is its own.
Produce ==
    \E verdict \in Outcomes :
        Write("checks", TRUE, [m \in Members |->
            [subject |-> work["candidate"].revision[m], verdict |-> verdict[m]]])

Materialize ==
    Write("boundary", TRUE, [template |-> checkout.template,
                             graph |-> Digest(work["skeleton"])])

\* The trees are those of the candidate, also when the skeleton is kept.
Analyze ==
    Write("coherence", TRUE,
          [graph |-> Digest(work["skeleton"]),
           blockers |-> Blockers(work["candidate"].revision,
                                 work["skeleton"].members,
                                 work["boundary"].template)])

MayEvaluate == Admits(work["boundary"], work["checks"], work["obligations"],
                      work["validated"])

Evaluate ==
    Write("claim", MayEvaluate,
          Claim(work["boundary"], work["checks"], work["obligations"],
                work["validated"], work["candidate"].revision[Standard]))

Relate ==
    Write("commons", TRUE, [members |-> work["promoted"].members,
                            actions |-> work["promoted"].actions,
                            promotes |-> work["claim"],
                            predecessor |-> work["promoted"].base.graph])

Advance ==
    Write("proposal", MayAdvance, [graph |-> work["related"], tier |-> WorkTier,
                                   contracts |-> work["related"].members])

Pack == Write("bundle", MayPack, Bundle)

Replay ==
    /\ pc = "replay" /\ Replays(work["bundle"])
    /\ replayed' = TRUE
    /\ pc' = "done"
    /\ UNCHANGED <<main, head, checkout, work, kept, pass, chain>>

\* A file of an earlier pass is left in place.
Keep ==
    /\ kept /\ pc \in Files /\ work[pc] # None
    /\ pc' = Following[pc]
    /\ UNCHANGED <<main, head, checkout, work, kept, pass, replayed, chain>>

\* A step refuses or fails, and the pass is over.
Stop ==
    /\ pc # "done"
    /\ pc' = "done"
    /\ UNCHANGED <<main, head, checkout, work, kept, pass, replayed, chain>>

-----------------------------------------------------------------------------
(* What moves between the passes.  A pass reads the heads and main when it *)
(* starts and never again, so that a move during it has the effect of one  *)
(* after it.                                                               *)

HeadMoves(m) ==
    /\ pc = "done" /\ head[m] < LastRevision[m]
    /\ head' = [head EXCEPT ![m] = @ + 1]
    /\ UNCHANGED <<main, checkout, work, pc, kept, pass, replayed, chain>>

Commit(contracts, graph, template) ==
    /\ pc = "done" /\ main.commit < MaxCommits
    /\ main' = [commit |-> main.commit + 1, contracts |-> contracts,
                graph |-> graph, template |-> template]

\* The contracts advance to the heads without a graph.
PromoteContracts ==
    /\ main.contracts # head
    /\ Commit(head, main.graph, main.template)
    /\ UNCHANGED <<head, checkout, work, pc, kept, pass, replayed, chain>>

ReplaceTemplate ==
    /\ main.template < Len(Required)
    /\ Commit(main.contracts, main.graph, main.template + 1)
    /\ UNCHANGED <<head, checkout, work, pc, kept, pass, replayed, chain>>

\* A maintainer merges a bundle that replayed.  The accepted graph changes
\* as a whole, so that it conflicts when another was merged before; the
\* contracts merge line by line.
Merge ==
    LET b == work["bundle"]
        clean == \A m \in Members : \/ main.contracts[m] = b.before[m]
                                    \/ b.after[m] \in {b.before[m], main.contracts[m]}
        merged == [m \in Members |-> IF b.after[m] = b.before[m]
                                     THEN main.contracts[m] ELSE b.after[m]]
    IN
    /\ replayed
    /\ main.graph = b.graph.base.graph /\ clean
    /\ Commit(merged, main.graph + 1, main.template)
    /\ chain' = Append(chain, [graph |-> Digest(b.graph), tier |-> b.tier,
                               predecessor |-> b.predecessor])
    /\ UNCHANGED <<head, checkout, work, pc, kept, pass, replayed>>

Next ==
    \/ \E fresh \in BOOLEAN : Start(fresh)
    \/ Propose \/ Nominate \/ Produce \/ Materialize \/ Analyze
    \/ \E stage \in Graphs : Build(stage)
    \/ Evaluate \/ Relate \/ Advance \/ Pack \/ Replay
    \/ Keep \/ Stop
    \/ \E m \in Members : HeadMoves(m)
    \/ PromoteContracts \/ ReplaceTemplate \/ Merge

Spec == Init /\ [][Next]_vars

-----------------------------------------------------------------------------
(* What is checked.                                                        *)

\* The members of a constellation, as evidence at exactly their revisions.
EarnedBy(members, checks, required) ==
    \A m \in required : checks[m] = [subject |-> members[m], verdict |-> "PASS"]

\* A bundle that replays was earned, whatever files of other passes its
\* workspace held: what the template in force requires passed at exactly the
\* revisions of the graph, no open required obligation is passed over unless
\* the template tolerates it, and the contracts move from the base to the
\* constellation.  In a workspace of its own nothing speaks against the
\* constellation either; a report that a later pass wrote about a kept
\* skeleton has read the pins of that pass's trees (family_proof.py,
\* verify-accepted).
ReplayedIsEarned ==
    replayed =>
        LET b == work["bundle"]
            members == b.graph.members
        IN  /\ EarnedBy(members, b.checks, Required[checkout.template])
            /\ \A o \in b.obligations :
                    /\ o.subject = members[o.member]
                    /\ Deciding(o) => o.member \in Tolerated[checkout.template]
            /\ ~kept => Blockers(members, members, checkout.template) = {}
            /\ b.before = b.graph.base.contracts /\ b.after = members
            /\ b.after # b.before

\* A bundle that replays says "full" exactly when every authority passed at
\* the revision the graph holds and no required obligation is open, and the
\* graph it accepts says the same: evidence that is produced again after the
\* tier was projected cannot raise it (family_graph.py, acceptance_tier).
TierIsHonest ==
    replayed =>
        LET b == work["bundle"] IN
        /\ (b.tier = "full") <=> /\ EarnedBy(b.graph.members, b.checks, Members)
                                 /\ \A o \in b.obligations : ~Deciding(o)
        /\ b.accepted.tier = b.tier
        /\ b.accepted.graph.evidence = b.checks

\* A proposal holds a claim about exactly its graph, reached from evidence
\* about exactly its members, and it changes the contracts; so it is also
\* when the claim of an earlier pass is left in the workspace
\* (family_graph.py, advance).
ProposalIsBound ==
    work["proposal"] # None =>
        LET g == work["proposal"].graph
            c == g.promotion
        IN  /\ c.verdict = "PASS" /\ c.graph = Digest(g)
            /\ EarnedBy(g.members, c.checks, Required[c.boundary.template])
            /\ work["proposal"].contracts # g.base.contracts

\* In a pass of its own workspace the builds of one candidate are one graph,
\* which the boundary and the report name: what a build adds never changes
\* the identity (family_graph.py, graph_digest).
IdentityHolds ==
    ~kept => Cardinality(
        {Digest(work[g]) : g \in {f \in Graphs : work[f] # None}}
        \cup {work[f].graph : f \in {e \in {"boundary", "coherence", "claim"} :
                                        work[e] # None}}) <= 1

\* What advance proposes in a pass of its own workspace neither build-proof
\* nor the replay refuses: the three verifications agree about a closure
\* that nothing disturbed (family-graph-advance.yml, the last steps).  What
\* build-proof refuses over a temporary path in a document or over the
\* schema of an obligation is not modelled.
UninterruptedPassReplays ==
    ~kept => /\ pc = "bundle" => MayPack
             /\ pc = "replay" => Replays(work["bundle"])
=============================================================================
