-------------------------- MODULE SelectiveFamily --------------------------
(***************************************************************************)
(* The execution of a selective verification plan                          *)
(* (scripts/selective_family_verify.py, build_selective_proof) and the     *)
(* native reduction of its result (native/mncs/actions/family.mncs and     *)
(* traversal.mncs).                                                        *)
(*                                                                         *)
(* A call visits the consumers of the plan's edges one after another.  At  *)
(* each it reads the revision of the checkout, and copies the evidence of  *)
(* a prior proof if everything that evidence depends on is unchanged, or   *)
(* has the check run.  The canonical call has the native Actions           *)
(* application decide, the oracle is the Python projection.  Checkouts,    *)
(* tools, graph and plan change at any time, also in the middle of a call, *)
(* and a call may be given any proof of an earlier one.                    *)
(*                                                                         *)
(* A revision is modelled by the content committed as it, an identity by   *)
(* what it is taken of.  Documents that a call cannot read are refusals.   *)
(***************************************************************************)
EXTENDS Integers, Sequences, FiniteSets, SequencesExt

CONSTANTS
    Consumers,      \* the repositories that may be selected
    Tracked,        \* those whose checkout is a git checkout
    Selections,     \* the edges a plan may select, in their order: consumer,
                    \* contract, runner, and the batches of the tests
    Capacity,       \* the most edges or results that are reduced (64)
    MaxCalls,       \* bound on the calls
    MaxMoves,       \* bound on the changes around them
    None            \* what is not there

\* Numbers of edits, and what is made of them.
Number == 0..MaxMoves
Content == [declaration : Number, source : Number]
World == [tree : [Consumers -> Content], head : [Consumers -> Content],
          producer : Number, tools : Number]
Graph == [Consumers -> Number]
Plan == [edges : Selections, graph : Graph, change : Number]
Call == [native : BOOLEAN, prior : Nat, plan : Plan, producer : Number,
         tools : Number, world : World]

ASSUME ConstantsAssumption ==
    /\ Tracked \subseteq Consumers
    /\ Selections \subseteq Seq([consumer : Consumers, contract : Nat,
                                batches : Nat \ {0},
                                runner : {"mncs-test", "declaration"}])
    /\ << >> \notin Selections
    /\ Capacity \in Nat /\ MaxCalls \in Nat /\ MaxMoves \in Nat
    /\ None \notin Call
    /\ None \notin [content : Content, producer : Number, tools : Number,
                    steady : BOOLEAN]

VARIABLES
    world,      \* the checkouts, the producer's revision and the tools
    graph,      \* the declarations the graph file was generated from
    plan,       \* the plan file: its edges, graph and the change it is for
    moves,      \* how many changes there were
    call,       \* what the call read when it started
    pc,         \* what the call does next
    revision,   \* that of the consumer it visits, as it was read when it was
                \* visited and as it was read when the check started
    records,    \* what it has recorded, one record per edge visited
    files,      \* the evidence in its output directory, by consumer
    proofs      \* the composite proofs of earlier calls, with their files

surroundings == <<world, graph, plan, moves>>
vars == <<world, graph, plan, moves, call, pc, revision, records, files,
          proofs>>

-----------------------------------------------------------------------------
(* Checkouts, edges and proofs.                                            *)

Clean(c) == c \in Tracked => world.tree[c] = world.head[c]

\* _repository_revision: the commit, or the declaration where there is none.
RepositoryRevision(c) ==
    IF c \in Tracked THEN world.head[c]
    ELSE [declaration |-> world.tree[c].declaration, source |-> None]

Declared == [c \in Consumers |-> world.tree[c].declaration]

Edges == call.plan.edges

\* An edge of the plan, with the declaration of its consumer in the graph.
PlanEdge(i) == [edge |-> Edges[i], declaration |-> call.plan.graph[Edges[i].consumer]]

Here == Len(records) + 1
Consumer == Edges[Here].consumer

\* The records of a consumer, by their places.
RecordsOf(seq, c) == {i \in DOMAIN seq : seq[i].evidence.edge.edge.consumer = c}

\* The first record of the consumer in a prior proof.
Prior(document, c) ==
    LET own == RecordsOf(document.records, c)
    IN  IF own = {} THEN None ELSE document.records[Min(own)].evidence

\* A bug to tell apart: the tools are not compared.
MatchesButTools(e) ==
    /\ e.edge = PlanEdge(Here) /\ e.revision = revision.visited
    /\ e.producer = call.producer

\* The evidence is about this edge, these revisions and these tools.
Matches(e) ==
    /\ e.edge = PlanEdge(Here)
    /\ e.revision = revision.visited
    /\ e.producer = call.producer
    /\ e.edge.edge.runner = "mncs-test" => e.tools = call.tools

\* _reuse_consumer, up to the decision of the native application: what the
\* prior proof and its files must be.
Reusable ==
    /\ call.prior # 0
    /\ LET proof == proofs[call.prior]
           e == Prior(proof, Consumer)
       IN  /\ proof.status = "PASS" /\ proof.plan = call.plan
           /\ e # None
           /\ Matches(e)
           /\ proof.files[Consumer] = e
           /\ e.verdict = "PASS"

Found == Prior(proofs[call.prior], Consumer)

\* The canonical call puts the present plan into the native evidence of the
\* prior record for the native application to decide.  A record without native
\* evidence is checked again; the evidence of an admitted provider is not of
\* the form that holds a plan, and the call dies of it.
Refreshable == ~call.native
Undecidable == call.native /\ Found.native # << >>

-----------------------------------------------------------------------------
(* The reduction of the records.                                           *)

\* A bug to tell apart: what is not known does not count.
DominantOfKnown(verdicts) == IF "FAIL" \in verdicts THEN "FAIL" ELSE "PASS"

\* FAIL before UNKNOWN before PASS.
Dominant(verdicts) ==
    IF "FAIL" \in verdicts THEN "FAIL"
    ELSE IF "UNKNOWN" \in verdicts THEN "UNKNOWN" ELSE "PASS"

Verdict == {"PASS", "FAIL", "UNKNOWN"}
Verdicts(seq) == {seq[i] : i \in DOMAIN seq}
RecordVerdicts == {records[i].evidence.verdict : i \in DOMAIN records}

\* One observation for each native family result, in the order of the plan.
Observations ==
    FlattenSeq([i \in DOMAIN records |->
        LET e == records[i].evidence
        IN  [j \in DOMAIN e.native |-> [edge |-> e.edge.edge, verdict |-> e.native[j]]]])

\* What is not valid about the observations: one without a verdict, or of
\* another edge than the one selected at its place; and an edge that is
\* selected twice.
Invalid(seen) ==
    {i \in DOMAIN seen : \/ seen[i].verdict = "UNKNOWN"
                         \/ i > Len(Edges)
                         \/ seen[i].edge # Edges[i]}
    \cup {i \in 2..Len(Edges) : Edges[i] = Edges[i - 1]}

\* family_traverse with family_coverage and selected_proof.
Traversal ==
    LET seen == Observations IN
    IF \/ Len(seen) > Capacity \/ Len(Edges) > Capacity
       \/ Invalid(seen) # {}
       \/ Len(seen) # Len(Edges)
    THEN "UNKNOWN"
    ELSE Dominant({seen[i].verdict : i \in DOMAIN seen})

\* The canonical call needs a native result of every consumer.
MayReduce == call.native => \A i \in DOMAIN records : records[i].evidence.native # << >>

Status == IF call.native THEN Traversal ELSE Dominant(RecordVerdicts)

-----------------------------------------------------------------------------
(* What changes around the calls.                                          *)

\* Nothing looks at the changes after the last call.
Move ==
    /\ moves < MaxMoves /\ moves' = moves + 1
    /\ Len(proofs) < MaxCalls
    /\ UNCHANGED <<call, pc, revision, records, files, proofs>>

EditSource(c) ==
    /\ world' = [world EXCEPT !.tree[c].source = @ + 1]
    /\ Move /\ UNCHANGED <<graph, plan>>

EditDeclaration(c) ==
    /\ world' = [world EXCEPT !.tree[c].declaration = @ + 1]
    /\ Move /\ UNCHANGED <<graph, plan>>

Commit(c) ==
    /\ ~Clean(c)
    /\ world' = [world EXCEPT !.head[c] = world.tree[c]]
    /\ Move /\ UNCHANGED <<graph, plan>>

MoveProducer ==
    /\ world' = [world EXCEPT !.producer = @ + 1]
    /\ Move /\ UNCHANGED <<graph, plan>>

ReplaceTools ==
    /\ world' = [world EXCEPT !.tools = @ + 1]
    /\ Move /\ UNCHANGED <<graph, plan>>

\* Commons generates the graph again, of the declarations as they are.
RegenerateGraph ==
    /\ graph # Declared /\ graph' = Declared
    /\ Move /\ UNCHANGED <<world, plan>>

\* RAVEL plans a change of the producer over the graph.
Replan ==
    /\ \E edges \in Selections :
            plan' = [edges |-> edges, graph |-> graph, change |-> world.producer]
    /\ plan' # plan
    /\ Move /\ UNCHANGED <<world, graph>>

-----------------------------------------------------------------------------
(* A call.                                                                 *)

Busy == pc \in {"visit", "decide", "run"}

Init ==
    /\ LET zero == [c \in Consumers |-> [declaration |-> 0, source |-> 0]] IN
       world = [tree |-> zero, head |-> zero, producer |-> 0, tools |-> 0]
    /\ graph = Declared
    /\ \E edges \in Selections :
            plan = [edges |-> edges, graph |-> graph, change |-> 0]
    /\ moves = 0
    /\ call = None /\ pc = "idle" /\ revision = None
    /\ records = << >> /\ files = [c \in Consumers |-> None]
    /\ proofs = << >>

\* _producer_binding and _runtime_bindings: the revision of the producer's
\* checkout, and the digests of the runner, the compiler and its libraries.
ProducerBinding == world.producer
RuntimeBindings == world.tools

\* The plan and the graph must agree; the producer and the tools are bound
\* here, for the whole call.
Begin(native, prior) ==
    /\ ~Busy /\ Len(proofs) < MaxCalls
    /\ plan.graph = graph
    /\ call' = [native |-> native, prior |-> prior, plan |-> plan,
                producer |-> ProducerBinding, tools |-> RuntimeBindings,
                world |-> world]
    /\ pc' = "visit"
    /\ UNCHANGED <<surroundings, revision, records, files, proofs>>

Visit ==
    /\ pc = "visit" /\ Here <= Len(Edges)
    /\ revision' = [visited |-> RepositoryRevision(Consumer), checked |-> None]
    /\ pc' = "decide"
    /\ UNCHANGED <<surroundings, call, records, files, proofs>>

\* A bug to tell apart: reused evidence is named but not copied.
RecordNotCopied(evidence, status) ==
    /\ records' = Append(records, [evidence |-> evidence, status |-> status])
    /\ files' = IF status = "reused" THEN files
                ELSE [files EXCEPT ![Consumer] = evidence]
    /\ pc' = "visit"

\* The evidence is in the consumer's directory, and the record names it.
Record(evidence, status) ==
    /\ records' = Append(records, [evidence |-> evidence, status |-> status])
    /\ files' = [files EXCEPT ![Consumer] = evidence]
    /\ pc' = "visit"

Reuse ==
    /\ pc = "decide" /\ Reusable /\ Refreshable
    /\ Record(Found, "reused")
    /\ UNCHANGED <<surroundings, call, revision, proofs>>

\* Evidence of a check.  What a check that passed ran on, and whether the call
\* was undisturbed until then, is not in it: it is recorded here to state what
\* evidence is worth.
Evidence(verdict, native, bound) ==
    [edge |-> PlanEdge(Here), verdict |-> verdict, native |-> native,
     revision |-> bound, producer |-> call.producer,
     tools |-> IF Edges[Here].runner = "mncs-test" THEN call.tools ELSE None,
     ran |-> IF verdict = "PASS"
             THEN [content |-> world.tree[Consumer], producer |-> world.producer,
                   tools |-> world.tools, steady |-> world = call.world /\ Clean(Consumer)]
             ELSE None]

\* _consumer_check: the declaration must be that of the graph.  A declaration
\* passes then; the tests are still to run.
StartCheck ==
    /\ pc = "decide"
    /\ Reusable => call.native /\ Found.native = << >>
    /\ IF world.tree[Consumer].declaration # PlanEdge(Here).declaration
       THEN /\ Record(Evidence(IF Edges[Here].runner = "mncs-test"
                               THEN "UNKNOWN" ELSE "FAIL", << >>, revision.visited),
                      "generated")
            /\ revision' = revision
       ELSE /\ revision' = [revision EXCEPT !.checked = RepositoryRevision(Consumer)]
            /\ IF Edges[Here].runner = "declaration"
               THEN Record(Evidence("PASS", << >>, revision'.checked), "generated")
               ELSE pc' = "run" /\ UNCHANGED <<records, files>>
    /\ UNCHANGED <<surroundings, call, proofs>>

\* A consumer whose tests fit one batch must be the only one whose tests the
\* plan selects; larger ones are given a plan of each batch.  The edges of one
\* consumer select the same tests.
Complete ==
    \/ Edges[Here].batches > 1
    \/ \A i \in DOMAIN Edges : Edges[i].runner = "mncs-test" => Edges[i].consumer = Consumer

\* The admitted provider of a canonical call runs the tests batch by batch and
\* the native application reduces each to a family result.
RunBatches ==
    /\ pc = "run" /\ call.native /\ Complete
    /\ \E results \in [1..Edges[Here].batches -> Verdict] :
            Record(Evidence(Dominant(Verdicts(results)), results, revision.checked),
                   "generated")
    /\ UNCHANGED <<surroundings, call, revision, proofs>>

\* The runner of the oracle runs all tests at once.
RunOracle ==
    /\ pc = "run" /\ ~call.native
    /\ \E verdict \in Verdict :
            Record(Evidence(verdict, << >>, revision.checked), "generated")
    /\ UNCHANGED <<surroundings, call, revision, proofs>>

\* The runner cannot be started, or what it answers is refused.
RunFails ==
    /\ pc = "run"
    /\ Record(Evidence("UNKNOWN", << >>, revision.visited), "generated")
    /\ UNCHANGED <<surroundings, call, revision, proofs>>

\* The call is over; without a composite proof its files are of no use.
Over(how) ==
    /\ pc' = how /\ call' = None /\ revision' = None
    /\ records' = << >> /\ files' = [c \in Consumers |-> None]

Finish ==
    /\ pc = "visit" /\ Here > Len(Edges) /\ MayReduce
    /\ proofs' = Append(proofs, [status |-> Status, plan |-> call.plan,
                                 records |-> records, files |-> files,
                                 call |-> call, steady |-> world = call.world])
    /\ Over("idle")
    /\ UNCHANGED surroundings

End(how) == Over(how) /\ UNCHANGED <<surroundings, proofs>>

\* A canonical call refuses records without a native result.
Refuse ==
    /\ pc = "visit" /\ Here > Len(Edges) /\ ~MayReduce
    /\ End("idle")

Die ==
    /\ pc = "decide" /\ Reusable /\ Undecidable
    /\ End("died")

\* The process is killed, or finds no checkout.
Abandon == Busy /\ End("idle")

Next ==
    \/ \E native \in BOOLEAN, prior \in 0..Len(proofs) : Begin(native, prior)
    \/ Visit \/ Reuse \/ StartCheck \/ RunBatches \/ RunOracle \/ RunFails
    \/ Finish \/ Refuse \/ Die \/ Abandon
    \/ \E c \in Consumers : EditSource(c) \/ EditDeclaration(c) \/ Commit(c)
    \/ MoveProducer \/ ReplaceTools \/ RegenerateGraph \/ Replan

Spec == Init /\ [][Next]_vars

-----------------------------------------------------------------------------
(* What is checked.                                                        *)

Revision == [declaration : Number, source : Number \cup {None}]

IsEvidence(e) ==
    /\ \E edges \in Selections : e.edge.edge \in Verdicts(edges)
    /\ e.verdict \in Verdict
    /\ e.native = << >> \/ /\ DOMAIN e.native = 1..e.edge.edge.batches
                           /\ e.verdict = Dominant(Verdicts(e.native))
    /\ e.revision \in Revision /\ e.producer \in Number
    /\ e.tools \in Number \cup {None}
    /\ e.verdict = "PASS" <=> e.ran # None

\* Every document is of its kind, and what a consumer's directory holds is the
\* evidence that its last record names.
TypeOK ==
    /\ world \in World /\ graph \in Graph /\ plan \in Plan /\ moves \in Number
    /\ pc \in {"idle", "visit", "decide", "run", "died"}
    /\ ~Busy <=> call = None
    /\ Busy => /\ call.plan \in Plan /\ call.prior \in 0..Len(proofs)
                      /\ Len(records) <= Len(Edges)
    /\ \A i \in DOMAIN records : /\ IsEvidence(records[i].evidence)
                                 /\ records[i].status \in {"generated", "reused"}
    /\ \A c \in Consumers :
            LET own == RecordsOf(records, c)
            IN  files[c] = IF own = {} THEN None ELSE records[Max(own)].evidence

\* A composite PASS is a PASS of every edge its plan selects, in their order,
\* each under that plan, at the producer its call bound and, where tests were
\* run, with the tools its call bound, whether the evidence was generated or
\* comes down a chain of prior proofs; on the canonical path each is a single
\* native PASS (selective_family_verify.py, build_selective_proof).
PassIsEarned ==
    \A n \in DOMAIN proofs :
        LET p == proofs[n] IN
        p.status = "PASS" =>
            /\ Len(p.records) = Len(p.plan.edges)
            /\ \A i \in DOMAIN p.records :
                    LET e == p.records[i].evidence IN
                    /\ e.verdict = "PASS"
                    /\ e.edge.edge = p.plan.edges[i]
                    /\ e.edge.declaration = p.plan.graph[e.edge.edge.consumer]
                    /\ e.producer = p.call.producer
                    /\ e.edge.edge.runner = "mncs-test" => e.tools = p.call.tools
                    /\ p.call.native => e.native = <<"PASS">>

\* The content of a checkout that a revision can stand for.
Bound(c, content) == IF c \in Tracked THEN content ELSE content.declaration

\* A PASS, generated or reused, is what a check would establish now: if
\* nothing moved in the call that ran the check nor in the call that records
\* it, and the checkout was clean in both, it ran on exactly the revision, the
\* producer and the tools that the recording call finds, however many proofs
\* are between them.  A source archive has no revision but its declaration
\* (selective_family_verify.py, _reuse_consumer).
ReuseIsCurrent ==
    \A n \in DOMAIN proofs :
        LET now == proofs[n].call.world IN
        \A i \in DOMAIN proofs[n].records :
            LET e == proofs[n].records[i].evidence
                c == e.edge.edge.consumer
            IN  /\ e.verdict = "PASS"
                /\ proofs[n].steady /\ e.ran.steady
                /\ c \in Tracked => now.tree[c] = now.head[c]
                => /\ Bound(c, e.ran.content) = Bound(c, now.tree[c])
                   /\ e.ran.producer = now.producer
                   /\ e.edge.edge.runner = "mncs-test" => e.ran.tools = now.tools

\* "Otherwise the consumer check runs again": a call that is given a prior
\* proof uses it or runs the checks (docs/selective-family-verification.md).
ReusesOrRuns == pc # "died"

\* "Eight is the provider execution bound, not the family selection bound":
\* a consumer whose tests pass in several batches is established
\* (selective_family_verify.py, _native_actions_provider_check).
BatchesAreAggregated ==
    \A n \in DOMAIN proofs :
        (\A i \in DOMAIN proofs[n].records :
            proofs[n].records[i].evidence.verdict = "PASS")
        => proofs[n].status = "PASS"
=============================================================================
