----------------------- MODULE FamilyAcceptanceProofs -----------------------
(***************************************************************************)
(* Proofs about FamilyAcceptance, for any members, revisions, templates    *)
(* and bounds.                                                             *)
(*                                                                         *)
(* A pass may find any file of an earlier one in its workspace.  What is   *)
(* known of a file whoever wrote it (DocOk) is what its writer verified or *)
(* computed, and speaks of that file only; the verifications tie the files *)
(* together by the digests they hold.  In a pass of its own workspace more *)
(* is known (OwnDoc): a file is written once, after those it speaks of.    *)
(***************************************************************************)
EXTENDS FamilyAcceptance, FiniteSetTheorems, TLAPS

\* The place of a step in a pass.
Rank == [s \in Files \cup {"replay"} |-> CHOOSE i \in 1..14 : Steps[i] = s]

\* File f is in the workspace, or the pass is beyond the step that writes it.
There(f) == work[f] # None \/ (pc # "done" /\ Rank[f] < Rank[pc])

Mains == [commit : Nat, graph : Nat, template : Template,
          contracts : [Members -> Revision]]
CheckSets == [Members -> [subject : Revision, verdict : {"PASS", "UNKNOWN"}]]

TypeInv ==
    /\ main \in Mains /\ checkout \in Mains
    /\ head \in [Members -> Revision]
    /\ work = [f \in Files |-> work[f]]
    /\ pc \in Files \cup {"replay", "done"}
    /\ kept \in BOOLEAN

EarnedClaim(c) ==
    c.verdict = "PASS" =>
        EarnedBy(c.graph.members, c.checks, Required[c.boundary.template])

BoundProposal(p) ==
    /\ p.graph.promotion.verdict = "PASS"
    /\ p.graph.promotion.graph = Digest(p.graph)
    /\ EarnedBy(p.graph.members, p.graph.promotion.checks,
                Required[p.graph.promotion.boundary.template])
    /\ p.contracts # p.graph.base.contracts

PackedBundle(b) ==
    /\ b.checks \in CheckSets
    /\ b.after # b.before /\ b.after \in [Members -> Revision]

\* What is reported of a constellation under any template, when the trees
\* that were read are its own.
Reported(report, members) ==
    Blockers(members, members, 1) \subseteq report.blockers \cup {"cycle"}

\* What holds of file f, whichever pass wrote it.
DocOk(f) ==
    /\ f = "candidate" =>
          work[f] \in [base : [Members -> Revision], revision : [Members -> Revision]]
    /\ f \in Graphs => work[f].members \in [Members -> Revision]
    /\ f = "checks" => work[f] \in CheckSets
    /\ f = "boundary" => work[f].template \in Template
    /\ f = "claim" => EarnedClaim(work[f])
    /\ f = "proposal" => BoundProposal(work[f])
    /\ f = "bundle" => PackedBundle(work[f])

DocsInv == \A f \in Files : There(f) => DocOk(f)

ReplayedInv ==
    replayed => /\ pc = "done"
                /\ Replays(work["bundle"]) /\ PackedBundle(work["bundle"])
                /\ ~ kept => Reported(work["bundle"].coherence,
                                      work["bundle"].graph.members)

\* The identity of every graph of a pass of its own workspace.
OwnGraph == [base |-> Base(checkout), members |-> work["candidate"].revision,
             actions |-> checkout.commit]

\* What holds of file f in a pass of its own workspace.
OwnDoc(f) ==
    /\ f \in Graphs => Digest(work[f]) = OwnGraph
    /\ f \in {"boundary", "coherence", "claim"} => work[f].graph = OwnGraph
    /\ f = "coherence" => Reported(work[f], OwnGraph.members)
    /\ f = "claim" =>
          /\ Admits(work["boundary"], work["checks"], work["obligations"], OwnGraph)
          /\ work["claim"] = Claim(work["boundary"], work["checks"],
                                   work["obligations"], OwnGraph,
                                   OwnGraph.members[Standard])
    /\ f = "related" =>
          /\ work["related"].evidence = work["checks"]
          /\ work["coherence"].blockers \subseteq work["related"].blockers
    /\ f = "proposal" =>
          /\ MayAdvance
          /\ work["proposal"] = [graph |-> work["related"], tier |-> WorkTier,
                                 contracts |-> work["related"].members]
    /\ f = "bundle" => /\ Replays(work["bundle"])
                       /\ Reported(work["bundle"].coherence,
                                   work["bundle"].graph.members)

\* What the pass has not come to is not there.
Ahead == \A f \in Files : pc # "done" /\ Rank[f] >= Rank[pc] => work[f] = None

OwnInv ==
    ~ kept => Ahead /\ \A f \in Files : There(f) => OwnDoc(f)

IInv == TypeInv /\ DocsInv /\ ReplayedInv /\ OwnInv

-----------------------------------------------------------------------------
(* The order of the steps.                                                 *)

\* Every step has one place.
LEMMA StepsInOrder ==
    /\ \A i, j \in 1..14 : Steps[i] = Steps[j] => i = j
    /\ \A i \in 1..13 : Steps[i] # "replay"
    /\ Steps[14] = "replay" /\ \A i \in 1..14 : Steps[i] # "done"
BY DEF Steps

LEMMA RankIsPlace ==
    /\ \A s \in Files \cup {"replay"} : Rank[s] \in 1..14 /\ Steps[Rank[s]] = s
    /\ \A i \in 1..14 : Rank[Steps[i]] = i
<1>1. ASSUME NEW s \in Files \cup {"replay"}
      PROVE  Rank[s] \in 1..14 /\ Steps[Rank[s]] = s
  <2>1. \E i \in 1..14 : Steps[i] = s
    BY StepsInOrder DEF Files
  <2>2. Rank[s] = CHOOSE i \in 1..14 : Steps[i] = s
    BY DEF Rank
  <2>3. QED
    BY <2>1, <2>2
<1>2. ASSUME NEW i \in 1..14
      PROVE  Rank[Steps[i]] = i
  <2>1. Steps[i] \in Files \cup {"replay"}
    BY StepsInOrder DEF Files
  <2>2. QED
    BY <1>1, <2>1, StepsInOrder
<1>3. QED
  BY <1>1, <1>2

\* A step is followed by the next one in the order.
LEMMA FollowingRank ==
    ASSUME NEW f \in Files
    PROVE  /\ Following[f] \in Files \cup {"replay"} /\ Following[f] # "done"
           /\ Rank[f] \in 1..13 /\ Rank[Following[f]] = Rank[f] + 1
<1>1. /\ f # "replay" /\ Rank[f] \in 1..13 /\ Steps[Rank[f]] = f
  BY RankIsPlace, StepsInOrder DEF Files
<1>2. (CHOOSE i \in 1..13 : Steps[i] = f) = Rank[f]
  BY <1>1, StepsInOrder
<1>3. Following[f] = Steps[1 + Rank[f]]
  BY <1>1, <1>2 DEF Following
<1>4. 1 + Rank[f] \in 1..14
  BY <1>1
<1>5. Following[f] \in Files \cup {"replay"} /\ Following[f] # "done"
  BY <1>3, <1>4, StepsInOrder DEF Files
<1>6. QED
  BY <1>1, <1>3, <1>4, <1>5, RankIsPlace

\* The places of the files.
LEMMA Ranks ==
    /\ Rank["candidate"] = 1 /\ "candidate" \in Files
    /\ Rank["obligations"] = 2 /\ "obligations" \in Files
    /\ Rank["skeleton"] = 3 /\ "skeleton" \in Files
    /\ Rank["checks"] = 4 /\ "checks" \in Files
    /\ Rank["boundary"] = 5 /\ "boundary" \in Files
    /\ Rank["coherence"] = 6 /\ "coherence" \in Files
    /\ Rank["validated"] = 7 /\ "validated" \in Files
    /\ Rank["claim"] = 8 /\ "claim" \in Files
    /\ Rank["promoted"] = 9 /\ "promoted" \in Files
    /\ Rank["commons"] = 10 /\ "commons" \in Files
    /\ Rank["related"] = 11 /\ "related" \in Files
    /\ Rank["proposal"] = 12 /\ "proposal" \in Files
    /\ Rank["bundle"] = 13 /\ "bundle" \in Files
    /\ Rank["replay"] = 14
    /\ \A f \in Files : Rank[f] \in 1..13
    /\ \A f, g \in Files : Rank[f] = Rank[g] => f = g
<1>1. /\ Steps[1] = "candidate"
      /\ Steps[2] = "obligations"
      /\ Steps[3] = "skeleton"
      /\ Steps[4] = "checks"
      /\ Steps[5] = "boundary"
      /\ Steps[6] = "coherence"
      /\ Steps[7] = "validated"
      /\ Steps[8] = "claim"
      /\ Steps[9] = "promoted"
      /\ Steps[10] = "commons"
      /\ Steps[11] = "related"
      /\ Steps[12] = "proposal"
      /\ Steps[13] = "bundle"
      /\ Steps[14] = "replay"
  BY DEF Steps
<1>2. \A i \in 1..13 : Steps[i] \in Files
  BY DEF Files
<1>3. /\ \A f \in Files : Rank[f] \in 1..13
      /\ \A f, g \in Files : Rank[f] = Rank[g] => f = g
  BY FollowingRank, RankIsPlace
<1>4. QED
  BY <1>1, <1>2, <1>3, RankIsPlace

-----------------------------------------------------------------------------
(* A step that writes a file.                                              *)

LEMMA TypesOfWork ==
    ASSUME TypeInv, NEW f \in Files, NEW d,
           work' = [work EXCEPT ![f] = d]
    PROVE  /\ work' = [g \in Files |-> work'[g]]
           /\ work'[f] = d /\ \A g \in Files \ {f} : work'[g] = work[g]
BY DEF TypeInv

\* A file says what it said while the files it speaks of stay.
LEMMA OwnDocStays ==
    ASSUME TypeInv, NEW f \in Files, NEW g \in Files, NEW d,
           work' = [work EXCEPT ![f] = d], checkout' = checkout,
           Rank[g] < Rank[f], OwnDoc(g)
    PROVE  OwnDoc(g)'
<1>1. \A h \in Files : Rank[h] < Rank[f] => work'[h] = work[h]
  BY TypesOfWork, Ranks
<1>2. Rank[g] >= 1 /\ Rank[f] <= 13 /\ Rank[g] \in Int /\ Rank[f] \in Int
  BY Ranks
<1>3. OwnGraph' = OwnGraph /\ work'[g] = work[g]
  BY <1>1, <1>2, Ranks DEF OwnGraph, Base
<1>4. g \in Graphs => Digest(work[g])' = OwnGraph'
  BY <1>3 DEF OwnDoc, Digest
<1>5. g \in {"boundary", "coherence", "claim"} => work'[g].graph = OwnGraph'
  BY <1>3 DEF OwnDoc
<1>6. CASE g = "claim"
  <2>1. /\ work'["boundary"] = work["boundary"] /\ work'["checks"] = work["checks"]
        /\ work'["obligations"] = work["obligations"] /\ work'["claim"] = work["claim"]
    BY <1>1, <1>2, <1>6, Ranks
  <2>2. QED
    BY <1>3, <1>5, <1>6, <2>1 DEF OwnDoc, Graphs
<1>6a. CASE g = "coherence"
  BY <1>3, <1>5, <1>6a DEF OwnDoc, Graphs, Reported
<1>7. CASE g = "related"
  <2>1. /\ work'["checks"] = work["checks"] /\ work'["coherence"] = work["coherence"]
        /\ work'["related"] = work["related"]
    BY <1>1, <1>2, <1>7, Ranks
  <2>2. OwnDoc("related")
    BY <1>7
  <2>3. Digest(work["related"])' = OwnGraph'
    BY <1>4, <1>7 DEF Graphs
  <2>4. QED
    BY <1>7, <2>1, <2>2, <2>3 DEF OwnDoc
<1>8. CASE g = "proposal"
  <2>1. /\ work'["checks"] = work["checks"] /\ work'["coherence"] = work["coherence"]
        /\ work'["related"] = work["related"] /\ work'["claim"] = work["claim"]
        /\ work'["boundary"] = work["boundary"] /\ work'["commons"] = work["commons"]
        /\ work'["obligations"] = work["obligations"]
        /\ work'["proposal"] = work["proposal"]
    BY <1>1, <1>2, <1>8, Ranks
  <2>2. WorkTier' = WorkTier
    BY <2>1 DEF WorkTier, Tier
  <2>3. \A x : Verified(x) => Verified(x)'
    BY <2>1 DEF Verified, ClaimIsBound, ClaimIsValid, RecordIsBound, Digest
  <2>4. MayAdvance => MayAdvance'
    BY <2>1, <2>2, <2>3 DEF MayAdvance, Digest
  <2>5. QED
    BY <1>8, <2>1, <2>2, <2>4 DEF OwnDoc, Graphs
<1>9. CASE g = "bundle"
  BY <1>2, <1>9, Ranks
<1>10. CASE g \notin {"coherence", "claim", "related", "proposal", "bundle"}
  BY <1>4, <1>5, <1>10 DEF OwnDoc
<1>11. QED
  BY <1>6, <1>6a, <1>7, <1>8, <1>9, <1>10

LEMMA WriteKeeps ==
    ASSUME IInv, NEW f \in Files, NEW d, Write(f, TRUE, d),
           DocOk(f)', ~ kept => OwnDoc(f)'
    PROVE  IInv'
<1>1. /\ pc = f /\ work' = [work EXCEPT ![f] = d] /\ pc' = Following[f]
      /\ main' = main /\ head' = head /\ checkout' = checkout
      /\ kept' = kept /\ replayed' = replayed
  BY DEF Write
<1>2. /\ work' = [g \in Files |-> work'[g]]
      /\ work'[f] = d /\ \A g \in Files \ {f} : work'[g] = work[g]
  BY <1>1, TypesOfWork DEF IInv
<1>3. /\ pc # "done" /\ pc' # "done" /\ Rank[pc'] = Rank[f] + 1
      /\ pc' \in Files \cup {"replay"} /\ Rank[f] \in 1..13
  BY <1>1, FollowingRank, StepsInOrder DEF Files
<1>4. TypeInv'
  BY <1>1, <1>2, <1>3 DEF IInv, TypeInv
<1>5. \A g \in Files \ {f} : There(g)' => There(g)
  BY <1>1, <1>2, <1>3, Ranks DEF There
<1>6. DocsInv'
  <2> SUFFICES ASSUME NEW g \in Files, There(g)' PROVE DocOk(g)'
    BY DEF DocsInv
  <2>1. CASE g # f
    <3>1. DocOk(g)
      BY <1>5, <2>1 DEF IInv, DocsInv
    <3>2. work'[g] = work[g]
      BY <1>2, <2>1
    <3>3. QED
      BY <3>1, <3>2
         DEF DocOk, EarnedClaim, EarnedBy, BoundProposal, PackedBundle
  <2>2. QED
    BY <2>1
<1>7. ReplayedInv'
  BY <1>1, <1>3 DEF IInv, ReplayedInv
<1>8. OwnInv'
  <2> SUFFICES ASSUME ~ kept
               PROVE  Ahead' /\ \A g \in Files : There(g)' => OwnDoc(g)'
    BY <1>1 DEF OwnInv
  <2>1. Ahead /\ \A g \in Files : There(g) => OwnDoc(g)
    BY DEF IInv, OwnInv
  <2>2. \A g \in Files : Rank[g] > Rank[f] => work'[g] = None
    BY <1>1, <1>2, <1>3, <2>1, Ranks DEF Ahead
  <2>3. Ahead'
    BY <1>3, <2>2, Ranks DEF Ahead
  <2>4. ASSUME NEW g \in Files, There(g)'
        PROVE  OwnDoc(g)'
    <3>1. CASE Rank[g] > Rank[f]
      BY <1>3, <2>2, <2>4, <3>1, Ranks DEF There
    <3>2. CASE Rank[g] < Rank[f]
      BY <1>1, <1>5, <2>1, <2>4, <3>2, OwnDocStays DEF IInv
    <3>3. CASE Rank[g] = Rank[f]
      BY <3>3, Ranks
    <3>4. QED
      BY <3>1, <3>2, <3>3, <1>3, Ranks
  <2>5. QED
    BY <2>3, <2>4
<1>9. QED
  BY <1>4, <1>6, <1>7, <1>8 DEF IInv

\* What is known before a step writes file f: what was written before it.
LEMMA WrittenBefore ==
    ASSUME IInv, NEW f \in Files, pc = f, NEW g \in Files, Rank[g] < Rank[f]
    PROVE  There(g) /\ DocOk(g) /\ (~ kept => OwnDoc(g))
<1>1. There(g)
  BY StepsInOrder DEF There, Files
<1>2. QED
  BY <1>1 DEF IInv, DocsInv, OwnInv

-----------------------------------------------------------------------------
(* The steps of a pass.                                                    *)

LEMMA ProposeKeeps ==
    ASSUME IInv, Propose
    PROVE  IInv'
<1> DEFINE d == Observed(checkout.contracts, head)
<1>1. Write("candidate", TRUE, d)
  BY DEF Propose, Write
<1>2. d \in [base : [Members -> Revision], revision : [Members -> Revision]]
  BY DEF Observed, IInv, TypeInv, Mains
<1> HIDE DEF d
<1>3. work'["candidate"] = d
  BY <1>1, TypesOfWork, Ranks, ZenonT(30) DEF Write, IInv
<1>4. DocOk("candidate")' /\ OwnDoc("candidate")'
  BY <1>2, <1>3 DEF DocOk, OwnDoc, Graphs
<1>5. QED
  BY <1>1, <1>4, WriteKeeps, Ranks

\* The nominated candidate replaces the observed one, before any graph of it.
LEMMA NominateKeeps ==
    ASSUME IInv, Nominate
    PROVE  IInv'
<1> DEFINE seen == work["candidate"].revision
           candidate == [work["candidate"] EXCEPT !.revision =
                            [m \in Members |-> Nominated(m, seen[m])]]
           Revised == [base : [Members -> Revision], revision : [Members -> Revision]]
<1>1. /\ pc = "obligations" /\ pc' = Following[pc]
      /\ main' = main /\ head' = head /\ checkout' = checkout
      /\ kept' = kept /\ replayed' = replayed
  BY DEF Nominate
<1>2. work["candidate"] \in Revised
  BY <1>1, WrittenBefore, Ranks DEF DocOk
<1>3. candidate \in Revised
  <2>1. \A m \in Members : Nominated(m, seen[m]) \in Revision
    BY <1>2, ConstantsAssumption DEF Nominated
  <2>2. QED
    BY <1>2, <2>1
<1>4. /\ work' = [g \in Files |-> work'[g]] /\ work'["candidate"] = candidate
      /\ \A g \in Files \ {"candidate", "obligations"} : work'[g] = work[g]
  BY Ranks DEF Nominate, IInv, TypeInv
<1>5. /\ pc # "done" /\ pc' # "done" /\ Rank[pc] = 2 /\ Rank[pc'] = 3
      /\ pc' \in Files \cup {"replay"}
  BY <1>1, FollowingRank, Ranks
<1> HIDE DEF candidate
<1>6. TypeInv'
  BY <1>1, <1>4, <1>5 DEF IInv, TypeInv
<1>7. \A g \in Files \ {"candidate", "obligations"} : There(g)' => There(g)
  BY <1>1, <1>4, <1>5, Ranks DEF There
<1>8. DocsInv'
  <2> SUFFICES ASSUME NEW g \in Files, There(g)' PROVE DocOk(g)'
    BY DEF DocsInv
  <2>1. CASE g \notin {"candidate", "obligations"}
    <3>1. DocOk(g) /\ work'[g] = work[g]
      BY <1>4, <1>7, <2>1 DEF IInv, DocsInv
    <3>2. QED
      BY <3>1
         DEF DocOk, EarnedClaim, EarnedBy, BoundProposal, PackedBundle
  <2>2. CASE g = "candidate"
    BY <1>3, <1>4, <2>2 DEF DocOk, Graphs
  <2>3. CASE g = "obligations"
    BY <2>3 DEF DocOk, Graphs
  <2>4. QED
    BY <2>1, <2>2, <2>3
<1>9. ReplayedInv'
  BY <1>1, <1>5 DEF IInv, ReplayedInv
<1>10. OwnInv'
  <2> SUFFICES ASSUME ~ kept
               PROVE  Ahead' /\ \A g \in Files : There(g)' => OwnDoc(g)'
    BY <1>1 DEF OwnInv
  <2>1. \A g \in Files \ {"candidate", "obligations"} :
           Rank[g] >= 3 /\ work'[g] = None
    BY <1>1, <1>4, <1>5, Ranks DEF IInv, OwnInv, Ahead
  <2>2. Ahead'
    BY <1>5, <2>1, Ranks DEF Ahead
  <2>3. ASSUME NEW g \in Files, There(g)'
        PROVE  OwnDoc(g)'
    <3>1. g \in {"candidate", "obligations"}
      BY <1>5, <2>1, <2>3, Ranks DEF There
    <3>2. QED
      BY <3>1 DEF OwnDoc, Graphs
  <2>4. QED
    BY <2>2, <2>3
<1>11. QED
  BY <1>6, <1>8, <1>9, <1>10 DEF IInv

\* A build is of the candidate, whatever it adds.
LEMMA BuildKeeps ==
    ASSUME IInv, NEW stage \in Graphs, Build(stage)
    PROVE  IInv'
<1> DEFINE d == Graph(stage)
<1>1. Write(stage, TRUE, d) /\ stage \in Files /\ pc = stage
  BY Ranks DEF Build, Write, Graphs
<1>2. work'[stage] = d /\ \A g \in Files \ {stage} : work'[g] = work[g]
  BY <1>1, TypesOfWork DEF Write, IInv
<1>3. work["candidate"].revision \in [Members -> Revision]
  BY <1>1, WrittenBefore, Ranks DEF DocOk, Graphs
<1>4. /\ Digest(d) = OwnGraph /\ d.members = work["candidate"].revision
      /\ stage = "related" => /\ d.evidence = work["checks"]
                              /\ work["coherence"].blockers \subseteq d.blockers
  BY DEF Graph, Digest, OwnGraph
<1>5. OwnGraph' = OwnGraph
  BY <1>1, <1>2, Ranks DEF OwnGraph, Graphs, Write
<1> HIDE DEF d
<1>6. DocOk(stage)'
  BY <1>2, <1>3, <1>4 DEF DocOk, Graphs
<1>7. OwnDoc(stage)'
  <2>1. Digest(work[stage])' = OwnGraph'
    BY <1>2, <1>4, <1>5 DEF Digest
  <2>2. stage = "related" => /\ work'["related"].evidence = work'["checks"]
                             /\ work'["coherence"].blockers \subseteq work'["related"].blockers
    BY <1>2, <1>4, Ranks
  <2>3. QED
    BY <2>1, <2>2 DEF OwnDoc, Graphs
<1>8. QED
  BY <1>1, <1>6, <1>7, WriteKeeps

LEMMA ProduceKeeps ==
    ASSUME IInv, Produce
    PROVE  IInv'
<1>1. PICK verdict \in Outcomes :
         Write("checks", TRUE, [m \in Members |->
            [subject |-> work["candidate"].revision[m], verdict |-> verdict[m]]])
  BY DEF Produce
<1> DEFINE d == [m \in Members |-> [subject |-> work["candidate"].revision[m],
                                    verdict |-> verdict[m]]]
<1>2. work["candidate"].revision \in [Members -> Revision]
  BY <1>1, WrittenBefore, Ranks DEF DocOk, Graphs, Write
<1>3. verdict \in [Members -> {"PASS", "UNKNOWN"}]
  BY ConstantsAssumption
<1>4. d \in CheckSets
  BY <1>2, <1>3 DEF CheckSets
<1>5. Write("checks", TRUE, d)
  BY <1>1
<1> HIDE DEF d
<1>6. work'["checks"] = d
  BY <1>5, TypesOfWork, Ranks DEF Write, IInv
<1>7. DocOk("checks")' /\ OwnDoc("checks")'
  BY <1>4, <1>6 DEF DocOk, OwnDoc, Graphs
<1>8. QED
  BY <1>5, <1>7, WriteKeeps, Ranks

LEMMA MaterializeKeeps ==
    ASSUME IInv, Materialize
    PROVE  IInv'
<1> DEFINE d == [template |-> checkout.template, graph |-> Digest(work["skeleton"])]
<1>1. Write("boundary", TRUE, d) /\ pc = "boundary"
  BY DEF Materialize, Write
<1>2. d.graph = Digest(work["skeleton"]) /\ d.template \in Template
  BY DEF IInv, TypeInv, Mains
<1> HIDE DEF d
<1>3. work'["boundary"] = d /\ work'["candidate"] = work["candidate"]
  BY <1>1, TypesOfWork, Ranks, ZenonT(30) DEF Write, IInv
<1>4. OwnGraph' = OwnGraph
  BY <1>1, <1>3 DEF OwnGraph, Write
<1>5. ~ kept => Digest(work["skeleton"]) = OwnGraph
  BY <1>1, WrittenBefore, Ranks DEF OwnDoc, Graphs
<1>6. DocOk("boundary")' /\ (~ kept => OwnDoc("boundary")')
  BY <1>2, <1>3, <1>4, <1>5 DEF DocOk, OwnDoc, Graphs
<1>7. QED
  BY <1>1, <1>6, WriteKeeps, Ranks

\* What speaks against a constellation does not depend on the template, but
\* for a cycle.
LEMMA BlockersOfAny ==
    ASSUME NEW members, NEW s, NEW t, NEW k \in Blockers(members, members, s),
           k # "cycle"
    PROVE  k \in Blockers(members, members, t)
BY DEF Blockers

LEMMA AnalyzeKeeps ==
    ASSUME IInv, Analyze
    PROVE  IInv'
<1> DEFINE trees == work["candidate"].revision
           members == work["skeleton"].members
           template == work["boundary"].template
           d == [graph |-> Digest(work["skeleton"]),
                 blockers |-> Blockers(trees, members, template)]
<1>1. Write("coherence", TRUE, d) /\ pc = "coherence"
  BY DEF Analyze, Write
<1>2. /\ d.graph = Digest(work["skeleton"]) /\ d.graph.members = members
      /\ d.blockers = Blockers(trees, members, template)
  BY DEF Digest
<1> HIDE DEF d
<1>3. work'["coherence"] = d /\ work'["candidate"] = work["candidate"]
  BY <1>1, TypesOfWork, Ranks, ZenonT(30) DEF Write, IInv
<1>4. OwnGraph' = OwnGraph
  BY <1>1, <1>3 DEF OwnGraph, Write
<1>5. DocOk("coherence")'
  BY DEF DocOk, Graphs
<1>6. ASSUME ~ kept PROVE OwnDoc("coherence")'
  <2>1. Digest(work["skeleton"]) = OwnGraph
    BY <1>1, <1>6, WrittenBefore, Ranks DEF OwnDoc, Graphs
  <2>2. members = trees /\ OwnGraph.members = trees
    BY <2>1 DEF Digest, OwnGraph
  <2>3. Reported(d, OwnGraph.members)
    BY <1>2, <2>2, BlockersOfAny DEF Reported
  <2>4. Reported(work'["coherence"], OwnGraph'.members)
    BY <1>3, <1>4, <2>3
  <2>5. work'["coherence"].graph = OwnGraph'
    BY <1>2, <1>3, <1>4, <2>1
  <2>6. QED
    BY <2>4, <2>5 DEF OwnDoc, Graphs, Reported
<1>7. QED
  BY <1>1, <1>5, <1>6, WriteKeeps, Ranks

\* The evaluator passes what is required at the revisions of its graph.
LEMMA ClaimsAreEarned ==
    ASSUME NEW boundary, NEW checks \in CheckSets, NEW obligations, NEW g,
           NEW producer, boundary.template \in Template,
           Admits(boundary, checks, obligations, g),
           Claim(boundary, checks, obligations, g, producer).verdict = "PASS"
    PROVE  /\ EarnedBy(g.members, checks, Required[boundary.template])
           /\ Passing(checks, Required[boundary.template]) = Required[boundary.template]
           /\ \A o \in obligations :
                    Deciding(o) => o.member \in Tolerated[boundary.template]
<1> DEFINE required == Required[boundary.template]
           open == {o \in obligations :
                       Deciding(o) /\ o.member \notin Tolerated[boundary.template]}
<1>1. Passing(checks, required) = required /\ open = {}
  BY DEF Claim
<1>2. required \subseteq Members
  <2>1. Required \in Seq(SUBSET Members)
    BY ConstantsAssumption
  <2>2. boundary.template \in 1..Len(Required)
    BY DEF Template
  <2>3. Required[boundary.template] \in SUBSET Members
    BY <2>1, <2>2
  <2>4. QED
    BY <2>3
<1>3. ASSUME NEW m \in required
      PROVE  checks[m] = [subject |-> g.members[m], verdict |-> "PASS"]
  <2>1. m \in Members /\ checks[m] \in [subject : Revision, verdict : {"PASS", "UNKNOWN"}]
    BY <1>2 DEF CheckSets
  <2>2. checks[m].verdict = "PASS"
    BY <1>1 DEF Passing
  <2>3. checks[m].subject = g.members[m]
    BY <2>1 DEF Admits
  <2>4. QED
    BY <2>1, <2>2, <2>3
<1>4. QED
  BY <1>1, <1>3 DEF EarnedBy

\* What a claim says of what it was evaluated over.
LEMMA ClaimFields ==
    ASSUME NEW boundary, NEW checks, NEW obligations, NEW g, NEW producer
    PROVE  LET c == Claim(boundary, checks, obligations, g, producer) IN
           /\ c.graph = Digest(g) /\ c.boundary = boundary /\ c.checks = checks
           /\ c.total = Cardinality(Required[boundary.template])
           /\ c.passed = Cardinality(Passing(checks, Required[boundary.template]))
           /\ c.verdict \in {"PASS", "UNKNOWN"} /\ c.producer = producer
BY DEF Claim

LEMMA EvaluateKeeps ==
    ASSUME IInv, Evaluate
    PROVE  IInv'
<1> DEFINE boundary == work["boundary"]
           checks == work["checks"]
           obligations == work["obligations"]
           g == work["validated"]
           producer == work["candidate"].revision[Standard]
           d == Claim(boundary, checks, obligations, g, producer)
<1>1. Write("claim", TRUE, d) /\ pc = "claim"
  BY DEF Evaluate, Write
<1>2. Admits(boundary, checks, obligations, g)
  BY DEF Evaluate, Write, MayEvaluate
<1>3. checks \in CheckSets /\ boundary.template \in Template
  BY <1>1, WrittenBefore, Ranks DEF DocOk, Graphs
<1>4. /\ d.graph = Digest(g) /\ d.boundary = boundary /\ d.checks = checks
      /\ d.graph.members = g.members
  BY ClaimFields DEF Digest
<1>5. EarnedClaim(d)
  BY <1>2, <1>3, <1>4, ClaimsAreEarned DEF EarnedClaim
<1>6. /\ work'["claim"] = d /\ work'["candidate"] = work["candidate"]
      /\ work'["boundary"] = boundary /\ work'["checks"] = checks
      /\ work'["obligations"] = obligations
  <2> HIDE DEF d
  <2>1. work'["claim"] = d /\ \A h \in Files \ {"claim"} : work'[h] = work[h]
    BY <1>1, TypesOfWork, Ranks, ZenonT(30) DEF Write, IInv
  <2>2. QED
    BY <2>1, Ranks
<1>7. OwnGraph' = OwnGraph /\ OwnGraph.members[Standard] = producer
  BY <1>1, <1>6 DEF OwnGraph, Write
<1>8. DocOk("claim")'
  BY <1>5, <1>6 DEF DocOk, Graphs, EarnedClaim, EarnedBy
<1>9. ASSUME ~ kept PROVE OwnDoc("claim")'
  <2>1. Digest(g) = OwnGraph
    BY <1>1, <1>9, WrittenBefore, Ranks DEF OwnDoc, Graphs
  <2>2. Digest(OwnGraph) = Digest(g) /\ OwnGraph.members = g.members
    BY <2>1 DEF Digest, OwnGraph
  <2>3. Admits(boundary, checks, obligations, OwnGraph)
    BY <1>2, <2>2 DEF Admits
  <2>4. d = Claim(boundary, checks, obligations, OwnGraph, producer)
    BY <2>2 DEF Claim
  <2> HIDE DEF d, boundary, checks, obligations, producer
  <2>5. QED
    BY <1>4, <1>6, <1>7, <2>1, <2>3, <2>4 DEF OwnDoc, Graphs
<1>10. QED
  BY <1>1, <1>8, <1>9, WriteKeeps, Ranks

LEMMA RelateKeeps ==
    ASSUME IInv, Relate
    PROVE  IInv'
<1> DEFINE d == [members |-> work["promoted"].members,
                 actions |-> work["promoted"].actions,
                 promotes |-> work["claim"],
                 predecessor |-> work["promoted"].base.graph]
<1>1. Write("commons", TRUE, d)
  BY DEF Relate, Write
<1>2. DocOk("commons")' /\ OwnDoc("commons")'
  BY DEF DocOk, OwnDoc, Graphs
<1>3. QED
  BY <1>1, <1>2, WriteKeeps, Ranks

\* What is verified of a graph binds the claim that the proposal holds.
LEMMA AdvanceKeeps ==
    ASSUME IInv, Advance
    PROVE  IInv'
<1> DEFINE g == work["related"]
           d == [graph |-> g, tier |-> WorkTier, contracts |-> g.members]
<1>1. Write("proposal", TRUE, d) /\ pc = "proposal" /\ MayAdvance
  BY DEF Advance, Write
<1>2. EarnedClaim(work["claim"])
  BY <1>1, WrittenBefore, Ranks DEF DocOk, Graphs
<1>3. /\ g.promotion = work["claim"] /\ g.promotion.verdict = "PASS"
      /\ g.promotion.graph = Digest(g) /\ g.base.contracts = checkout.contracts
      /\ g.members # checkout.contracts
  BY <1>1 DEF MayAdvance, Verified, ClaimIsValid
<1>4. g.promotion.graph.members = g.members
  BY <1>3 DEF Digest
<1>5. d.graph = g /\ d.contracts = g.members
  OBVIOUS
<1> HIDE DEF d
<1>6. BoundProposal(d)
  BY <1>2, <1>3, <1>4, <1>5 DEF BoundProposal, EarnedClaim
<1>7. /\ work'["proposal"] = d
      /\ \A h \in Files \ {"proposal"} : work'[h] = work[h]
  BY <1>1, TypesOfWork, Ranks, ZenonT(30) DEF Write, IInv
<1>8. DocOk("proposal")'
  BY <1>6, <1>7 DEF DocOk, Graphs, BoundProposal, EarnedBy
<1>9. OwnDoc("proposal")'
  <2>1. /\ work'["checks"] = work["checks"] /\ work'["coherence"] = work["coherence"]
        /\ work'["related"] = work["related"] /\ work'["claim"] = work["claim"]
        /\ work'["boundary"] = work["boundary"] /\ work'["commons"] = work["commons"]
        /\ work'["obligations"] = work["obligations"] /\ checkout' = checkout
    BY <1>1, <1>7, Ranks DEF Write
  <2>2. WorkTier' = WorkTier
    BY <2>1 DEF WorkTier, Tier
  <2>3. \A x : Verified(x) => Verified(x)'
    BY <2>1 DEF Verified, ClaimIsBound, ClaimIsValid, RecordIsBound, Digest
  <2>4. MayAdvance'
    BY <1>1, <2>1, <2>2, <2>3 DEF MayAdvance, Digest
  <2>5. QED
    BY <1>7, <2>1, <2>2, <2>4 DEF OwnDoc, Graphs, d
<1>10. QED
  BY <1>1, <1>8, <1>9, WriteKeeps, Ranks

-----------------------------------------------------------------------------
(* The bundle and its replay.                                              *)

\* In a pass of its own workspace nothing that advance proposes is refused.
LEMMA ProposedIsPacked ==
    ASSUME IInv, ~ kept, pc = "bundle"
    PROVE  MayPack
<1> DEFINE g == work["related"]
<1>1. OwnDoc("proposal") /\ OwnDoc("related") /\ OwnDoc("claim")
  BY WrittenBefore, Ranks
<1>2. /\ MayAdvance
      /\ work["proposal"] = [graph |-> g, tier |-> WorkTier, contracts |-> g.members]
      /\ work["coherence"].blockers \subseteq g.blockers /\ Digest(g) = OwnGraph
      /\ work["claim"] = Claim(work["boundary"], work["checks"],
                               work["obligations"], OwnGraph,
                               OwnGraph.members[Standard])
  BY <1>1 DEF OwnDoc, Graphs
<1>3. work["bundle"] = None
  BY Ranks DEF IInv, OwnInv, Ahead
<1>4. g.members = OwnGraph.members
  BY <1>2 DEF Digest
<1>5. work["claim"].producer = g.members[Standard]
  BY <1>2, <1>4, ClaimFields
<1>6. /\ Verified(g) /\ g.promotion.verdict = "PASS" /\ g.blockers = {}
      /\ WorkTier # "refused" /\ g.promotion = work["claim"]
  BY <1>2 DEF MayAdvance, Verified
<1>7. /\ work["proposal"].graph = g /\ work["proposal"].tier = WorkTier
      /\ work["proposal"].contracts = g.members
  BY <1>2
<1>8. QED
  BY <1>2, <1>3, <1>5, <1>6, <1>7 DEF MayPack

\* What the bundle holds.
LEMMA BundleFields ==
    /\ Bundle.graph = work["related"] /\ Bundle.accepted = work["proposal"]
    /\ Bundle.boundary = work["boundary"] /\ Bundle.template = checkout.template
    /\ Bundle.coherence = work["coherence"] /\ Bundle.claim = work["claim"]
    /\ Bundle.commons = work["commons"] /\ Bundle.before = checkout.contracts
    /\ Bundle.after = work["proposal"].contracts /\ Bundle.checks = work["checks"]
    /\ Bundle.obligations = work["obligations"] /\ Bundle.tier = WorkTier
    /\ Bundle.predecessor.graph = work["related"].base.graph
BY DEF Bundle

\* In a pass of its own workspace the replay refuses nothing that is packed.
LEMMA PackedReplays ==
    ASSUME IInv, ~ kept, pc = "bundle"
    PROVE  /\ Replays(Bundle)
           /\ Reported(Bundle.coherence, Bundle.graph.members)
<1> DEFINE g == work["related"]
           b == Bundle
<1> USE BundleFields
<1>1. /\ OwnDoc("proposal") /\ OwnDoc("related") /\ OwnDoc("claim")
      /\ OwnDoc("coherence")
  BY WrittenBefore, Ranks
<1>2. MayPack
  BY ProposedIsPacked
<1>3. /\ work["proposal"].graph = g /\ work["proposal"].tier = WorkTier
      /\ g.evidence = work["checks"] /\ Digest(g) = OwnGraph
      /\ Admits(work["boundary"], work["checks"], work["obligations"], OwnGraph)
      /\ work["claim"] = Claim(work["boundary"], work["checks"],
                               work["obligations"], OwnGraph,
                               OwnGraph.members[Standard])
  BY <1>1 DEF OwnDoc, Graphs
<1>4. Verified(g)
  BY <1>2 DEF MayPack
<1>5. ReplayIdentity(b) /\ ReplayEvidence(b)
  BY <1>3 DEF ReplayIdentity, ReplayEvidence
<1>6. ReplayBoundary(b)
  BY <1>4 DEF ReplayBoundary, Verified, ClaimIsBound
<1>7. ReplayCoherence(b)
  BY <1>2, <1>4 DEF ReplayCoherence, Verified, MayPack
<1>8. ReplayClaim(b)
  BY <1>2, <1>4 DEF ReplayClaim, Verified, ClaimIsBound, MayPack
<1>9. RecordIsBound(b.commons, b.claim, b.graph)
  BY <1>4 DEF Verified
<1>10. ReplayTransition(b)
  BY <1>2, <1>4 DEF ReplayTransition, Verified, WorkTier, MayPack
<1>11. ReplayRerun(b)
  <2>1. Digest(OwnGraph) = Digest(g) /\ OwnGraph.members = g.members
    BY <1>3 DEF Digest, OwnGraph
  <2>2. work["claim"].producer = OwnGraph.members[Standard]
    BY <1>3, ClaimFields
  <2>3. Admits(work["boundary"], work["checks"], work["obligations"], g)
    BY <1>3, <2>1 DEF Admits
  <2>4. Claim(work["boundary"], work["checks"], work["obligations"], g,
              work["claim"].producer) = work["claim"]
    BY <1>3, <2>1, <2>2 DEF Claim
  <2>5. QED
    BY <2>3, <2>4 DEF ReplayRerun
<1>12. Reported(b.coherence, b.graph.members)
  <2>1. Reported(work["coherence"], OwnGraph.members)
    BY <1>1 DEF OwnDoc
  <2>2. OwnGraph.members = g.members
    BY <1>3 DEF Digest
  <2>3. QED
    BY <2>1, <2>2
<1>13. Replays(b)
  BY <1>5, <1>6, <1>7, <1>8, <1>9, <1>10, <1>11 DEF Replays
<1>14. QED
  BY <1>12, <1>13

LEMMA PackKeeps ==
    ASSUME IInv, Pack
    PROVE  IInv'
<1> DEFINE d == Bundle
           g == work["related"]
<1> USE BundleFields
<1>1. Write("bundle", TRUE, d) /\ pc = "bundle" /\ MayPack
  BY DEF Pack, Write
<1>2. /\ work["checks"] \in CheckSets
      /\ BoundProposal(work["proposal"]) /\ g.members \in [Members -> Revision]
  BY <1>1, WrittenBefore, Ranks DEF DocOk, Graphs
<1>3. /\ work["proposal"].contracts = g.members
      /\ work["proposal"].graph.base = g.base
      /\ g.base.contracts = checkout.contracts
  BY <1>1 DEF MayPack, Verified, Digest
<1>4. PackedBundle(d)
  BY <1>2, <1>3 DEF PackedBundle, BoundProposal
<1>5. ~ kept => Replays(d) /\ Reported(d.coherence, d.graph.members)
  BY <1>1, PackedReplays
<1> HIDE DEF d
<1>6. work'["bundle"] = d /\ checkout' = checkout
  BY <1>1, TypesOfWork, Ranks, ZenonT(30) DEF Write, IInv
<1>7. DocOk("bundle")'
  BY <1>4, <1>6 DEF DocOk, Graphs, PackedBundle
<1>8. ~ kept => OwnDoc("bundle")'
  BY <1>5, <1>6 DEF OwnDoc, Graphs, Replays, ReplayBoundary, Reported
<1>9. QED
  BY <1>1, <1>7, <1>8, WriteKeeps, Ranks

\* Files say what they said while nothing is written.
LEMMA OwnDocSame ==
    ASSUME work' = work, checkout' = checkout, NEW f \in Files, OwnDoc(f)
    PROVE  OwnDoc(f)'
<1>1. OwnGraph' = OwnGraph /\ WorkTier' = WorkTier
  BY DEF OwnGraph, Base, WorkTier
<1>2. \A x : Verified(x) => Verified(x)'
  BY DEF Verified
<1>3. MayAdvance => MayAdvance'
  BY <1>1, <1>2 DEF MayAdvance
<1>4. Replays(work["bundle"]) => Replays(work["bundle"])'
  BY DEF Replays, ReplayBoundary
<1>5. QED
  BY <1>1, <1>3, <1>4 DEF OwnDoc, Reported

LEMMA DocOkSame ==
    ASSUME work' = work, NEW f \in Files, DocOk(f)
    PROVE  DocOk(f)'
BY DEF DocOk, EarnedClaim, EarnedBy, BoundProposal, PackedBundle

\* Steps that leave the files alone and end the pass, or find a file there.
LEMMA NothingWrittenKeeps ==
    ASSUME IInv, UNCHANGED <<main, head, checkout, work, kept>>,
           \/ pc' = "done"
           \/ kept /\ pc \in Files /\ work[pc] # None /\ pc' = Following[pc],
           replayed' => /\ pc' = "done"
                        /\ Replays(work["bundle"]) /\ PackedBundle(work["bundle"])
                        /\ ~ kept => Reported(work["bundle"].coherence,
                                              work["bundle"].graph.members)
    PROVE  IInv'
<1>1. \A g \in Files : There(g)' => There(g)
  <2>1. CASE pc' = "done"
    BY <2>1 DEF There
  <2>2. CASE kept /\ pc \in Files /\ work[pc] # None /\ pc' = Following[pc]
    <3>1. pc # "done" /\ Rank[pc'] = Rank[pc] + 1 /\ Rank[pc] \in 1..13
      BY <2>2, FollowingRank, StepsInOrder DEF Files
    <3>2. QED
      BY <2>2, <3>1, Ranks DEF There
  <2>3. QED
    BY <2>1, <2>2
<1>2. TypeInv'
  BY FollowingRank DEF IInv, TypeInv
<1>3. DocsInv'
  BY <1>1, DocOkSame DEF IInv, DocsInv
<1>4. ReplayedInv'
  <2>1. Replays(work["bundle"]) => Replays(work["bundle"])'
    BY DEF Replays, ReplayBoundary
  <2>2. PackedBundle(work["bundle"]) => PackedBundle(work["bundle"])'
    BY DEF PackedBundle
  <2>3. QED
    BY <2>1, <2>2 DEF ReplayedInv, Reported
<1>5. OwnInv'
  <2> SUFFICES ASSUME ~ kept
               PROVE  Ahead' /\ \A g \in Files : There(g)' => OwnDoc(g)'
    BY DEF OwnInv
  <2>1. QED
    BY <1>1, OwnDocSame DEF IInv, OwnInv, Ahead
<1>6. QED
  BY <1>2, <1>3, <1>4, <1>5 DEF IInv

LEMMA ReplayKeeps ==
    ASSUME IInv, Replay \/ Keep \/ Stop
    PROVE  IInv'
<1>1. CASE Replay
  <2>1. /\ PackedBundle(work["bundle"])
        /\ ~ kept => Reported(work["bundle"].coherence, work["bundle"].graph.members)
    <3>1. There("bundle")
      BY <1>1, Ranks DEF Replay, There
    <3>2. QED
      BY <3>1, Ranks DEF IInv, DocsInv, DocOk, OwnInv, OwnDoc
  <2>2. QED
    BY <1>1, <2>1, NothingWrittenKeeps DEF Replay
<1>2. CASE Keep
  <2>1. ~ replayed'
    BY <1>2, StepsInOrder DEF Keep, IInv, ReplayedInv, Files
  <2>2. QED
    BY <1>2, <2>1, NothingWrittenKeeps DEF Keep
<1>3. CASE Stop
  BY <1>3, NothingWrittenKeeps DEF Stop, IInv, ReplayedInv
<1>4. QED
  BY <1>1, <1>2, <1>3

\* A pass starts with an empty workspace, or with the files of another.
LEMMA StartKeeps ==
    ASSUME IInv, NEW fresh \in BOOLEAN, Start(fresh)
    PROVE  IInv'
<1>1. /\ main' = main /\ head' = head /\ checkout' = main
      /\ work' = (IF fresh THEN Empty ELSE work) /\ kept' = ~ fresh
      /\ replayed' = FALSE /\ pc' = "candidate" /\ pc = "done"
  BY DEF Start
<1>2. \A g \in Files : Empty[g] = None
  BY DEF Empty
<1>3. \A g \in Files : There(g)' => ~ fresh /\ There(g)
  BY <1>1, <1>2, Ranks DEF There
<1>4. TypeInv'
  BY <1>1, Ranks DEF IInv, TypeInv, Empty
<1>5. DocsInv'
  BY <1>1, <1>3, DocOkSame DEF IInv, DocsInv
<1>6. OwnInv'
  BY <1>1, <1>2, <1>3 DEF OwnInv, Ahead
<1>7. ReplayedInv'
  BY <1>1 DEF ReplayedInv
<1>8. QED
  BY <1>4, <1>5, <1>6, <1>7 DEF IInv

-----------------------------------------------------------------------------
(* What moves between the passes.                                          *)

LEMMA OutsideKeeps ==
    ASSUME IInv, UNCHANGED <<checkout, work, pc, kept, replayed>>,
           main' \in Mains, head' \in [Members -> Revision]
    PROVE  IInv'
<1>1. \A g \in Files : There(g)' <=> There(g)
  BY DEF There
<1>2. TypeInv'
  BY DEF IInv, TypeInv
<1>3. DocsInv'
  BY <1>1, DocOkSame DEF IInv, DocsInv
<1>4. ReplayedInv'
  <2>1. Replays(work["bundle"]) => Replays(work["bundle"])'
    BY DEF Replays, ReplayBoundary
  <2>2. PackedBundle(work["bundle"]) => PackedBundle(work["bundle"])'
    BY DEF PackedBundle
  <2>3. QED
    BY <2>1, <2>2 DEF IInv, ReplayedInv, Reported
<1>5. OwnInv'
  BY <1>1, OwnDocSame DEF IInv, OwnInv, Ahead
<1>6. QED
  BY <1>2, <1>3, <1>4, <1>5 DEF IInv

LEMMA HeadMovesKeeps ==
    ASSUME IInv, NEW m \in Members, HeadMoves(m)
    PROVE  IInv'
<1>1. /\ head \in [Members -> Revision] /\ main \in Mains
      /\ head[m] < LastRevision[m] /\ head' = [head EXCEPT ![m] = @ + 1]
      /\ UNCHANGED <<main, checkout, work, pc, kept, replayed>>
  BY DEF IInv, TypeInv, HeadMoves
<1>2. /\ LastRevision[m] \in 0..MaxRevision /\ head[m] \in 0..MaxRevision
      /\ MaxRevision \in Nat
  BY <1>1, ConstantsAssumption DEF Revision
<1>3. head[m] + 1 \in Revision
  BY <1>1, <1>2 DEF Revision
<1>4. head' \in [Members -> Revision]
  BY <1>1, <1>3
<1>5. QED
  BY <1>1, <1>4, OutsideKeeps

\* Main stays well formed whatever is committed.
LEMMA CommitKeeps ==
    ASSUME IInv, PromoteContracts \/ ReplaceTemplate \/ Merge
    PROVE  IInv'
<1>1. /\ main \in Mains /\ head \in [Members -> Revision]
      /\ main.commit + 1 \in Nat /\ main.graph + 1 \in Nat
  BY DEF IInv, TypeInv, Mains
<1>2. CASE PromoteContracts
  <2>1. main' = [commit |-> main.commit + 1, contracts |-> head,
                 graph |-> main.graph, template |-> main.template]
    BY <1>2 DEF PromoteContracts, Commit
  <2>2. main' \in Mains
    BY <1>1, <2>1 DEF Mains
  <2>3. QED
    BY <1>1, <1>2, <2>2, OutsideKeeps DEF PromoteContracts
<1>3. CASE ReplaceTemplate
  <2>1. /\ main' = [commit |-> main.commit + 1, contracts |-> main.contracts,
                    graph |-> main.graph, template |-> main.template + 1]
        /\ main.template < Len(Required)
    BY <1>3 DEF ReplaceTemplate, Commit
  <2>2. main.template \in 1..Len(Required) /\ Len(Required) \in Nat
    BY <1>1, ConstantsAssumption DEF Mains, Template
  <2>3. main.template + 1 \in Template
    BY <2>1, <2>2 DEF Template
  <2>4. main' \in Mains
    BY <1>1, <2>1, <2>3 DEF Mains
  <2>5. QED
    BY <1>1, <1>3, <2>4, OutsideKeeps DEF ReplaceTemplate
<1>4. CASE Merge
  <2> DEFINE b == work["bundle"]
             merged == [m \in Members |-> IF b.after[m] = b.before[m]
                                          THEN main.contracts[m] ELSE b.after[m]]
  <2>1. main' = [commit |-> main.commit + 1, contracts |-> merged,
                 graph |-> main.graph + 1, template |-> main.template]
    BY <1>4 DEF Merge, Commit
  <2>2. b.after \in [Members -> Revision]
    BY <1>4 DEF Merge, IInv, ReplayedInv, PackedBundle
  <2>3. merged \in [Members -> Revision]
    BY <1>1, <2>2 DEF Mains
  <2>4. main' \in Mains
    BY <1>1, <2>1, <2>3 DEF Mains
  <2>5. QED
    BY <1>1, <1>4, <2>4, OutsideKeeps DEF Merge
<1>5. QED
  BY <1>2, <1>3, <1>4

-----------------------------------------------------------------------------
(* The theorems.                                                           *)

LEMMA InitHolds == Init => IInv
<1> SUFFICES ASSUME Init PROVE IInv
  OBVIOUS
<1>1. main \in Mains
  <2>1. Len(Required) \in Nat /\ Len(Required) # 0 /\ MaxRevision \in Nat
    BY ConstantsAssumption
  <2>2. 1 \in Template /\ 0 \in Revision
    BY <2>1 DEF Template, Revision
  <2>3. [m \in Members |-> 0] \in [Members -> Revision]
    BY <2>2
  <2>4. QED
    BY <2>2, <2>3 DEF Init, Mains
<1>2. TypeInv
  BY <1>1, ConstantsAssumption DEF Init, TypeInv, Empty
<1>3. \A g \in Files : ~ There(g)
  BY DEF Init, There, Empty
<1>4. DocsInv /\ ReplayedInv /\ OwnInv
  BY <1>3 DEF Init, DocsInv, ReplayedInv, OwnInv, Ahead
<1>5. QED
  BY <1>2, <1>4 DEF IInv

\* The invariant is inductive: no step of a pass, and nothing that moves
\* between the passes, breaks it.
LEMMA NextKeeps == IInv /\ [Next]_vars => IInv'
<1> SUFFICES ASSUME IInv, [Next]_vars PROVE IInv'
  OBVIOUS
<1>1. ASSUME NEW fresh \in BOOLEAN, Start(fresh)
      PROVE  IInv'
  BY <1>1, StartKeeps
<1>2. CASE Propose \/ Nominate \/ Produce \/ Materialize \/ Analyze
  BY <1>2, ProposeKeeps, NominateKeeps, ProduceKeeps, MaterializeKeeps, AnalyzeKeeps
<1>3. ASSUME NEW stage \in Graphs, Build(stage)
      PROVE  IInv'
  BY <1>3, BuildKeeps
<1>4. CASE Evaluate \/ Relate \/ Advance \/ Pack \/ Replay \/ Keep \/ Stop
  BY <1>4, EvaluateKeeps, RelateKeeps, AdvanceKeeps, PackKeeps, ReplayKeeps
<1>5. ASSUME NEW m \in Members, HeadMoves(m)
      PROVE  IInv'
  BY <1>5, HeadMovesKeeps
<1>6. CASE PromoteContracts \/ ReplaceTemplate \/ Merge
  BY <1>6, CommitKeeps
<1>7. CASE UNCHANGED vars
  BY <1>7, OutsideKeeps DEF vars, IInv, TypeInv
<1>8. QED
  BY <1>1, <1>2, <1>3, <1>4, <1>5, <1>6, <1>7 DEF Next

\* What the files of every pass say, in its own workspace and in that of
\* another, for any members and bounds.
THEOREM InvariantHolds == Spec => []IInv
<1>1. Init => IInv
  BY InitHolds
<1>2. IInv /\ [Next]_vars => IInv'
  BY NextKeeps
<1>3. QED
  BY <1>1, <1>2, PTL DEF Spec

\* A bundle that replays was earned: under the template in force, at exactly
\* the revisions of its graph, with no required obligation open that is not
\* tolerated, and, in a workspace of its own, with nothing held against them.
THEOREM ReplayedBundlesAreEarned == Spec => []ReplayedIsEarned
<1>1. ASSUME IInv, replayed
      PROVE  LET b == work["bundle"]
                 members == b.graph.members
             IN  /\ EarnedBy(members, b.checks, Required[checkout.template])
                 /\ \A o \in b.obligations :
                         /\ o.subject = members[o.member]
                         /\ Deciding(o) => o.member \in Tolerated[checkout.template]
                 /\ ~ kept => Blockers(members, members, checkout.template) = {}
                 /\ b.before = b.graph.base.contracts /\ b.after = members
                 /\ b.after # b.before
  <2> DEFINE b == work["bundle"]
             template == checkout.template
  <2>1. Replays(b) /\ PackedBundle(b) /\ template \in Template
    BY <1>1 DEF IInv, ReplayedInv, TypeInv, Mains
  <2>2. /\ b.boundary.template = template /\ b.claim.verdict = "PASS"
        /\ b.before = b.graph.base.contracts /\ b.after = b.graph.members
        /\ b.coherence.graph = Digest(b.graph) /\ b.coherence.blockers = {}
        /\ b.claim.total >= 1
        /\ Admits(b.boundary, b.checks, b.obligations, b.graph)
        /\ Claim(b.boundary, b.checks, b.obligations, b.graph, b.claim.producer)
               = b.claim
    BY <2>1 DEF Replays, ReplayBoundary, ReplayClaim, ReplayTransition,
                ReplayCoherence, ReplayRerun, ClaimIsValid
  <2>3. /\ b.checks \in CheckSets /\ b.after # b.before
        /\ ~ kept => Reported(b.coherence, b.graph.members)
    BY <1>1, <2>1 DEF PackedBundle, IInv, ReplayedInv
  <2>4. /\ EarnedBy(b.graph.members, b.checks, Required[template])
        /\ \A o \in b.obligations : Deciding(o) => o.member \in Tolerated[template]
    BY <2>1, <2>2, <2>3, ClaimsAreEarned
  <2>5. \A o \in b.obligations : o.subject = b.graph.members[o.member]
    BY <2>2 DEF Admits
  <2>6. Required[template] # {}
    <3>1. b.claim.total = Cardinality(Required[template])
      BY <2>2, ClaimFields
    <3>2. QED
      BY <2>2, <3>1, FS_EmptySet
  <2>7. ASSUME ~ kept
        PROVE  Blockers(b.graph.members, b.graph.members, template) = {}
    <3>1. Blockers(b.graph.members, b.graph.members, 1) \subseteq {"cycle"}
      BY <2>2, <2>3, <2>7 DEF Reported
    <3>2. ASSUME NEW k \in Blockers(b.graph.members, b.graph.members, template)
          PROVE  FALSE
      <4>1. CASE k # "cycle"
        BY <3>1, <3>2, <4>1, BlockersOfAny
      <4>2. CASE k = "cycle"
        BY <2>6, <3>2, <4>2 DEF Blockers
      <4>3. QED
        BY <4>1, <4>2
    <3>3. QED
      BY <3>2
  <2>8. QED
    BY <2>2, <2>3, <2>4, <2>5, <2>7
<1>2. IInv => ReplayedIsEarned
  BY <1>1 DEF ReplayedIsEarned
<1>3. QED
  BY <1>2, InvariantHolds, PTL

\* A bundle that replays says "full" exactly when it is, and says what the
\* graph it accepts says.
THEOREM TiersAreHonest == Spec => []TierIsHonest
<1>1. ASSUME IInv, replayed
      PROVE  LET b == work["bundle"] IN
             /\ (b.tier = "full") <=> /\ EarnedBy(b.graph.members, b.checks, Members)
                                      /\ \A o \in b.obligations : ~Deciding(o)
             /\ b.accepted.tier = b.tier
             /\ b.accepted.graph.evidence = b.checks
  <2> DEFINE b == work["bundle"]
             required == Required[b.boundary.template]
  <2>1. Replays(b) /\ b.checks \in CheckSets /\ checkout.template \in Template
    BY <1>1 DEF IInv, ReplayedInv, PackedBundle, TypeInv, Mains
  <2>2. /\ b.boundary.template \in Template /\ b.claim.verdict = "PASS"
        /\ b.claim.total >= 1
        /\ Admits(b.boundary, b.checks, b.obligations, b.graph)
        /\ Claim(b.boundary, b.checks, b.obligations, b.graph, b.claim.producer)
               = b.claim
        /\ b.tier = Tier(b.claim, b.boundary, b.checks, b.obligations)
        /\ b.accepted.tier = b.tier /\ b.accepted.graph = b.graph
        /\ b.checks = b.graph.evidence
    BY <2>1 DEF Replays, ReplayIdentity, ReplayBoundary, ReplayEvidence, ReplayClaim,
                ReplayTransition, ReplayRerun, ClaimIsValid
  <2>3. /\ EarnedBy(b.graph.members, b.checks, required)
        /\ Passing(b.checks, required) = required
    BY <2>1, <2>2, ClaimsAreEarned
  <2>4. b.claim.passed = b.claim.total
    BY <2>2, <2>3, ClaimFields
  <2>5. required \subseteq Members
    <3>1. Required \in Seq(SUBSET Members) /\ b.boundary.template \in 1..Len(Required)
      BY <2>2, ConstantsAssumption DEF Template
    <3>2. QED
      BY <3>1
  <2>6. ~ (b.claim.total < 1)
    <3>1. b.claim.total = Cardinality(required) /\ IsFiniteSet(required)
      BY <2>2, <2>5, ClaimFields, ConstantsAssumption, FS_Subset
    <3>2. b.claim.total \in Nat
      BY <3>1, FS_CardinalityType
    <3>3. QED
      BY <2>2, <3>2
  <2>7. (\A m \in Members \ required : b.checks[m].verdict = "PASS")
           <=> EarnedBy(b.graph.members, b.checks, Members)
    <3>1. ASSUME NEW m \in Members
          PROVE  b.checks[m].verdict = "PASS" <=>
                    b.checks[m] = [subject |-> b.graph.members[m], verdict |-> "PASS"]
      <4>1. /\ b.checks[m] \in [subject : Revision, verdict : {"PASS", "UNKNOWN"}]
            /\ b.checks[m].subject = b.graph.members[m]
        BY <2>1, <2>2 DEF CheckSets, Admits
      <4>2. QED
        BY <4>1
    <3>2. \A m \in required : b.checks[m].verdict = "PASS"
      BY <2>3 DEF Passing
    <3>3. QED
      BY <3>1, <3>2 DEF EarnedBy
  <2>8. b.tier = "full" <=> /\ \A o \in b.obligations : ~Deciding(o)
                            /\ \A m \in Members \ required : b.checks[m].verdict = "PASS"
    BY <2>2, <2>4, <2>6 DEF Tier
  <2>9. QED
    BY <2>2, <2>7, <2>8
<1>2. IInv => TierIsHonest
  BY <1>1 DEF TierIsHonest
<1>3. QED
  BY <1>2, InvariantHolds, PTL

\* A proposal holds a claim about exactly its graph, also when the claim was
\* left by an earlier pass.
THEOREM ProposalsAreBound == Spec => []ProposalIsBound
<1>1. IInv => ProposalIsBound
  BY Ranks DEF IInv, DocsInv, There, DocOk, BoundProposal, ProposalIsBound
<1>2. QED
  BY <1>1, InvariantHolds, PTL

\* The builds of a pass of its own workspace are one graph.
THEOREM IdentityIsKept == Spec => []IdentityHolds
<1>1. ASSUME IInv, ~ kept
      PROVE  Cardinality(
                {Digest(work[g]) : g \in {f \in Graphs : work[f] # None}}
                \cup {work[f].graph : f \in {e \in {"boundary", "coherence", "claim"} :
                                                work[e] # None}}) <= 1
  <2> DEFINE S == {Digest(work[g]) : g \in {f \in Graphs : work[f] # None}}
             T == {work[f].graph : f \in {e \in {"boundary", "coherence", "claim"} :
                                                work[e] # None}}
  <2>1. \A f \in Files : work[f] # None => OwnDoc(f)
    BY <1>1 DEF IInv, OwnInv, There
  <2>2. S \subseteq {OwnGraph}
    BY <2>1, Ranks DEF OwnDoc, Graphs
  <2>3. T \subseteq {OwnGraph}
    BY <2>1, Ranks DEF OwnDoc
  <2> HIDE DEF S, T
  <2>4. S \cup T = {} \/ S \cup T = {OwnGraph}
    BY <2>2, <2>3
  <2>5. Cardinality(S \cup T) <= 1
    <3>1. Cardinality({}) = 0 /\ Cardinality({OwnGraph}) = 1
      BY FS_EmptySet, FS_Singleton
    <3>2. QED
      BY <2>4, <3>1
  <2>6. QED
    BY <2>5 DEF S, T
<1>2. IInv => IdentityHolds
  BY <1>1 DEF IdentityHolds
<1>3. QED
  BY <1>2, InvariantHolds, PTL

\* What advance proposes in a pass of its own workspace is packed and
\* replayed: the three verifications agree.
THEOREM UninterruptedPassesReplay == Spec => []UninterruptedPassReplays
<1>1. ASSUME IInv, ~ kept, pc = "bundle"
      PROVE  MayPack
  BY <1>1, ProposedIsPacked
<1>2. ASSUME IInv, ~ kept, pc = "replay"
      PROVE  Replays(work["bundle"])
  <2>1. There("bundle")
    BY <1>2, Ranks DEF There
  <2>2. QED
    BY <1>2, <2>1, Ranks DEF IInv, OwnInv, OwnDoc
<1>3. IInv => UninterruptedPassReplays
  BY <1>1, <1>2 DEF UninterruptedPassReplays
<1>4. QED
  BY <1>3, InvariantHolds, PTL

=============================================================================
