--------------------------- MODULE FamilyVerifyProofs ---------------------------
(***************************************************************************)
(* Proofs about FamilyVerify, for any sequence of providers, any boundary  *)
(* and any additional check.                                               *)
(***************************************************************************)
EXTENDS FamilyVerify, TLAPS

(***************************************************************************)
(* Lemmas about the composition of checks.                                 *)
(***************************************************************************)

\* The composed verdict is always one of the three.
LEMMA VerdictIsOne ==
    ASSUME NEW f, NEW R
    PROVE  AggregateVerdict(f, R) \in Verdicts
BY DEF AggregateVerdict, Verdicts

\* PASS means that every required check is there with PASS.
LEMMA PassMeansAll ==
    ASSUME NEW f, NEW R,
           \A id \in DOMAIN f : f[id] \in Verdicts,
           AggregateVerdict(f, R) = "PASS"
    PROVE  \A id \in R : id \in DOMAIN f /\ f[id] = "PASS"
BY DEF AggregateVerdict, Verdicts, Has, Missing

\* Two loaded checks of one id are the same when no file is in error.
LEMMA LoadedOnce ==
    ASSUME NEW l, ~FileErrors(l)
    PROVE  \A c, d \in Loaded(l) : c.id = d.id => c = d
BY DEF FileErrors, Loaded

\* The verdicts loaded are those of the loaded checks.
LEMMA LoadedVerdictsAre ==
    ASSUME NEW l, \A d \in Loaded(l) : d \in Documents
    PROVE  \A id \in DOMAIN LoadedVerdicts(l) :
              /\ LoadedVerdicts(l)[id] \in Verdicts
              /\ CheckResult(id, LoadedVerdicts(l)[id]) \in Loaded(l)
<1> SUFFICES ASSUME NEW id \in DOMAIN LoadedVerdicts(l)
             PROVE  /\ LoadedVerdicts(l)[id] \in Verdicts
                    /\ CheckResult(id, LoadedVerdicts(l)[id]) \in Loaded(l)
  OBVIOUS
<1> DEFINE d == CHOOSE d \in Loaded(l) : d.id = id
<1>1. \E e \in Loaded(l) : e.id = id
  BY DEF LoadedVerdicts
<1>2. d \in Loaded(l) /\ d.id = id
  BY <1>1
<1>3. LoadedVerdicts(l)[id] = d.verdict
  BY DEF LoadedVerdicts
<1> HIDE DEF d
<1>4. PICK i \in Ids, v \in Verdicts : d = CheckResult(i, v)
  BY <1>2 DEF Documents
<1>5. d.id = i /\ d.verdict = v
  BY <1>4 DEF CheckResult
<1>6. QED
  BY <1>2, <1>3, <1>4, <1>5

\* Every loaded check is in the domain of the verdicts, with its verdict.
LEMMA LoadedAreVerdicts ==
    ASSUME NEW l, ~FileErrors(l), \A d \in Loaded(l) : d \in Documents,
           NEW c \in Loaded(l)
    PROVE  /\ c.id \in DOMAIN LoadedVerdicts(l)
           /\ LoadedVerdicts(l)[c.id] = c.verdict
<1>1. c.id \in DOMAIN LoadedVerdicts(l)
  BY DEF LoadedVerdicts
<1> DEFINE d == CheckResult(c.id, LoadedVerdicts(l)[c.id])
<1>2. d \in Loaded(l)
  BY <1>1, LoadedVerdictsAre
<1>3. d.id = c.id /\ d.verdict = LoadedVerdicts(l)[c.id]
  BY DEF CheckResult
<1>4. d = c
  BY <1>2, <1>3, LoadedOnce
<1>5. QED
  BY <1>1, <1>3, <1>4

\* Worsening one check does not better the verdict.
LEMMA WorseChange ==
    ASSUME NEW f, NEW R, \A id \in DOMAIN f : f[id] \in Verdicts,
           NEW id \in DOMAIN f, NEW v \in Verdicts, Rank(v) <= Rank(f[id])
    PROVE  Rank(AggregateVerdict([f EXCEPT ![id] = v], R))
              <= Rank(AggregateVerdict(f, R))
<1> DEFINE g == [f EXCEPT ![id] = v]
<1>1. DOMAIN g = DOMAIN f
  OBVIOUS
<1>2. g[id] = v /\ \A x \in DOMAIN f \ {id} : g[x] = f[x]
  OBVIOUS
<1>3. f[id] = "FAIL" => v = "FAIL"
  BY DEF Rank, Verdicts
<1>4. f[id] = "UNKNOWN" => v \in {"FAIL", "UNKNOWN"}
  BY DEF Rank, Verdicts
<1> HIDE DEF g
<1>5. AggregateVerdict(f, R) = "FAIL" => AggregateVerdict(g, R) = "FAIL"
  BY <1>1, <1>2, <1>3 DEF AggregateVerdict, Has
<1>6. AggregateVerdict(f, R) = "UNKNOWN" =>
         AggregateVerdict(g, R) \in {"FAIL", "UNKNOWN"}
  BY <1>1, <1>2, <1>4 DEF AggregateVerdict, Has, Missing
<1>7. QED
  BY <1>5, <1>6, VerdictIsOne DEF Rank, Verdicts, g

\* Leaving out a check that is not FAIL does not better the verdict.
LEMMA LeavingOut ==
    ASSUME NEW f, NEW R, NEW id \in DOMAIN f, f[id] # "FAIL"
    PROVE  Rank(AggregateVerdict([x \in DOMAIN f \ {id} |-> f[x]], R))
              <= Rank(AggregateVerdict(f, R))
<1> DEFINE g == [x \in DOMAIN f \ {id} |-> f[x]]
<1>1. DOMAIN g = DOMAIN f \ {id} /\ \A x \in DOMAIN g : g[x] = f[x]
  OBVIOUS
<1> HIDE DEF g
<1>2. AggregateVerdict(f, R) = "FAIL" => AggregateVerdict(g, R) = "FAIL"
  BY <1>1 DEF AggregateVerdict, Has
<1>3. AggregateVerdict(f, R) = "UNKNOWN" =>
         AggregateVerdict(g, R) \in {"FAIL", "UNKNOWN"}
  BY <1>1 DEF AggregateVerdict, Has, Missing
<1>4. QED
  BY <1>2, <1>3, VerdictIsOne DEF Rank, Verdicts, g

(***************************************************************************)
(* Type correctness.                                                       *)
(***************************************************************************)

\* The providers have a finite number of turns.
LEMMA Turns == Len(Providers) \in Nat /\ DOMAIN Providers = 1 .. Len(Providers)
BY FamilyAssumption DEF FamilyAssumption

LEMMA NextTurn ==
    ASSUME NEW t \in DOMAIN Providers
    PROVE  t + 1 \in 1 .. Len(Providers) + 1
<1> DEFINE n == Len(Providers)
<1>1. n \in Nat /\ t \in 1 .. n
  BY Turns
<1> HIDE DEF n
<1>2. t + 1 \in 1 .. n + 1
  BY <1>1
<1>3. QED
  BY <1>2 DEF n

LEMMA FirstAndLastTurn ==
    /\ \A i \in DOMAIN Providers : ~(i < 1)
    /\ \A t \in 1 .. Len(Providers) + 1 :
          t \notin DOMAIN Providers => \A i \in DOMAIN Providers : i < t
<1> DEFINE n == Len(Providers)
<1>1. n \in Nat /\ DOMAIN Providers = 1 .. n
  BY Turns
<1> HIDE DEF n
<1>2. \A i \in 1 .. n : ~(i < 1)
  BY <1>1
<1>3. \A t \in 1 .. n + 1 : t \notin 1 .. n => \A i \in 1 .. n : i < t
  BY <1>1
<1>4. QED
  BY <1>1, <1>2, <1>3 DEF n

\* What a provider writes under its own id is a document.
LEMMA WrittenAreDocuments ==
    ASSUME NEW q \in Ids
    PROVE  Written(q) \subseteq Documents
BY DEF Written, Documents, Verdicts

\* Only an established check is packaged.
LEMMA PackageTyped ==
    ASSUME NEW p \in Provider, NEW content \in Documents \cup {NoFile, Malformed}
    PROVE  /\ Package(p, content) \in Documents \cup {NoFile}
           /\ Package(p, content) # NoFile => Package(p, content).id = p
           /\ Established(p, content) => Package(p, content) = content
                                        /\ content # NoFile
                                        /\ content.verdict \in Verdicts
<1>1. content = Malformed => ~Established(p, content)
  BY DEF Malformed, Established
<1>2. content = NoFile => ~Established(p, content)
  BY DEF NoFile, Established
<1>3. content \in Documents => content.verdict \in Verdicts
  BY DEF Documents, CheckResult
<1>4. QED
  BY <1>1, <1>2, <1>3 DEF Package, Established

LEMMA TypeStep ==
    ASSUME TypeOK, [Next]_vars
    PROVE  TypeOK'
<1> USE DEF TypeOK
<1>1. ASSUME NEW p \in Provider, RunProvider(p) PROVE TypeOK'
  <2> DEFINE Contents == Documents \cup {NoFile, Malformed}
  <2>1. p \in Ids
    BY DEF Ids
  <2>2. PICK own \in Written(p) \cup {NoFile, Malformed, files[p]},
             q \in Ids \ {p} :
             \E other \in Written(q) \cup {files[q]} :
                /\ files' = [files EXCEPT ![p] = own, ![q] = other]
                /\ lastWriter' = [id \in Ids |->
                      IF files'[id] # files[id] THEN p ELSE lastWriter[id]]
    BY <1>1 DEF RunProvider
  <2>3. PICK other \in Written(q) \cup {files[q]} :
                /\ files' = [files EXCEPT ![p] = own, ![q] = other]
                /\ lastWriter' = [id \in Ids |->
                      IF files'[id] # files[id] THEN p ELSE lastWriter[id]]
    BY <2>2
  <2>4. own \in Contents /\ other \in Contents
    BY <2>1, WrittenAreDocuments
  <2>5. files' \in [Ids -> Contents]
    BY <2>3, <2>4
  <2>6. lastWriter' \in [Ids -> Provider \cup {"checkout"}]
    BY <2>3
  <2>7. files'[p] \in Contents
    BY <2>1, <2>5
  <2>8. /\ packaged' \in [Provider -> Documents \cup {NoFile}]
        /\ \A r \in Provider : packaged'[r] # NoFile => packaged'[r].id = r
    <3>1. packaged' = [packaged EXCEPT ![p] = Package(p, files'[p])]
      BY <1>1 DEF RunProvider
    <3>2. /\ Package(p, files'[p]) \in Documents \cup {NoFile}
          /\ Package(p, files'[p]) # NoFile => Package(p, files'[p]).id = p
      BY <2>7, PackageTyped
    <3>3. QED
      BY <3>1, <3>2
  <2>9. output' \in [Provider -> BadgeStates \cup {""}]
    <3>1. Established(p, files'[p]) => files'[p].verdict \in Verdicts
      BY <2>7, PackageTyped
    <3>2. QED
      BY <1>1, <3>1 DEF RunProvider, BadgeStates
  <2>10. turn' \in 1 .. Len(Providers) + 1
    <3>1. turn \in DOMAIN Providers /\ turn' = turn + 1
      BY <1>1 DEF RunProvider
    <3>2. QED
      BY <3>1, NextTurn
  <2>11. failed' \in BOOLEAN
    BY <1>1 DEF RunProvider, Established
  <2>12. QED
    BY <1>1, <2>5, <2>6, <2>8, <2>9, <2>10, <2>11 DEF RunProvider, inputs
<1>2. ASSUME NEW p \in Provider, SkipProvider(p) PROVE TypeOK'
  <2>1. turn \in DOMAIN Providers /\ turn' = turn + 1
    BY <1>2 DEF SkipProvider
  <2>2. turn' \in 1 .. Len(Providers) + 1
    BY <2>1, NextTurn
  <2>3. QED
    BY <1>2, <2>2 DEF SkipProvider, inputs
<1>3. CASE EndOfProviders
  BY <1>3 DEF EndOfProviders, inputs
<1>4. CASE AggregateRefuses
  BY <1>4 DEF AggregateRefuses, inputs, BadgeStates
<1>5. CASE AggregateDies
  BY <1>5 DEF AggregateDies, inputs
<1>6. CASE AggregateComposes
  <2>1. verdict' \in Verdicts
    BY <1>6, VerdictIsOne DEF AggregateComposes
  <2>2. failed' \in BOOLEAN
    BY <1>6 DEF AggregateComposes, GateAccepts
  <2>3. QED
    BY <1>6, <2>1, <2>2 DEF AggregateComposes, inputs, BadgeStates
<1>7. CASE RenderBadge
  BY <1>7 DEF RenderBadge, inputs
<1>8. CASE BadgeFails
  BY <1>8 DEF BadgeFails, inputs
<1>9. CASE UNCHANGED vars
  BY <1>9 DEF vars, inputs
<1>10. QED
  BY <1>1, <1>2, <1>3, <1>4, <1>5, <1>6, <1>7, <1>8, <1>9 DEF Next

LEMMA InitTypeOK ==
    ASSUME Init
    PROVE  TypeOK
<1>1. files \in [Ids -> Documents \cup {NoFile, Malformed}]
  <2>1. PICK d \in {NoFile, CheckResult(Extra, "PASS")} :
           files = [id \in Ids |-> IF id = Extra THEN d ELSE NoFile]
    BY DEF Init
  <2>2. CheckResult(Extra, "PASS") \in Documents
    BY DEF Documents, Ids, Verdicts
  <2>3. QED
    BY <2>1, <2>2
<1>2. required \subseteq Ids /\ optional \subseteq Ids
  BY BoundaryAssumption DEF Init, BoundaryAssumption
<1>3. turn \in 1 .. Len(Providers) + 1
  <2>1. turn = 1
    BY DEF Init
  <2>2. QED
    BY <2>1, Turns
<1>4. QED
  BY <1>1, <1>2, <1>3 DEF Init, TypeOK, BadgeStates, Verdicts

\* Every variable keeps its type, and only an established check of the right
\* id is ever packaged.
THEOREM TypeCorrect == Spec => []TypeOK
<1>1. TypeOK /\ [Next]_vars => TypeOK'
  BY TypeStep
<1>2. Init => TypeOK
  BY InitTypeOK
<1>3. QED
  BY <1>1, <1>2, PTL DEF Spec

(***************************************************************************)
(* The inductive invariant.                                                *)
(***************************************************************************)

\* The step of p succeeded, and what it packaged is what its result file
\* holds, unless a later provider changed that file.
Settled(p) ==
    /\ packaged[p] # NoFile
    /\ ChangedLater(p) \/ packaged[p] = files[p]

\* As long as no step failed, every provider that had its turn is settled.
Progress ==
    /\ pc = "providers" /\ ~failed =>
          \A i \in DOMAIN Providers :
             i < turn /\ Providers[i] \in configured => Settled(Providers[i])
    /\ pc = "aggregate" => \A p \in configured : Settled(p)

\* An established aggregate composed the files as they still are.
Composed ==
    verdict \in Verdicts =>
        /\ consumed = Listed
        /\ ~AggregateErrors(Listed, required, optional)
        /\ verdict = AggregateVerdict(LoadedVerdicts(Listed), required)
        /\ evidence = {"aggregate", "receipt", "manifest"}
        /\ \A p \in configured : Settled(p)

\* A job that has not failed passed the gate.
Gated ==
    /\ pc \in {"providers", "aggregate"} => verdict = ""
    /\ pc \in {"badge", "done"} /\ ~failed =>
          verdict \in Verdicts /\ GateAccepts(verdict)

\* The badge is rendered last, from the verdict, when the label is valid.
Badged ==
    /\ rendered => badge = BadgeVerdict
    /\ rendered <=> pc = "done" /\ goodLabel
    /\ pc = "done" /\ ~failed => rendered

IInv == TypeOK /\ Progress /\ Composed /\ Gated /\ Badged

LEMMA InitIInv == Init => IInv
<1> SUFFICES ASSUME Init PROVE IInv
  OBVIOUS
<1>1. TypeOK
  BY InitTypeOK
<1>2. /\ pc = "providers" /\ turn = 1 /\ verdict = ""
      /\ rendered = FALSE
  BY DEF Init
<1>3. Progress
  BY <1>2, FirstAndLastTurn DEF Progress
<1>4. Composed
  BY <1>2 DEF Composed, Verdicts
<1>5. Gated /\ Badged
  BY <1>2 DEF Gated, Badged
<1>6. QED
  BY <1>1, <1>3, <1>4, <1>5 DEF IInv

\* A provider leaves the earlier ones settled, and settles itself unless its
\* step fails.
LEMMA ProviderSettles ==
    ASSUME IInv, NEW p \in Provider, RunProvider(p), ~failed',
           NEW i \in DOMAIN Providers, i < turn',
           Providers[i] \in configured
    PROVE  Settled(Providers[i])'
<1>1. PICK own \in Written(p) \cup {NoFile, Malformed, files[p]},
           q \in Ids \ {p} :
           \E other \in Written(q) \cup {files[q]} :
              /\ files' = [files EXCEPT ![p] = own, ![q] = other]
              /\ lastWriter' = [id \in Ids |->
                    IF files'[id] # files[id] THEN p ELSE lastWriter[id]]
  BY DEF RunProvider
<1>2. PICK other \in Written(q) \cup {files[q]} :
              /\ files' = [files EXCEPT ![p] = own, ![q] = other]
              /\ lastWriter' = [id \in Ids |->
                    IF files'[id] # files[id] THEN p ELSE lastWriter[id]]
  BY <1>1
<1>3. /\ pc = "providers" /\ ~failed
      /\ turn \in DOMAIN Providers /\ p = Providers[turn] /\ turn' = turn + 1
      /\ packaged' = [packaged EXCEPT ![p] = Package(p, files'[p])]
      /\ Established(p, files'[p])
  BY DEF RunProvider
<1>4. /\ p \in Ids /\ Providers[i] \in Provider /\ Providers[i] \in Ids
      /\ turn \in Nat /\ i \in Nat
  BY <1>3, Turns DEF Provider, Ids
<1>5. packaged \in [Provider -> Documents \cup {NoFile}]
  BY DEF IInv, TypeOK
<1>6. CASE i = turn
  <2>1. files'[p] # NoFile
    BY <1>3 DEF Established, NoFile
  <2>2. packaged'[p] = files'[p]
    BY <1>3, <1>5 DEF Package
  <2>3. QED
    BY <1>3, <1>6, <2>1, <2>2 DEF Settled
<1>7. CASE i # turn
  <2>1. i < turn
    BY <1>3, <1>4, <1>7
  <2>2. Providers[i] # p
    BY <1>3, <1>7, FamilyAssumption DEF FamilyAssumption
  <2>3. Settled(Providers[i])
    BY <1>3, <2>1 DEF IInv, Progress
  <2>4. packaged'[Providers[i]] = packaged[Providers[i]]
    BY <1>3, <1>4, <1>5, <2>2
  <2>5. CASE files'[Providers[i]] = files[Providers[i]]
    <3>1. lastWriter'[Providers[i]] = lastWriter[Providers[i]]
      BY <1>2, <1>4, <2>5
    <3>2. QED
      BY <2>3, <2>4, <2>5, <3>1 DEF Settled, ChangedLater
  <2>6. CASE files'[Providers[i]] # files[Providers[i]]
    <3>1. lastWriter'[Providers[i]] = Providers[turn]
      BY <1>2, <1>3, <1>4, <2>6
    <3>2. ChangedLater(Providers[i])'
      BY <1>3, <2>1, <3>1 DEF ChangedLater
    <3>3. QED
      BY <2>3, <2>4, <3>2 DEF Settled
  <2>7. QED
    BY <2>5, <2>6
<1>8. QED
  BY <1>6, <1>7

\* A step that leaves the files alone leaves what is settled, and what is
\* listed.
LEMMA QuietSteps ==
    ASSUME UNCHANGED <<files, lastWriter, packaged, inputs>>
    PROVE  /\ \A p : Settled(p)' <=> Settled(p)
           /\ Listed' = Listed
BY DEF Settled, ChangedLater, Listed, inputs

LEMMA IInvStep ==
    ASSUME IInv, [Next]_vars
    PROVE  IInv'
<1>0. TypeOK'
  BY TypeStep DEF IInv
<1>1. ASSUME NEW p \in Provider, RunProvider(p) PROVE IInv'
  <2>1. pc = "providers" /\ pc' = "providers"
    BY <1>1 DEF RunProvider
  <2>2. Progress'
    <3>1. configured' = configured
      BY <1>1 DEF RunProvider, inputs
    <3>2. ASSUME ~failed', NEW i \in DOMAIN Providers, i < turn',
                 Providers[i] \in configured'
          PROVE  Settled(Providers[i])'
      BY <1>1, <3>1, <3>2, ProviderSettles
    <3>3. QED
      BY <2>1, <3>2 DEF Progress
  <2>3. verdict' = "" /\ ~rendered' /\ UNCHANGED goodLabel
    BY <1>1, <2>1 DEF RunProvider, IInv, Gated, Badged, inputs
  <2>4. QED
    BY <1>0, <2>1, <2>2, <2>3 DEF IInv, Composed, Gated, Badged, Verdicts
<1>2. ASSUME NEW p \in Provider, SkipProvider(p) PROVE IInv'
  <2>1. /\ pc = "providers" /\ pc' = "providers"
        /\ turn \in DOMAIN Providers /\ turn' = turn + 1
        /\ p = Providers[turn] /\ (p \notin configured \/ failed)
        /\ UNCHANGED <<files, lastWriter, packaged, inputs, failed>>
        /\ UNCHANGED <<consumed, evidence, verdict, badge, rendered>>
    BY <1>2 DEF SkipProvider
  <2>2. Progress'
    <3>1. ASSUME ~failed, NEW i \in DOMAIN Providers, i < turn + 1,
                 Providers[i] \in configured
          PROVE  Settled(Providers[i])
      <4>1. i # turn /\ i \in Nat /\ turn \in Nat
        BY <2>1, <3>1, Turns
      <4>2. i < turn
        BY <3>1, <4>1
      <4>3. QED
        BY <2>1, <3>1, <4>2 DEF IInv, Progress
    <3>2. \A r : Settled(r)' <=> Settled(r)
      BY <2>1, QuietSteps
    <3>3. failed' = failed /\ configured' = configured
      BY <2>1 DEF inputs
    <3>4. ASSUME ~failed', NEW i \in DOMAIN Providers, i < turn',
                 Providers[i] \in configured'
          PROVE  Settled(Providers[i])'
      <4>1. ~failed /\ i < turn + 1 /\ Providers[i] \in configured
        BY <2>1, <3>3, <3>4
      <4>2. Settled(Providers[i])
        BY <3>1, <4>1
      <4>3. QED
        BY <3>2, <4>2
    <3>5. QED
      BY <2>1, <3>4 DEF Progress
  <2>3. verdict' = "" /\ ~rendered' /\ UNCHANGED goodLabel
    BY <2>1 DEF IInv, Gated, Badged, inputs
  <2>4. QED
    BY <1>0, <2>1, <2>2, <2>3 DEF IInv, Composed, Gated, Badged, Verdicts
<1>3. CASE EndOfProviders
  <2>1. /\ pc = "providers" /\ turn \notin DOMAIN Providers
        /\ pc' = IF failed THEN "badge" ELSE "aggregate"
        /\ UNCHANGED <<files, lastWriter, packaged, inputs, failed>>
        /\ UNCHANGED <<consumed, evidence, verdict, badge, rendered>>
    BY <1>3 DEF EndOfProviders
  <2>2. \A i \in DOMAIN Providers : i < turn
    <3>1. turn \in 1 .. Len(Providers) + 1
      BY DEF IInv, TypeOK
    <3>2. QED
      BY <2>1, <3>1, FirstAndLastTurn
  <2>3. Progress'
    <3> SUFFICES ASSUME ~failed, NEW p \in configured PROVE Settled(p)'
      BY <2>1 DEF Progress, inputs
    <3>1. PICK i \in DOMAIN Providers : p = Providers[i]
      BY DEF IInv, TypeOK, Provider
    <3>2. Settled(p)
      BY <2>1, <2>2, <3>1 DEF IInv, Progress
    <3>3. QED
      BY <2>1, <3>2, QuietSteps
  <2>4. verdict' = "" /\ ~rendered' /\ UNCHANGED goodLabel
    BY <2>1 DEF IInv, Gated, Badged, inputs
  <2>5. QED
    BY <1>0, <2>1, <2>3, <2>4 DEF IInv, Composed, Gated, Badged, Verdicts
<1>4. CASE AggregateRefuses
  <2>1. /\ pc = "aggregate" /\ pc' = "badge" /\ failed' /\ verdict' = "INVALID"
        /\ rendered' = rendered
    BY <1>4 DEF AggregateRefuses
  <2>2. QED
    BY <1>0, <2>1 DEF IInv, Progress, Composed, Gated, Badged, Verdicts
<1>5. CASE AggregateDies
  <2>1. /\ pc = "aggregate" /\ pc' = "badge" /\ failed' /\ verdict' = verdict
        /\ rendered' = rendered
    BY <1>5 DEF AggregateDies
  <2>2. QED
    BY <1>0, <2>1 DEF IInv, Progress, Composed, Gated, Badged, Verdicts
<1>6. CASE AggregateComposes
  <2>1. /\ pc = "aggregate" /\ pc' = "badge" /\ rendered' = rendered
        /\ ~AggregateErrors(Listed, required, optional)
        /\ consumed' = Listed
        /\ evidence' = {"aggregate", "receipt", "manifest"}
        /\ verdict' = AggregateVerdict(LoadedVerdicts(Listed), required)
        /\ failed' = ~GateAccepts(verdict')
        /\ UNCHANGED <<files, lastWriter, packaged, inputs>>
    BY <1>6 DEF AggregateComposes
  <2>2. /\ configured' = configured /\ required' = required
        /\ optional' = optional /\ failOnUnknown' = failOnUnknown
    BY <2>1 DEF inputs
  <2>3. Composed'
    <3>1. \A p \in configured : Settled(p)'
      BY <2>1, QuietSteps DEF IInv, Progress
    <3>2. Listed' = Listed
      BY <2>1, QuietSteps
    <3>3. QED
      BY <2>1, <2>2, <3>1, <3>2 DEF Composed
  <2>4. Gated'
    BY <2>1, <2>2, VerdictIsOne DEF Gated, GateAccepts
  <2>5. Progress' /\ Badged'
    BY <2>1 DEF IInv, Progress, Badged
  <2>6. QED
    BY <1>0, <2>3, <2>4, <2>5 DEF IInv
<1>7. ASSUME pc = "badge", pc' = "done",
             UNCHANGED <<files, lastWriter, packaged, inputs>>,
             UNCHANGED <<consumed, evidence, verdict>>
      PROVE  Progress' /\ Composed'
  <2>1. /\ configured' = configured /\ required' = required
        /\ optional' = optional
    BY <1>7 DEF inputs
  <2>2. Listed' = Listed /\ \A p : Settled(p)' <=> Settled(p)
    BY <1>7, QuietSteps
  <2>3. Composed'
    BY <1>7, <2>1, <2>2 DEF IInv, Composed
  <2>4. QED
    BY <1>7, <2>3 DEF Progress
<1>8. CASE RenderBadge
  <2>1. Progress' /\ Composed'
    BY <1>7, <1>8 DEF RenderBadge
  <2>2. Gated' /\ Badged'
    BY <1>8 DEF RenderBadge, IInv, Gated, Badged, GateAccepts, BadgeVerdict, inputs
  <2>3. QED
    BY <1>0, <2>1, <2>2 DEF IInv
<1>9. CASE BadgeFails
  <2>1. Progress' /\ Composed'
    BY <1>7, <1>9 DEF BadgeFails
  <2>2. BadgeVerdict \in BadgeStates
    BY DEF IInv, TypeOK, BadgeVerdict, BadgeStates
  <2>3. Gated' /\ Badged'
    BY <1>9, <2>2 DEF BadgeFails, IInv, Gated, Badged, inputs
  <2>4. QED
    BY <1>0, <2>1, <2>3 DEF IInv
<1>10. CASE UNCHANGED vars
  <2>1. Listed' = Listed /\ \A p : Settled(p)' <=> Settled(p)
    BY <1>10, QuietSteps DEF vars
  <2>2. Composed' /\ Progress'
    BY <1>10, <2>1 DEF vars, inputs, IInv, Composed, Progress
  <2>3. Gated' /\ Badged'
    BY <1>10 DEF vars, inputs, IInv, Gated, Badged, GateAccepts, BadgeVerdict
  <2>4. QED
    BY <1>0, <2>2, <2>3 DEF IInv
<1>11. QED
  BY <1>1, <1>2, <1>3, <1>4, <1>5, <1>6, <1>8, <1>9, <1>10 DEF Next

THEOREM Inductive == Spec => []IInv
<1>1. IInv /\ [Next]_vars => IInv'
  BY IInvStep
<1>2. QED
  BY <1>1, InitIInv, PTL DEF Spec

(***************************************************************************)
(* The properties.                                                         *)
(***************************************************************************)

\* What is listed without an error are documents.
LEMMA ListedAreDocuments ==
    ASSUME TypeOK, ~FileErrors(Listed)
    PROVE  \A d \in Loaded(Listed) : d \in Documents
<1> SUFFICES ASSUME NEW f \in DOMAIN Listed
             PROVE  Listed[f].content \in Documents
  BY DEF Loaded
<1>1. f \in Ids /\ Listed[f].content = files[f]
  BY DEF Listed, TypeOK, Ids
<1>2. files[f] \in Documents \cup {NoFile, Malformed}
  BY <1>1 DEF TypeOK
<1>3. Listed[f].content.kind = "check"
  BY DEF FileErrors
<1>4. NoFile.kind # "check" /\ Malformed.kind # "check"
  BY DEF NoFile, Malformed
<1>5. QED
  BY <1>1, <1>2, <1>3, <1>4

\* What an established aggregate has consumed.
LEMMA Facts ==
    ASSUME IInv, verdict \in Verdicts
    PROVE  /\ consumed = Listed
           /\ ~FileErrors(consumed) /\ ~DeclarationErrors(consumed, required, optional)
           /\ \A d \in Loaded(consumed) : d \in Documents
           /\ \A id \in DOMAIN LoadedVerdicts(consumed) :
                 /\ LoadedVerdicts(consumed)[id] \in Verdicts
                 /\ CheckResult(id, LoadedVerdicts(consumed)[id]) \in Consumed
           /\ verdict = AggregateVerdict(LoadedVerdicts(consumed), required)
<1>1. /\ consumed = Listed
      /\ verdict = AggregateVerdict(LoadedVerdicts(consumed), required)
      /\ ~FileErrors(consumed) /\ ~DeclarationErrors(consumed, required, optional)
  BY DEF IInv, Composed, AggregateErrors
<1>2. \A d \in Loaded(consumed) : d \in Documents
  BY <1>1, ListedAreDocuments DEF IInv
<1>3. QED
  BY <1>1, <1>2, LoadedVerdictsAre DEF Consumed

\* A PASS badge proves that every required check was consumed with PASS, that
\* every provider with a command had its check packaged, and that the
\* aggregate's evidence is complete.
THEOREM PassIsEarned == Spec => []BadgeIsEarned
<1>1. ASSUME IInv PROVE BadgeIsEarned
  <2> SUFFICES ASSUME rendered, badge = "PASS"
               PROVE  /\ \A id \in required : CheckResult(id, "PASS") \in Consumed
                      /\ \A p \in configured : packaged[p] # NoFile
                      /\ evidence = {"aggregate", "receipt", "manifest"}
    BY DEF BadgeIsEarned
  <2>1. verdict = "PASS"
    BY <1>1 DEF IInv, Badged, BadgeVerdict
  <2>2. verdict \in Verdicts
    BY <2>1 DEF Verdicts
  <2>3. \A id \in required : CheckResult(id, "PASS") \in Consumed
    BY <1>1, <2>1, <2>2, Facts, PassMeansAll
  <2>4. QED
    BY <1>1, <2>2, <2>3 DEF IInv, Composed, Settled
<1>2. QED
  BY <1>1, Inductive, PTL

\* An established aggregate consumed, for every provider with a command, the
\* check that run-check packaged for it, unless a later provider changed that
\* provider's result file.
THEOREM PackagedIsConsumed == Spec => []ConsumedIsPackaged
<1>1. ASSUME IInv PROVE ConsumedIsPackaged
  <2> SUFFICES ASSUME verdict \in Verdicts, NEW p \in configured, ~ChangedLater(p)
               PROVE  /\ packaged[p] # NoFile
                      /\ packaged[p] \in Consumed
                      /\ \A c \in Consumed : c.id = p => c = packaged[p]
    BY DEF ConsumedIsPackaged, AggregateIsEstablished
  <2>1. packaged[p] # NoFile /\ packaged[p] = files[p]
    BY <1>1 DEF IInv, Composed, Settled
  <2>2. p \in DOMAIN Listed /\ Listed[p].content = files[p]
    BY DEF Listed
  <2>3. packaged[p] \in Consumed
    BY <1>1, <2>1, <2>2, Facts DEF Consumed, Loaded
  <2>4. packaged[p].id = p
    BY <1>1, <2>1 DEF IInv, TypeOK
  <2>5. QED
    BY <1>1, <2>1, <2>3, <2>4, Facts, LoadedOnce DEF Consumed
<1>2. QED
  BY <1>1, Inductive, PTL

\* A green job has rendered a PASS badge or a tolerated UNKNOWN one, with
\* complete evidence.
THEOREM GreenJobIsJustified == Spec => []GreenJob
<1>1. ASSUME IInv PROVE GreenJob
  <2> SUFFICES ASSUME pc = "done", ~failed
               PROVE  /\ rendered
                      /\ badge = "PASS" \/ (badge = "UNKNOWN" /\ ~failOnUnknown)
                      /\ evidence = {"aggregate", "receipt", "manifest"}
    BY DEF GreenJob
  <2>1. rendered /\ verdict \in Verdicts /\ GateAccepts(verdict)
    BY <1>1 DEF IInv, Gated, Badged
  <2>2. badge = verdict
    BY <1>1, <2>1 DEF IInv, Badged, BadgeVerdict, Verdicts
  <2>3. QED
    BY <1>1, <2>1, <2>2 DEF IInv, Composed, GateAccepts
<1>2. QED
  BY <1>1, Inductive, PTL

\* With a valid label, and but for the renderer's refusals that are not
\* modelled, every job replaces the badge, and INVALID stands for exactly the
\* jobs without an established aggregate.
THEOREM BadgeIsReplaced == Spec => []BadgeIsCurrent
<1>1. ASSUME IInv PROVE BadgeIsCurrent
  <2> SUFFICES ASSUME pc = "done", goodLabel
               PROVE  rendered /\ (badge = "INVALID" <=> verdict \notin Verdicts)
    BY DEF BadgeIsCurrent, AggregateIsEstablished
  <2>1. rendered /\ badge = BadgeVerdict
    BY <1>1 DEF IInv, Badged
  <2>2. verdict \in Verdicts \cup {"INVALID", ""}
    BY <1>1 DEF IInv, TypeOK, BadgeStates
  <2>3. QED
    BY <2>1, <2>2 DEF BadgeVerdict, Verdicts
<1>2. QED
  BY <1>1, Inductive, PTL

\* Every consumed check was declared, and one that is not PASS is reported or
\* has decided the verdict; missing required coverage is reported.
THEOREM NothingIsHidden == Spec => []NothingHidden
<1>1. ASSUME IInv PROVE NothingHidden
  <2> DEFINE verdicts == LoadedVerdicts(consumed)
             reported == Unresolved(verdicts, required, optional)
  <2> SUFFICES ASSUME verdict \in Verdicts
               PROVE  /\ \A c \in Consumed :
                            /\ c.id \in required \cup optional
                            /\ c.verdict # "PASS" =>
                                  \/ c.id \in reported
                                  \/ (c.verdict = "FAIL" /\ verdict = "FAIL")
                      /\ required \ DOMAIN verdicts \subseteq reported
    BY DEF NothingHidden, AggregateIsEstablished
  <2>1. ASSUME NEW c \in Consumed
        PROVE  /\ c.id \in required \cup optional
               /\ c.verdict # "PASS" =>
                     \/ c.id \in reported
                     \/ (c.verdict = "FAIL" /\ verdict = "FAIL")
    <3>1. c \in Loaded(consumed) /\ c \in Documents
      BY <1>1, <2>1, Facts DEF Consumed
    <3>2. c.kind = "check" /\ c.verdict \in Verdicts
      BY <3>1 DEF Documents, CheckResult
    <3>3. c.id \in required \cup optional
      BY <1>1, <3>1, <3>2, Facts DEF DeclarationErrors
    <3>4. c.id \in DOMAIN verdicts /\ verdicts[c.id] = c.verdict
      BY <1>1, <3>1, Facts, LoadedAreVerdicts
    <3>5. CASE c.verdict = "FAIL" /\ c.id \in required
      <4>1. AggregateVerdict(verdicts, required) = "FAIL"
        BY <3>4, <3>5 DEF AggregateVerdict, Has
      <4>2. QED
        BY <1>1, <3>3, <3>5, <4>1, Facts
    <3>6. CASE c.verdict # "PASS" /\ ~(c.verdict = "FAIL" /\ c.id \in required)
      <4>1. c.id \in reported
        BY <3>2, <3>3, <3>4, <3>6 DEF Unresolved, Has, Verdicts
      <4>2. QED
        BY <3>3, <4>1
    <3>7. QED
      BY <3>3, <3>5, <3>6
  <2>2. required \ DOMAIN verdicts \subseteq reported
    BY DEF Unresolved, Missing
  <2>3. QED
    BY <2>1, <2>2
<1>2. QED
  BY <1>1, Inductive, PTL

\* Worse evidence never betters the verdict: neither a worse verdict of one
\* consumed check nor leaving out one that is not FAIL.
THEOREM WorseIsWorse == Spec => []WorseIsNeverBetter
<1>1. ASSUME IInv PROVE WorseIsNeverBetter
  <2> SUFFICES ASSUME verdict \in Verdicts,
                      NEW id \in DOMAIN LoadedVerdicts(consumed)
               PROVE  /\ \A v \in Verdicts :
                            Rank(v) <= Rank(LoadedVerdicts(consumed)[id]) =>
                              Rank(AggregateVerdict(
                                 [LoadedVerdicts(consumed) EXCEPT ![id] = v],
                                 required)) <= Rank(verdict)
                      /\ LoadedVerdicts(consumed)[id] # "FAIL" =>
                            Rank(AggregateVerdict(
                               [x \in DOMAIN LoadedVerdicts(consumed) \ {id} |->
                                  LoadedVerdicts(consumed)[x]],
                               required)) <= Rank(verdict)
    BY DEF WorseIsNeverBetter, AggregateIsEstablished
  <2>1. /\ \A x \in DOMAIN LoadedVerdicts(consumed) :
              LoadedVerdicts(consumed)[x] \in Verdicts
        /\ verdict = AggregateVerdict(LoadedVerdicts(consumed), required)
    BY <1>1, Facts
  <2>2. QED
    BY <2>1, WorseChange, LeavingOut
<1>2. QED
  BY <1>1, Inductive, PTL
=============================================================================
