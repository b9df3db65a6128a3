----------------------- MODULE ExternalEvidenceProofs -----------------------
(***************************************************************************)
(* Proofs about the external-evidence policy and about the ambient passes  *)
(* that use it.                                                            *)
(*                                                                         *)
(* The policy.  build_result is the last value of a recursive function     *)
(* over the obligations of the request.  Decided and Queued say what that  *)
(* function has built after n of them - which are marked deferred, how     *)
(* long the queue is and who stands where in it - and BudgetStep carries   *)
(* both over one more, so that Induction yields ResultSummed for requests  *)
(* of any length and any budget.                                           *)
(*                                                                         *)
(* The passes.  IInv adds to the properties what makes them inductive:     *)
(* staged evidence and the decisions of a pass name completed runs (which  *)
(* never change again); a claim stands for every run that is not listed    *)
(* and for every listing a pass under way has missed, so a host that finds *)
(* no claim has seen all there is to see, and as long as it is the only    *)
(* one to hold the claim there is no more to be seen - or the identity is  *)
(* one whose claim was lost, and nothing is promised of it.                *)
(***************************************************************************)
EXTENDS AmbientEvidence, PolicyRequests, WellFoundedInduction,
        SequenceTheorems, FiniteSetTheorems, FunctionTheorems, TLAPS

-----------------------------------------------------------------------------
(* Induction, and the recursive function of build_result.                  *)

\* Induction over the naturals, with the property as a set.
LEMMA Induction ==
    ASSUME NEW S, 0 \in S, \A n \in Nat : n \in S => n + 1 \in S
    PROVE  Nat \subseteq S
<1> DEFINE Rest == Nat \ S
           less == {pair \in Nat \X Nat : pair[1] < pair[2]}
<1>1. IsWellFoundedOn(less, Nat)
    BY NatLessThanWellFounded DEF OpToRel
<1>2. Rest = {}
  <2> SUFFICES ASSUME Rest # {}
               PROVE  FALSE
      OBVIOUS
  <2>1. PICK x \in Rest : \A y \in Rest : ~ (<<y, x>> \in less)
      <3> HIDE DEF less
      <3> QED  BY <1>1, WFMin, Rest \subseteq Nat
  <2>2. x # 0 /\ x - 1 \in Nat /\ <<x - 1, x>> \in less
      OBVIOUS
  <2>3. x - 1 \in S
      BY <2>1, <2>2
  <2> QED
      BY <2>2, <2>3
<1> QED
    BY <1>2

\* The accumulators of build_result, one per prefix of the obligations.
Accumulates(f, obs, max) ==
    f = [n \in 0..Len(obs) |-> IF n = 0 THEN AccumulatorEmpty
                               ELSE Accumulate(f[n - 1], obs[n], max)]

\* There are such accumulators: the recursion of build_result is sound.
LEMMA AccumulatorsExist ==
    ASSUME NEW P, NEW obs \in Seq(P), NEW max
    PROVE  \E f : Accumulates(f, obs, max)
<1> DEFINE upto(n) ==
             \E f : f = [i \in 0..n |-> IF i = 0 THEN AccumulatorEmpty
                                        ELSE Accumulate(f[i - 1], obs[i], max)]
           good == {n \in Nat : upto(n)}
<1>1. upto(0)
  <2> DEFINE f == [i \in {0} |-> AccumulatorEmpty]
             h == [i \in {0} |-> IF i = 0 THEN AccumulatorEmpty
                                 ELSE Accumulate(f[i - 1], obs[i], max)]
  <2>1. f = h
      OBVIOUS
  <2>2. 0..0 = {0}
      OBVIOUS
  <2> QED  BY <2>1, <2>2, Zenon
<1>2. ASSUME NEW n \in Nat, upto(n)
      PROVE  upto(n + 1)
  <2>1. PICK f : f = [i \in 0..n |-> IF i = 0 THEN AccumulatorEmpty
                                     ELSE Accumulate(f[i - 1], obs[i], max)]
      BY <1>2
  <2> DEFINE g == [i \in 0..n + 1 |-> IF i <= n THEN f[i]
                                      ELSE Accumulate(f[i - 1], obs[i], max)]
             h == [i \in 0..n + 1 |-> IF i = 0 THEN AccumulatorEmpty
                                      ELSE Accumulate(g[i - 1], obs[i], max)]
  <2>2. ASSUME NEW i \in 0..n + 1
        PROVE  g[i] = h[i]
    <3>1. CASE i <= n
      <4> DEFINE fi == IF i = 0 THEN AccumulatorEmpty
                       ELSE Accumulate(f[i - 1], obs[i], max)
      <4>0. i \in 0..n
          BY <3>1
      <4>3. f[i] = fi
        <5> HIDE DEF g, h
        <5> QED  BY <2>1, <4>0, Zenon
      <4>1. g[i] = f[i] /\ f[i] = fi
          BY <4>3, <3>1
      <4>2. i # 0 => i - 1 \in 0..n + 1 /\ g[i - 1] = f[i - 1]
          BY <3>1
      <4> QED  BY <4>1, <4>2
    <3>2. CASE i = n + 1
      <4>1. g[i] = Accumulate(f[i - 1], obs[i], max)
          BY <3>2
      <4>2. i # 0 /\ i - 1 \in 0..n + 1 /\ g[i - 1] = f[i - 1]
          BY <3>2
      <4> QED  BY <4>1, <4>2
    <3> QED  BY <3>1, <3>2
  <2>3. g = h
      BY <2>2
  <2> QED  BY <2>3
<1>3. Nat \subseteq good
  <2> SUFFICES 0 \in good /\ \A n \in Nat : n \in good => n + 1 \in good
      BY Induction
  <2> HIDE DEF upto
  <2> QED  BY <1>1, <1>2
<1>4. Len(obs) \in Nat
    OBVIOUS
<1> QED
    BY <1>3, <1>4 DEF Accumulates

\* What build_result makes of the last accumulator.
ResultOf(acc, obs) ==
    [decisions |-> acc.decisions,
     dispatch_queue |-> acc.queue,
     summary |-> [obligations |-> Len(obs),
                  current |-> acc.count["current"],
                  dispatch_queued |-> Len(acc.queue),
                  pending |-> acc.count["pending"],
                  deferred |-> acc.deferred,
                  unsupported |-> acc.count["unsupported"],
                  escalated |-> acc.count["escalated"]]]

LEMMA ResultBuilt ==
    ASSUME NEW P, NEW req, req.obligations \in Seq(P)
    PROVE  \E f : /\ Accumulates(f, req.obligations, req.max_dispatches)
                  /\ BuildResult(req) =
                         ResultOf(f[Len(req.obligations)], req.obligations)
<1> DEFINE obs == req.obligations
           F == CHOOSE f : Accumulates(f, obs, req.max_dispatches)
<1>1. Accumulates(F, obs, req.max_dispatches)
    BY AccumulatorsExist
<1>2. BuildResult(req) = ResultOf(F[Len(obs)], obs)
    BY DEF BuildResult, ResultOf, Accumulates
<1> QED
    BY <1>1, <1>2

\* The step of the recursion.
LEMMA AccumulatorAt ==
    ASSUME NEW P, NEW obs \in Seq(P), NEW max, NEW f, Accumulates(f, obs, max)
    PROVE  /\ f[0] = AccumulatorEmpty
           /\ \A n \in Nat : n < Len(obs) =>
                 f[n + 1] = Accumulate(f[n], obs[n + 1], max)
<1> DEFINE at(n) == IF n = 0 THEN AccumulatorEmpty
                    ELSE Accumulate(f[n - 1], obs[n], max)
<1>1. \A n \in 0..Len(obs) : f[n] = at(n)
    BY Zenon DEF Accumulates
<1>2. Len(obs) \in Nat
    OBVIOUS
<1>3. 0 \in 0..Len(obs)
    BY <1>2
<1>4. ASSUME NEW n \in Nat, n < Len(obs)
      PROVE  n + 1 \in 0..Len(obs) /\ n + 1 # 0 /\ (n + 1) - 1 = n
    BY <1>2, <1>4
<1> QED
    BY <1>1, <1>3, <1>4
-----------------------------------------------------------------------------
(* One decision.                                                           *)

\* The decision as build_result records it, with its deferred mark.
Marked(o, mark) == [EvaluateObligation(o) EXCEPT !.deferred = mark]

\* The mark is all that build_result changes of a decision.
LEMMA MarkedDecision ==
    ASSUME NEW o, NEW mark
    PROVE  /\ Marked(o, mark).obligation = o.obligation
           /\ Marked(o, mark).status = EvaluateObligation(o).status
           /\ Marked(o, mark).reason = EvaluateObligation(o).reason
           /\ Marked(o, mark).verdict = EvaluateObligation(o).verdict
           /\ Marked(o, mark).run_identity = EvaluateObligation(o).run_identity
           /\ Marked(o, mark).deferred = mark
<1> DEFINE Fields == {"obligation", "status", "reason", "operation", "deferred",
                      "verdict", "claim", "run_identity"}
           shaped(e) == DOMAIN e = Fields /\ e.obligation = o.obligation
<1>1. \A s, r, p, d : shaped(Decision(o, s, r, p, d))
    BY DEF Decision
<1>2. \A s, r, p : shaped(OfRun(o, s, r, p))
    BY <1>1 DEF OfRun
<1>3. \A s, r : shaped(Refusal(o, s, r))
    BY <1>1 DEF Refusal
<1>4. shaped(DecideCurrent(o))
    BY <1>3 DEF DecideCurrent
<1>5. shaped(EvaluateObligation(o))
  <2> HIDE DEF shaped
  <2> QED  BY <1>1, <1>2, <1>3, <1>4 DEF EvaluateObligation, Unroutable
<1> QED
    BY <1>5 DEF Marked

LEMMA MarkedEither ==
    ASSUME NEW o, NEW mark \in BOOLEAN
    PROVE  Marked(o, mark) = IF mark THEN Marked(o, TRUE) ELSE Marked(o, FALSE)
<1>1. CASE mark = TRUE
    BY <1>1, Zenon
<1>2. CASE mark = FALSE
    BY <1>2, Zenon
<1> QED
    BY <1>1, <1>2

\* The statuses of an obligation, one early return after the other: what is
\* dispatched, what is current, and what names a finished run.
LEMMA DispatchedDecision ==
    ASSUME NEW o, EvaluateObligation(o).status = "dispatch_eligible"
    PROVE  /\ Routable(o)
           /\ ~Admits(o)
           /\ ~(Bound(o) /\ o.run.state = "in_progress")
           /\ \/ Bound(o) /\ RunFailed(o)
              \/ ~o.attempts_exhausted /\ o.remote_available
                 /\ ~(Bound(o) /\ o.run.state = "completed")
<1>1. Routable(o)
    BY DEF EvaluateObligation, Unroutable, Refusal, Decision
<1> QED
    BY <1>1 DEF EvaluateObligation, DecideCurrent, OfRun, Refusal, Decision

LEMMA CurrentDecision ==
    ASSUME NEW o, EvaluateObligation(o).status = "current"
    PROVE  /\ Admits(o)
           /\ EvaluateObligation(o).verdict = o.evidence.verdict
           /\ EvaluateObligation(o).run_identity = o.evidence.run_identity
<1>1. Routable(o)
    BY DEF EvaluateObligation, Unroutable, Refusal, Decision
<1>2. Admits(o)
    BY <1>1 DEF EvaluateObligation, DecideCurrent, OfRun, Refusal, Decision
<1> QED
    BY <1>1, <1>2 DEF EvaluateObligation, DecideCurrent, Refusal, Decision

LEMMA FinishedDecision ==
    ASSUME NEW o,
           EvaluateObligation(o).reason \in {"run_completed_unadmitted", "run_failed"}
    PROVE  /\ Bound(o) /\ o.run.state = "completed"
           /\ EvaluateObligation(o).run_identity = o.run.run_identity
<1>1. Routable(o)
    BY DEF EvaluateObligation, Unroutable, Refusal, Decision
<1>2. Bound(o) /\ o.run.state = "completed"
    BY <1>1 DEF EvaluateObligation, DecideCurrent, OfRun, Refusal, Decision,
                StaleReason, RunFailed
<1> QED
    BY <1>1, <1>2 DEF EvaluateObligation, DecideCurrent, OfRun, Refusal, Decision,
                      StaleReason, RunFailed

-----------------------------------------------------------------------------
(* The loop of build_result.                                               *)

IsEligible(o) == EvaluateObligation(o).status = "dispatch_eligible"

\* The eligible obligations among the first n, and those of them the budget
\* reaches.
EligibleIn(obs, n) == {k \in 1..n : IsEligible(obs[k])}
AdmittedIn(obs, max, n) ==
    {k \in EligibleIn(obs, n) : Cardinality(EligibleIn(obs, k - 1)) < max}

LEMMA EligibleCounts ==
    ASSUME NEW obs, NEW n \in Nat
    PROVE  /\ IsFiniteSet(EligibleIn(obs, n))
           /\ Cardinality(EligibleIn(obs, n)) \in Nat
           /\ IsEligible(obs[n + 1]) =>
                 /\ EligibleIn(obs, n + 1) = EligibleIn(obs, n) \cup {n + 1}
                 /\ Cardinality(EligibleIn(obs, n + 1)) =
                        Cardinality(EligibleIn(obs, n)) + 1
           /\ ~IsEligible(obs[n + 1]) =>
                 EligibleIn(obs, n + 1) = EligibleIn(obs, n)
<1>1. IsFiniteSet(1..n)
    BY FS_Interval
<1>2. EligibleIn(obs, n) \subseteq 1..n
    BY DEF EligibleIn
<1>3. IsFiniteSet(EligibleIn(obs, n))
    BY <1>1, <1>2, FS_Subset
<1>4. 1..(n + 1) = (1..n) \cup {n + 1} /\ n + 1 \notin 1..n
    OBVIOUS
<1>5. IsEligible(obs[n + 1]) => EligibleIn(obs, n + 1) = EligibleIn(obs, n) \cup {n + 1}
    BY <1>4, Zenon DEF EligibleIn
<1>6. ~IsEligible(obs[n + 1]) => EligibleIn(obs, n + 1) = EligibleIn(obs, n)
    BY <1>4, Zenon DEF EligibleIn
<1>7. n + 1 \notin EligibleIn(obs, n)
    BY <1>2, <1>4
<1> QED
    BY <1>3, <1>5, <1>6, <1>7, FS_CardinalityType, FS_AddElement

LEMMA AdmittedCounts ==
    ASSUME NEW obs, NEW max \in Nat, NEW n \in Nat
    PROVE  /\ IsFiniteSet(AdmittedIn(obs, max, n))
           /\ Cardinality(AdmittedIn(obs, max, n)) \in Nat
           /\ IsEligible(obs[n + 1]) /\ Cardinality(EligibleIn(obs, n)) < max =>
                 /\ AdmittedIn(obs, max, n + 1) = AdmittedIn(obs, max, n) \cup {n + 1}
                 /\ Cardinality(AdmittedIn(obs, max, n + 1)) =
                        Cardinality(AdmittedIn(obs, max, n)) + 1
           /\ ~(IsEligible(obs[n + 1]) /\ Cardinality(EligibleIn(obs, n)) < max) =>
                 AdmittedIn(obs, max, n + 1) = AdmittedIn(obs, max, n)
<1> DEFINE fits(k) == Cardinality(EligibleIn(obs, k - 1)) < max
<1>1. IsFiniteSet(EligibleIn(obs, n))
    BY EligibleCounts
<1>2. AdmittedIn(obs, max, n) \subseteq EligibleIn(obs, n)
    BY DEF AdmittedIn
<1>3. IsFiniteSet(AdmittedIn(obs, max, n))
    BY <1>1, <1>2, FS_Subset
<1>4. 1..(n + 1) = (1..n) \cup {n + 1} /\ n + 1 \notin 1..n /\ (n + 1) - 1 = n
    OBVIOUS
<1>8. /\ AdmittedIn(obs, max, n) = {k \in 1..n : IsEligible(obs[k]) /\ fits(k)}
      /\ AdmittedIn(obs, max, n + 1) =
             {k \in 1..(n + 1) : IsEligible(obs[k]) /\ fits(k)}
    BY Zenon DEF AdmittedIn, EligibleIn
<1>9. fits(n + 1) <=> Cardinality(EligibleIn(obs, n)) < max
    BY <1>4, Zenon
<1> HIDE DEF fits
<1>5. IsEligible(obs[n + 1]) /\ fits(n + 1) =>
          AdmittedIn(obs, max, n + 1) = AdmittedIn(obs, max, n) \cup {n + 1}
    BY <1>4, <1>8, Zenon
<1>6. ~(IsEligible(obs[n + 1]) /\ fits(n + 1)) =>
          AdmittedIn(obs, max, n + 1) = AdmittedIn(obs, max, n)
    BY <1>4, <1>8, Zenon
<1>7. n + 1 \notin AdmittedIn(obs, max, n)
    BY <1>4, <1>8
<1> QED
    BY <1>3, <1>5, <1>6, <1>7, <1>9, FS_CardinalityType, FS_AddElement

\* What the accumulator holds after n obligations.
DecisionsOn(P) == {Marked(o, TRUE) : o \in P} \cup {Marked(o, FALSE) : o \in P}
NamesOf(P)     == {o.obligation : o \in P}

Decided(decisions, P, obs, max, n) ==
    /\ decisions \in Seq(DecisionsOn(P))
    /\ Len(decisions) = n
    /\ \A k \in 1..n :
          decisions[k] = IF k \in EligibleIn(obs, n) \ AdmittedIn(obs, max, n)
                         THEN Marked(obs[k], TRUE) ELSE Marked(obs[k], FALSE)

\* The place in the queue of obligation k, when the budget reaches it.
Place(obs, k) == Cardinality(EligibleIn(obs, k - 1)) + 1

Queued(queue, P, obs, max, n) ==
    /\ queue \in Seq(NamesOf(P))
    /\ Len(queue) = Cardinality(AdmittedIn(obs, max, n))
    /\ Len(queue) = IF Cardinality(EligibleIn(obs, n)) < max
                    THEN Cardinality(EligibleIn(obs, n)) ELSE max
    /\ \A k \in AdmittedIn(obs, max, n) :
          Place(obs, k) \in 1..Len(queue) /\ queue[Place(obs, k)] = obs[k].obligation
    /\ \A i \in 1..Len(queue) : \E k \in AdmittedIn(obs, max, n) :
          queue[i] = obs[k].obligation

Summed(acc, P, obs, max, n) ==
    /\ Decided(acc.decisions, P, obs, max, n)
    /\ Queued(acc.queue, P, obs, max, n)

LEMMA SummedAtFirst ==
    ASSUME NEW P, NEW obs \in Seq(P), NEW max \in Nat
    PROVE  Summed(AccumulatorEmpty, P, obs, max, 0)
<1>1. EligibleIn(obs, 0) = {} /\ AdmittedIn(obs, max, 0) = {}
    BY 1..0 = {} DEF EligibleIn, AdmittedIn
<1>2. Cardinality({}) = 0
    BY FS_EmptySet
<1>3. \A S : << >> \in Seq(S)
    BY EmptySeq
<1>4. Len(<< >>) = 0 /\ 1..0 = {} /\ 0 <= max
    OBVIOUS
<1>5. Decided(<< >>, P, obs, max, 0)
    BY <1>3, <1>4 DEF Decided
<1>6. Queued(<< >>, P, obs, max, 0)
  <2>1. Len(<< >>) = IF 0 < max THEN 0 ELSE max
      BY <1>4
  <2>2. \A i \in 1..Len(<< >>) : FALSE
      BY <1>4
  <2> QED  BY <1>1, <1>2, <1>3, <1>4, <2>1, <2>2, Zenon DEF Queued
<1> QED
    BY <1>5, <1>6 DEF Summed, AccumulatorEmpty

\* The budget, before and after one obligation.
LEMMA BudgetStep ==
    ASSUME NEW count \in Nat, NEW max \in Nat, NEW eligible \in BOOLEAN,
           NEW new \in Nat, NEW len,
           len = IF count < max THEN count ELSE max,
           eligible => new = count + 1, ~eligible => new = count
    PROVE  /\ len \in Nat
           /\ len < max <=> count < max
           /\ eligible /\ count < max =>
                 len = count /\ len + 1 = IF new < max THEN new ELSE max
           /\ ~(eligible /\ count < max) => len = IF new < max THEN new ELSE max
    OBVIOUS

LEMMA SummedNext ==
    ASSUME NEW P, NEW obs \in Seq(P), NEW max \in Nat,
           NEW n \in Nat, n < Len(obs),
           NEW acc, Summed(acc, P, obs, max, n)
    PROVE  Summed(Accumulate(acc, obs[n + 1], max), P, obs, max, n + 1)
<1> DEFINE o == obs[n + 1]
           count == Cardinality(EligibleIn(obs, n))
           fits == IsEligible(o) /\ count < max
           mark == IsEligible(o) /\ ~fits
           last == IF mark THEN Marked(o, TRUE) ELSE Marked(o, FALSE)
           decisions == Append(acc.decisions, last)
           queue == IF fits THEN Append(acc.queue, o.obligation) ELSE acc.queue
           Adm == AdmittedIn(obs, max, n)
           Adm1 == AdmittedIn(obs, max, n + 1)
           Eli == EligibleIn(obs, n)
           Eli1 == EligibleIn(obs, n + 1)
<1>1. o \in P
    BY ElementOfSeq
<1>2. Decided(acc.decisions, P, obs, max, n) /\ Queued(acc.queue, P, obs, max, n)
    BY DEF Summed
<1>4. count \in Nat /\ Cardinality(Eli1) \in Nat
    BY EligibleCounts
<1>7. /\ IsEligible(o) => Eli1 = Eli \cup {n + 1} /\ Cardinality(Eli1) = count + 1
      /\ ~IsEligible(o) => Eli1 = Eli /\ Cardinality(Eli1) = count
    BY EligibleCounts, Zenon
<1>8. /\ fits => Adm1 = Adm \cup {n + 1} /\ Cardinality(Adm1) = Cardinality(Adm) + 1
      /\ ~fits => Adm1 = Adm
    BY AdmittedCounts, ZenonT(60)
<1>5. /\ Len(acc.queue) \in Nat
      /\ Len(acc.queue) < max <=> count < max
      /\ fits => /\ Len(acc.queue) = count
                 /\ Len(acc.queue) + 1 =
                       IF Cardinality(Eli1) < max THEN Cardinality(Eli1) ELSE max
      /\ ~fits => Len(acc.queue) =
                       IF Cardinality(Eli1) < max THEN Cardinality(Eli1) ELSE max
  <2>1. Len(acc.queue) = IF count < max THEN count ELSE max
      BY <1>2, Zenon DEF Queued
  <2>2. IsEligible(o) \in BOOLEAN
      BY DEF IsEligible
  <2> HIDE DEF count, o, Eli1
  <2> QED  BY <1>4, <1>7, <2>1, <2>2, BudgetStep DEF fits
<1>6. /\ Accumulate(acc, o, max).decisions = decisions
      /\ Accumulate(acc, o, max).queue = queue
  <2>1. /\ Accumulate(acc, o, max).decisions = Append(acc.decisions, Marked(o, mark))
        /\ Accumulate(acc, o, max).queue = queue
      BY <1>5, Zenon DEF Accumulate, Queueable, Marked, IsEligible
  <2>2. mark \in BOOLEAN
      OBVIOUS
  <2>3. Marked(o, mark) = last
      BY <2>2, MarkedEither, Zenon
  <2> QED  BY <2>1, <2>3, Zenon
<1>9. Eli \subseteq 1..n /\ Adm \subseteq Eli /\ n + 1 \notin Eli /\ n + 1 \notin Adm
    BY DEF EligibleIn, AdmittedIn
<1>10. n + 1 \in Eli1 \ Adm1 <=> mark
    BY <1>7, <1>8, <1>9
<1>11. \A k \in 1..n : k \in Eli1 \ Adm1 <=> k \in Eli \ Adm
    BY <1>7, <1>8, <1>9
<1>12. Place(obs, n + 1) = count + 1
    BY (n + 1) - 1 = n DEF Place
<1>13. last \in DecisionsOn(P)
    BY <1>1 DEF DecisionsOn
<1> HIDE DEF mark, last, fits, count, Adm, Adm1, Eli, Eli1
<1>14. Decided(decisions, P, obs, max, n + 1)
  <2>1. /\ acc.decisions \in Seq(DecisionsOn(P)) /\ Len(acc.decisions) = n
        /\ \A k \in 1..n : acc.decisions[k] = IF k \in Eli \ Adm THEN Marked(obs[k], TRUE)
                                                               ELSE Marked(obs[k], FALSE)
      BY <1>2, Zenon DEF Decided, Eli, Adm
  <2>2. /\ decisions \in Seq(DecisionsOn(P)) /\ Len(decisions) = n + 1
        /\ \A k \in 1..n : decisions[k] = acc.decisions[k]
        /\ decisions[n + 1] = last
      BY <1>13, <2>1, AppendProperties
  <2>3. ASSUME NEW k \in 1..n + 1
        PROVE  decisions[k] = IF k \in Eli1 \ Adm1 THEN Marked(obs[k], TRUE)
                                                  ELSE Marked(obs[k], FALSE)
    <3>1. CASE k \in 1..n
        BY <3>1, <2>1, <2>2, <1>11, Zenon
    <3>2. CASE k = n + 1
      <4>1. last = IF mark THEN Marked(obs[n + 1], TRUE) ELSE Marked(obs[n + 1], FALSE)
          BY Zenon DEF last
      <4>2. decisions[n + 1] = last
          BY <2>2
      <4> HIDE DEF decisions, o
      <4>3. decisions[n + 1] = IF n + 1 \in Eli1 \ Adm1 THEN Marked(obs[n + 1], TRUE)
                                                        ELSE Marked(obs[n + 1], FALSE)
          BY <4>1, <4>2, <1>10, Zenon
      <4> QED  BY <3>2, <4>3, Zenon
    <3> QED  BY <3>1, <3>2, k \in 1..n \/ k = n + 1, Zenon
  <2> QED  BY <2>2, <2>3, Zenon DEF Decided, Eli1, Adm1
<1>15. Queued(queue, P, obs, max, n + 1)
  <2>1. /\ acc.queue \in Seq(NamesOf(P)) /\ Len(acc.queue) = Cardinality(Adm)
        /\ \A k \in Adm : /\ Place(obs, k) \in 1..Len(acc.queue)
                          /\ acc.queue[Place(obs, k)] = obs[k].obligation
        /\ \A i \in 1..Len(acc.queue) : \E k \in Adm : acc.queue[i] = obs[k].obligation
      BY <1>2, Zenon DEF Queued, Adm
  <2>2. CASE fits
    <3>1. o.obligation \in NamesOf(P)
        BY <1>1 DEF NamesOf
    <3>2. queue = Append(acc.queue, o.obligation)
        BY <2>2
    <3>3. /\ queue \in Seq(NamesOf(P)) /\ Len(queue) = Len(acc.queue) + 1
          /\ \A i \in 1..Len(acc.queue) : queue[i] = acc.queue[i]
          /\ queue[Len(acc.queue) + 1] = o.obligation
      <4> HIDE DEF queue, o
      <4> QED  BY <2>1, <3>1, <3>2, AppendProperties
    <3>4. 1..Len(queue) = (1..Len(acc.queue)) \cup {Len(acc.queue) + 1}
        BY <1>5, <3>3
    <3> HIDE DEF queue, o
    <3>5. \A k \in Adm1 : k \in Adm \/ k = n + 1
        BY <1>8, <2>2
    <3>6. ASSUME NEW k \in Adm1
          PROVE  Place(obs, k) \in 1..Len(queue) /\ queue[Place(obs, k)] = obs[k].obligation
      <4>1. CASE k \in Adm
          BY <4>1, <2>1, <3>3, <3>4
      <4>2. CASE k = n + 1
          BY <4>2, <1>12, <1>5, <2>2, <3>3, <3>4 DEF o
      <4> QED  BY <3>5, <4>1, <4>2
    <3>7. ASSUME NEW i \in 1..Len(queue)
          PROVE  \E k \in Adm1 : queue[i] = obs[k].obligation
      <4>1. CASE i \in 1..Len(acc.queue)
        <5>1. PICK k \in Adm : acc.queue[i] = obs[k].obligation
            BY <4>1, <2>1, Zenon
        <5>2. k \in Adm1 /\ queue[i] = acc.queue[i]
            BY <1>8, <2>2, <3>3, <4>1
        <5> QED  BY <5>1, <5>2
      <4>2. CASE i = Len(acc.queue) + 1
        <5>1. queue[i] = obs[n + 1].obligation
            BY <4>2, <3>3 DEF o
        <5>2. n + 1 \in Adm1
            BY <1>8, <2>2
        <5> QED  BY <5>1, <5>2
      <4> QED  BY <3>4, <4>1, <4>2
    <3>8. Len(queue) = Cardinality(Adm1)
        BY <1>8, <2>1, <2>2, <3>3
    <3>9. Len(queue) = IF Cardinality(Eli1) < max THEN Cardinality(Eli1) ELSE max
        BY <1>5, <2>2, <3>3, Zenon
    <3> QED  BY <3>3, <3>6, <3>7, <3>8, <3>9, Zenon DEF Queued, Adm1, Eli1
  <2>3. CASE ~fits
    <3>1. queue = acc.queue /\ Adm1 = Adm
        BY <1>8, <2>3
    <3>2. Len(acc.queue) = IF Cardinality(Eli1) < max THEN Cardinality(Eli1) ELSE max
        BY <1>5, <2>3, Zenon
    <3> HIDE DEF queue
    <3> QED  BY <2>1, <3>1, <3>2, Zenon DEF Queued, Adm1, Eli1
  <2> QED  BY <2>2, <2>3
<1> QED
    BY <1>6, <1>14, <1>15, Zenon DEF Summed

\* What build_result has done after n obligations, for every request.
LEMMA SummedUp ==
    ASSUME NEW P, NEW obs \in Seq(P), NEW max \in Nat,
           NEW f, Accumulates(f, obs, max)
    PROVE  \A n \in 0..Len(obs) : Summed(f[n], P, obs, max, n)
<1> DEFINE S == {n \in Nat : n <= Len(obs) => Summed(f[n], P, obs, max, n)}
<1>1. 0 \in S
    BY SummedAtFirst, AccumulatorAt
<1>2. ASSUME NEW n \in Nat, n \in S
      PROVE  n + 1 \in S
  <2> SUFFICES ASSUME n + 1 <= Len(obs)
               PROVE  Summed(f[n + 1], P, obs, max, n + 1)
      OBVIOUS
  <2>1. Len(obs) \in Nat /\ n < Len(obs)
      OBVIOUS
  <2>2. Summed(f[n], P, obs, max, n)
      BY <1>2, <2>1
  <2>3. f[n + 1] = Accumulate(f[n], obs[n + 1], max)
      BY <2>1, AccumulatorAt
  <2> QED  BY <2>1, <2>2, <2>3, SummedNext
<1>3. Nat \subseteq S
  <2> HIDE DEF S
  <2> QED  BY <1>1, <1>2, Induction
<1> QED
    BY <1>3

LEMMA ResultSummed ==
    ASSUME NEW P, NEW req, req.obligations \in Seq(P), req.max_dispatches \in Nat
    PROVE  LET obs == req.obligations
               max == req.max_dispatches
           IN  /\ Decided(BuildResult(req).decisions, P, obs, max, Len(obs))
               /\ Queued(BuildResult(req).dispatch_queue, P, obs, max, Len(obs))
<1> DEFINE obs == req.obligations
           max == req.max_dispatches
<1>1. PICK f : /\ Accumulates(f, obs, max)
               /\ BuildResult(req) = ResultOf(f[Len(obs)], obs)
    BY ResultBuilt
<1>2. Len(obs) \in 0..Len(obs)
    OBVIOUS
<1>3. Summed(f[Len(obs)], P, obs, max, Len(obs))
    BY <1>1, <1>2, SummedUp
<1>4. /\ BuildResult(req).decisions = f[Len(obs)].decisions
      /\ BuildResult(req).dispatch_queue = f[Len(obs)].queue
    BY <1>1 DEF ResultOf
<1> QED
    BY <1>3, <1>4, Zenon DEF Summed

LEMMA StatusBuilt ==
    ASSUME NEW P, NEW req, req.obligations \in Seq(P), req.max_dispatches \in Nat,
           NEW k \in 1..Len(req.obligations)
    PROVE  LET d == BuildResult(req).decisions[k]
               o == req.obligations[k]
           IN  /\ d.obligation = o.obligation
               /\ d.status = EvaluateObligation(o).status
               /\ d.reason = EvaluateObligation(o).reason
               /\ d.verdict = EvaluateObligation(o).verdict
               /\ d.run_identity = EvaluateObligation(o).run_identity
<1> DEFINE d == BuildResult(req).decisions[k]
           o == req.obligations[k]
<1>1. d = Marked(o, TRUE) \/ d = Marked(o, FALSE)
    BY ResultSummed DEF Decided
<1> HIDE DEF d, o
<1>2. PICK mark : d = Marked(o, mark)
    BY <1>1
<1>3. /\ d.obligation = o.obligation
      /\ d.status = EvaluateObligation(o).status
      /\ d.reason = EvaluateObligation(o).reason
      /\ d.verdict = EvaluateObligation(o).verdict
      /\ d.run_identity = EvaluateObligation(o).run_identity
    BY <1>2, MarkedDecision
<1> QED
    BY <1>3 DEF d, o

\* The budget reaches a prefix of what is eligible.
LEMMA PrefixIsAdmitted ==
    ASSUME NEW obs, NEW max \in Nat, NEW n \in Nat, NEW k \in AdmittedIn(obs, max, n)
    PROVE  /\ {j \in EligibleIn(obs, n) : j < k} = EligibleIn(obs, k - 1)
           /\ {j \in AdmittedIn(obs, max, n) : j <= k} = EligibleIn(obs, k)
           /\ Cardinality({j \in AdmittedIn(obs, max, n) : j <= k}) = Place(obs, k)
<1>1. k \in 1..n /\ k \in Nat /\ k - 1 \in Nat /\ (k - 1) + 1 = k /\ IsEligible(obs[k])
    BY DEF AdmittedIn, EligibleIn
<1>2. Cardinality(EligibleIn(obs, k - 1)) < max
    BY DEF AdmittedIn
<1>3. \A j \in 1..k : EligibleIn(obs, j - 1) \subseteq EligibleIn(obs, k - 1)
    BY <1>1 DEF EligibleIn
<1>4. \A j \in 1..k : Cardinality(EligibleIn(obs, j - 1)) < max
  <2> TAKE j \in 1..k
  <2>1. j - 1 \in Nat
      BY <1>1
  <2>2. /\ IsFiniteSet(EligibleIn(obs, k - 1))
        /\ Cardinality(EligibleIn(obs, k - 1)) \in Nat
        /\ Cardinality(EligibleIn(obs, j - 1)) \in Nat
      BY <1>1, <2>1, EligibleCounts
  <2>3. Cardinality(EligibleIn(obs, j - 1)) <= Cardinality(EligibleIn(obs, k - 1))
      BY <1>3, <2>2, FS_Subset
  <2> QED  BY <1>2, <2>2, <2>3
<1>5. {j \in EligibleIn(obs, n) : j < k} = EligibleIn(obs, k - 1)
    BY <1>1 DEF EligibleIn
<1>6. {j \in AdmittedIn(obs, max, n) : j <= k} = EligibleIn(obs, k)
  <2>1. ASSUME NEW j \in 1..n
        PROVE  j \in AdmittedIn(obs, max, n) /\ j <= k <=> j \in EligibleIn(obs, k)
      BY <1>1, <1>4 DEF AdmittedIn, EligibleIn
  <2>2. AdmittedIn(obs, max, n) \subseteq 1..n /\ EligibleIn(obs, k) \subseteq 1..n
      BY <1>1 DEF AdmittedIn, EligibleIn
  <2> QED  BY <2>1, <2>2
<1>7. Cardinality(EligibleIn(obs, k)) = Place(obs, k)
    BY <1>1, EligibleCounts DEF Place
<1> QED
    BY <1>5, <1>6, <1>7

-----------------------------------------------------------------------------
(* PolicyRequests: every request a host can make.                          *)

RequestSet == [max_dispatches : Nat, obligations : Seq(Projection)]

PolicyInv == request \in RequestSet /\ result = BuildResult(request)

LEMMA VerdictIsReplaced ==
    ASSUME NEW p \in Projection, NEW v \in Verdicts
    PROVE  [p EXCEPT !.evidence.verdict = v] \in Projection
BY DEF Projection

LEMMA NameIsKept ==
    ASSUME NEW p \in Projection, NEW o \in Projection
    PROVE  [p EXCEPT !.obligation = o.obligation] \in Projection
BY DEF Projection

LEMMA PolicyInvHolds == RequestSpec => []PolicyInv
<1>1. RequestInit => PolicyInv
    BY RequestAssumption DEF RequestInit, PolicyInv, RequestSet
<1>2. PolicyInv /\ [RequestNext]_requestVars => PolicyInv'
  <2> SUFFICES ASSUME PolicyInv, [RequestNext]_requestVars
               PROVE  PolicyInv'
      OBVIOUS
  <2>0. request \in RequestSet /\ request.obligations \in Seq(Projection)
      BY DEF PolicyInv, RequestSet
  <2> DEFINE Put(k, o) == [request EXCEPT !.obligations[k] = o]
  <2>1. ASSUME NEW k \in DOMAIN request.obligations, NEW o \in Projection
        PROVE  Put(k, o) \in RequestSet
    <3>1. [request.obligations EXCEPT ![k] = o] \in Seq(Projection)
        BY <2>0, ExceptSeq, LenProperties
    <3> QED  BY <2>0, <3>1 DEF RequestSet
  <2>2. ASSUME NEW k \in DOMAIN request.obligations
        PROVE  request.obligations[k] \in Projection
      BY <2>0, ElementOfSeq, LenProperties
  <2>3. CASE RequestNext
    <3>1. PICK k \in DOMAIN request.obligations : ChangeVerdict(k) \/ Remeasure(k)
        BY <2>3, Zenon DEF RequestNext
    <3>2. request' \in RequestSet
      <4>1. CASE ChangeVerdict(k)
        <5>1. PICK v \in Verdicts :
                  request' = [request EXCEPT !.obligations[k].evidence.verdict = v]
            BY <4>1, Zenon DEF ChangeVerdict
        <5>2. request' = Put(k, [request.obligations[k] EXCEPT !.evidence.verdict = v])
            BY <5>1, Zenon
        <5> QED  BY <2>1, <2>2, <5>2, VerdictIsReplaced
      <4>2. CASE Remeasure(k)
        <5>1. PICK o \in Replacements :
                  request' = Put(k, [o EXCEPT !.obligation =
                                        request.obligations[k].obligation])
            BY <4>2, Zenon DEF Remeasure
        <5>2. o \in Projection
            BY RequestAssumption
        <5> QED  BY <2>1, <2>2, <5>1, <5>2, NameIsKept
      <4> QED  BY <3>1, <4>1, <4>2
    <3> QED  BY <2>3, <3>2, Zenon DEF RequestNext, PolicyInv
  <2>4. CASE UNCHANGED requestVars
      BY <2>4 DEF requestVars, PolicyInv
  <2> QED  BY <2>3, <2>4
<1> QED
    BY <1>1, <1>2, PTL DEF RequestSpec

\* The decisions, the eligible and the admitted positions of a result.
LEMMA PolicyResult ==
    ASSUME PolicyInv
    PROVE  LET obs == request.obligations
               max == request.max_dispatches
               n   == Len(obs)
           IN  /\ max \in Nat /\ obs \in Seq(Projection)
               /\ n \in Nat /\ Positions = 1..n
               /\ Queued(result.dispatch_queue, Projection, obs, max, n)
               /\ Eligible = EligibleIn(obs, n)
               /\ Admitted = AdmittedIn(obs, max, n)
               /\ \A k \in 1..n :
                     /\ Status(k) = EvaluateObligation(obs[k]).status
                     /\ result.decisions[k].deferred <=> k \in Eligible \ Admitted
<1> DEFINE obs == request.obligations
           max == request.max_dispatches
           n == Len(obs)
<1>1. max \in Nat /\ obs \in Seq(Projection)
    BY DEF PolicyInv, RequestSet
<1>2. n \in Nat /\ Positions = 1..n
    BY <1>1, LenProperties DEF Positions
<1>3. /\ Decided(result.decisions, Projection, obs, max, n)
      /\ Queued(result.dispatch_queue, Projection, obs, max, n)
    BY <1>1, ResultSummed DEF PolicyInv
<1> HIDE DEF obs, max, n
<1>4. ASSUME NEW k \in 1..n
      PROVE  /\ Status(k) = EvaluateObligation(obs[k]).status
             /\ result.decisions[k].deferred <=>
                    k \in EligibleIn(obs, n) \ AdmittedIn(obs, max, n)
  <2>1. result.decisions[k] =
            IF k \in EligibleIn(obs, n) \ AdmittedIn(obs, max, n)
            THEN Marked(obs[k], TRUE) ELSE Marked(obs[k], FALSE)
      BY <1>3, Zenon DEF Decided
  <2>2. /\ Marked(obs[k], TRUE).status = EvaluateObligation(obs[k]).status
        /\ Marked(obs[k], FALSE).status = EvaluateObligation(obs[k]).status
        /\ Marked(obs[k], TRUE).deferred /\ ~Marked(obs[k], FALSE).deferred
      BY MarkedDecision
  <2> QED  BY <2>1, <2>2, Zenon DEF Status
<1>5. Eligible = EligibleIn(obs, n)
    BY <1>2, <1>4, Zenon DEF Eligible, EligibleIn, IsEligible
<1>6. Admitted = AdmittedIn(obs, max, n)
  <2>1. ASSUME NEW k \in EligibleIn(obs, n)
        PROVE  {j \in EligibleIn(obs, n) : j < k} = EligibleIn(obs, k - 1)
      BY <1>2 DEF EligibleIn
  <2> QED  BY <1>5, <2>1 DEF Admitted, AdmittedIn, max
<1> QED
    BY <1>1, <1>2, <1>3, <1>4, <1>5, <1>6, Zenon DEF obs, max, n

\* The queue is the prefix of the eligible obligations that the budget
\* reaches, and the eligible rest of the request is marked deferred:
\* build_result, for every request.
THEOREM QueueIsBudgeted == RequestSpec => []QueueIsBudgetedPrefix
<1>1. PolicyInv => QueueIsBudgetedPrefix
  <2> SUFFICES ASSUME PolicyInv
               PROVE  QueueIsBudgetedPrefix
      OBVIOUS
  <2> DEFINE obs == request.obligations
             max == request.max_dispatches
             n == Len(obs)
  <2>1. /\ max \in Nat /\ n \in Nat /\ Positions = 1..n
        /\ Queued(result.dispatch_queue, Projection, obs, max, n)
        /\ Admitted = AdmittedIn(obs, max, n)
        /\ \A k \in 1..n : result.decisions[k].deferred <=> k \in Eligible \ Admitted
      BY PolicyResult, Zenon
  <2>2. Len(result.dispatch_queue) = Cardinality(Admitted)
      BY <2>1, Zenon DEF Queued
  <2>3. ASSUME NEW k \in Admitted
        PROVE  result.dispatch_queue[Cardinality({j \in Admitted : j <= k})]
                   = request.obligations[k].obligation
    <3>1. Cardinality({j \in Admitted : j <= k}) = Place(obs, k)
      <4>1. k \in AdmittedIn(obs, max, n)
          BY <2>1
      <4>2. Cardinality({j \in AdmittedIn(obs, max, n) : j <= k}) = Place(obs, k)
        <5>1. max \in Nat /\ n \in Nat
            BY <2>1
        <5> HIDE DEF obs, max, n
        <5> QED  BY <5>1, <4>1, PrefixIsAdmitted
      <4> QED  BY <2>1, <4>2, Zenon
    <3> QED  BY <2>1, <3>1, Zenon DEF Queued
  <2> QED  BY <2>1, <2>2, <2>3, Zenon DEF QueueIsBudgetedPrefix
<1> QED
    BY <1>1, PolicyInvHolds, PTL

\* A dispatch is justified by what the host measured: evaluate_obligation,
\* for every projection.
THEOREM DispatchesAreJustified == RequestSpec => []DispatchIsJustified
<1>1. PolicyInv => DispatchIsJustified
  <2> SUFFICES ASSUME PolicyInv, NEW k \in Admitted
               PROVE  LET o == request.obligations[k] IN
                      /\ o.routable_kind /\ o.has_workflow_binding /\ ~o.explicit_only
                      /\ o.subject_state = "clean"
                      /\ ~(/\ o.evidence_present /\ o.evidence.complete
                           /\ o.evidence.obligation = o.obligation
                           /\ o.evidence.subject_digest = o.subject_digest
                           /\ o.evidence.claim = "established")
                      /\ o.run_present /\ o.run.subject_digest = o.subject_digest
                            => o.run.state # "in_progress"
                      /\ o.attempts_exhausted \/ ~o.remote_available
                            => /\ o.run_present
                               /\ o.run.subject_digest = o.subject_digest
                               /\ o.run.conclusion # "success"
      BY DEF DispatchIsJustified
  <2> DEFINE o == request.obligations[k]
  <2>1. k \in Eligible /\ k \in Positions
      BY DEF Admitted, Eligible
  <2>2. EvaluateObligation(o).status = "dispatch_eligible"
      BY <2>1, PolicyResult DEF Eligible
  <2> HIDE DEF o
  <2>3. /\ Routable(o) /\ ~Admits(o)
        /\ ~(Bound(o) /\ o.run.state = "in_progress")
        /\ \/ Bound(o) /\ RunFailed(o)
           \/ ~o.attempts_exhausted /\ o.remote_available
      BY <2>2, DispatchedDecision
  <2> QED
      BY <2>3, Zenon DEF o, Routable, Admits, Bound, RunFailed
<1> QED
    BY <1>1, PolicyInvHolds, PTL

-----------------------------------------------------------------------------
(* A change of verdicts decides nothing.                                   *)

\* Projections that differ in the verdict of their evidence only.
SameButVerdict(o, p) ==
    [o EXCEPT !.evidence.verdict = "none"] = [p EXCEPT !.evidence.verdict = "none"]

LEMMA SameFields ==
    ASSUME NEW o \in Projection, NEW p \in Projection, SameButVerdict(o, p)
    PROVE  /\ o.obligation = p.obligation
           /\ o.routable_kind = p.routable_kind
           /\ o.has_workflow_binding = p.has_workflow_binding
           /\ o.explicit_only = p.explicit_only
           /\ o.subject_state = p.subject_state
           /\ o.subject_digest = p.subject_digest
           /\ o.remote_available = p.remote_available
           /\ o.attempts_exhausted = p.attempts_exhausted
           /\ o.evidence_present = p.evidence_present
           /\ o.run_present = p.run_present
           /\ o.run = p.run
           /\ o.evidence.obligation = p.evidence.obligation
           /\ o.evidence.subject_digest = p.evidence.subject_digest
           /\ o.evidence.complete = p.evidence.complete
           /\ o.evidence.claim = p.evidence.claim
<1> DEFINE blank(q) == [q EXCEPT !.evidence.verdict = "none"]
<1>1. ASSUME NEW q \in Projection
      PROVE  /\ blank(q).obligation = q.obligation
             /\ blank(q).routable_kind = q.routable_kind
             /\ blank(q).has_workflow_binding = q.has_workflow_binding
             /\ blank(q).explicit_only = q.explicit_only
             /\ blank(q).subject_state = q.subject_state
             /\ blank(q).subject_digest = q.subject_digest
             /\ blank(q).remote_available = q.remote_available
             /\ blank(q).attempts_exhausted = q.attempts_exhausted
             /\ blank(q).evidence_present = q.evidence_present
             /\ blank(q).run_present = q.run_present
             /\ blank(q).run = q.run
             /\ blank(q).evidence.obligation = q.evidence.obligation
             /\ blank(q).evidence.subject_digest = q.evidence.subject_digest
             /\ blank(q).evidence.complete = q.evidence.complete
             /\ blank(q).evidence.claim = q.evidence.claim
    BY DEF Projection
<1>2. blank(o) = blank(p)
    BY DEF SameButVerdict
<1> HIDE DEF blank
<1> QED
    BY <1>1, <1>2

LEMMA SameStatus ==
    ASSUME NEW o \in Projection, NEW p \in Projection, SameButVerdict(o, p)
    PROVE  EvaluateObligation(o).status = EvaluateObligation(p).status
<1>1. /\ Routable(o) <=> Routable(p)
      /\ Admits(o) <=> Admits(p)
      /\ Bound(o) <=> Bound(p)
      /\ RunFailed(o) <=> RunFailed(p)
    BY SameFields DEF Routable, Admits, Bound, RunFailed
<1>2. CASE ~Routable(o)
  <2>1. EvaluateObligation(o) = Unroutable(o) /\ EvaluateObligation(p) = Unroutable(p)
      BY <1>1, <1>2, Zenon DEF EvaluateObligation
  <2>2. Unroutable(o).status = Unroutable(p).status
      BY SameFields DEF Unroutable, Refusal, Decision
  <2> QED  BY <2>1, <2>2
<1>3. CASE Routable(o)
  <2> DEFINE status(q) ==
               IF Admits(q) THEN "current"
               ELSE IF Bound(q) /\ q.run.state = "in_progress" THEN "delegated_pending"
               ELSE IF Bound(q) /\ RunFailed(q) THEN "dispatch_eligible"
               ELSE IF Bound(q) /\ q.run.state = "completed" THEN "delegated_pending"
               ELSE IF q.attempts_exhausted THEN "deferred"
               ELSE IF ~q.remote_available THEN "deferred"
               ELSE "dispatch_eligible"
  <2>1. ASSUME NEW q, Routable(q)
        PROVE  EvaluateObligation(q).status = status(q)
      BY <2>1 DEF EvaluateObligation, DecideCurrent, OfRun, Refusal, Decision
  <2>2. o.run = p.run /\ o.attempts_exhausted = p.attempts_exhausted
        /\ o.remote_available = p.remote_available
      BY SameFields
  <2>3. status(o) = status(p)
      BY <1>1, <2>2, Zenon
  <2> HIDE DEF status
  <2> QED  BY <1>1, <1>3, <2>1, <2>3
<1> QED
    BY <1>2, <1>3

\* Two requests with the same statuses and obligations: the loop counts and
\* queues the same.
LEMMA SameAccumulators ==
    ASSUME NEW P, NEW obs \in Seq(P), NEW obs1 \in Seq(P), NEW max \in Nat,
           Len(obs) = Len(obs1),
           \A k \in 1..Len(obs) :
              /\ EvaluateObligation(obs[k]).status = EvaluateObligation(obs1[k]).status
              /\ obs[k].obligation = obs1[k].obligation,
           NEW f, Accumulates(f, obs, max), NEW g, Accumulates(g, obs1, max)
    PROVE  \A n \in 0..Len(obs) : /\ f[n].queue = g[n].queue
                                  /\ f[n].deferred = g[n].deferred
                                  /\ f[n].count = g[n].count
<1> DEFINE same(n) == /\ f[n].queue = g[n].queue
                      /\ f[n].deferred = g[n].deferred
                      /\ f[n].count = g[n].count
           S == {n \in Nat : n <= Len(obs) => same(n)}
<1>1. 0 \in S
    BY AccumulatorAt
<1>2. ASSUME NEW n \in Nat, n \in S
      PROVE  n + 1 \in S
  <2> SUFFICES ASSUME n + 1 <= Len(obs)
               PROVE  same(n + 1)
      OBVIOUS
  <2>1. Len(obs) \in Nat /\ n < Len(obs) /\ n + 1 \in 1..Len(obs)
      OBVIOUS
  <2>2. same(n)
      BY <1>2, <2>1
  <2>3. /\ f[n + 1] = Accumulate(f[n], obs[n + 1], max)
        /\ g[n + 1] = Accumulate(g[n], obs1[n + 1], max)
      BY <2>1, AccumulatorAt
  <2>4. /\ EvaluateObligation(obs[n + 1]).status = EvaluateObligation(obs1[n + 1]).status
        /\ obs[n + 1].obligation = obs1[n + 1].obligation
      BY <2>1
  <2>5. ASSUME NEW a, NEW b, NEW o, NEW p,
               a.queue = b.queue, a.deferred = b.deferred, a.count = b.count,
               EvaluateObligation(o).status = EvaluateObligation(p).status,
               o.obligation = p.obligation
        PROVE  /\ Accumulate(a, o, max).queue = Accumulate(b, p, max).queue
               /\ Accumulate(a, o, max).deferred = Accumulate(b, p, max).deferred
               /\ Accumulate(a, o, max).count = Accumulate(b, p, max).count
      BY <2>5, Zenon DEF Accumulate, Queueable
  <2> DEFINE a == f[n]
             b == g[n]
             o == obs[n + 1]
             p == obs1[n + 1]
  <2>6. /\ Accumulate(a, o, max).queue = Accumulate(b, p, max).queue
        /\ Accumulate(a, o, max).deferred = Accumulate(b, p, max).deferred
        /\ Accumulate(a, o, max).count = Accumulate(b, p, max).count
    <3> HIDE DEF a, b, o, p
    <3>1. /\ a.queue = b.queue /\ a.deferred = b.deferred /\ a.count = b.count
          /\ EvaluateObligation(o).status = EvaluateObligation(p).status
          /\ o.obligation = p.obligation
        BY <2>2, <2>4 DEF a, b, o, p
    <3> QED  BY <3>1, <2>5
  <2> QED  BY <2>3, <2>6
<1>3. Nat \subseteq S
  <2> HIDE DEF S
  <2> QED  BY <1>1, <1>2, Induction
<1> QED
    BY <1>3

LEMMA SameResults ==
    ASSUME NEW P, NEW r, NEW q, r.obligations \in Seq(P), q.obligations \in Seq(P),
           r.max_dispatches \in Nat, q.max_dispatches = r.max_dispatches,
           Len(r.obligations) = Len(q.obligations),
           \A k \in 1..Len(r.obligations) :
              /\ EvaluateObligation(r.obligations[k]).status =
                     EvaluateObligation(q.obligations[k]).status
              /\ r.obligations[k].obligation = q.obligations[k].obligation
    PROVE  /\ BuildResult(r).dispatch_queue = BuildResult(q).dispatch_queue
           /\ BuildResult(r).summary = BuildResult(q).summary
<1> DEFINE n == Len(r.obligations)
<1>1. PICK f : /\ Accumulates(f, r.obligations, r.max_dispatches)
               /\ BuildResult(r) = ResultOf(f[n], r.obligations)
    BY ResultBuilt
<1>2. PICK g : /\ Accumulates(g, q.obligations, r.max_dispatches)
               /\ BuildResult(q) = ResultOf(g[n], q.obligations)
    BY ResultBuilt
<1>3. n \in 0..n
    OBVIOUS
<1>4. f[n].queue = g[n].queue /\ f[n].deferred = g[n].deferred /\ f[n].count = g[n].count
  <2>1. \A m \in 0..n : /\ f[m].queue = g[m].queue
                         /\ f[m].deferred = g[m].deferred
                         /\ f[m].count = g[m].count
      BY <1>1, <1>2, SameAccumulators, SMTT(30)
  <2> QED  BY <1>3, <2>1
<1> QED
    BY <1>1, <1>2, <1>4 DEF ResultOf

\* "A current FAIL is never a reason to redispatch": when only verdicts
\* change between two passes, the queue, the counts and every status stay.
THEOREM VerdictsNeverDecide == RequestSpec => VerdictNeverDecides
<1> DEFINE Unmoved ==
             OnlyVerdictsChange =>
                /\ result'.dispatch_queue = result.dispatch_queue
                /\ result'.summary = result.summary
                /\ \A k \in Positions : result'.decisions[k].status = Status(k)
<1>1. PolicyInv /\ PolicyInv' /\ [RequestNext]_requestVars => [Unmoved]_requestVars
  <2> SUFFICES ASSUME PolicyInv, PolicyInv', RequestNext, OnlyVerdictsChange
               PROVE  /\ result'.dispatch_queue = result.dispatch_queue
                      /\ result'.summary = result.summary
                      /\ \A k \in Positions : result'.decisions[k].status = Status(k)
      BY Zenon
  <2> DEFINE obs == request.obligations
             n == Len(obs)
  <2>1. /\ obs \in Seq(Projection) /\ obs' \in Seq(Projection)
        /\ request.max_dispatches \in Nat
        /\ request'.max_dispatches = request.max_dispatches
    <3>1. request \in RequestSet /\ request' \in RequestSet
        BY DEF PolicyInv
    <3>2. request'.max_dispatches = request.max_dispatches
        BY <3>1 DEF RequestNext, ChangeVerdict, Remeasure, RequestSet
    <3> QED  BY <3>1, <3>2 DEF RequestSet
  <2>2. Positions = 1..n /\ Len(obs') = n
      BY <2>1, LenProperties DEF Positions, OnlyVerdictsChange
  <2>3. ASSUME NEW k \in 1..n
        PROVE  /\ EvaluateObligation(obs'[k]).status = EvaluateObligation(obs[k]).status
               /\ obs'[k].obligation = obs[k].obligation
    <3>1. obs[k] \in Projection /\ obs'[k] \in Projection
        BY <2>1, <2>2, ElementOfSeq
    <3>2. SameButVerdict(obs'[k], obs[k])
        BY <2>2 DEF OnlyVerdictsChange, SameButVerdict
    <3> QED  BY <3>1, <3>2, SameStatus, SameFields
  <2>4. /\ result'.dispatch_queue = result.dispatch_queue
        /\ result'.summary = result.summary
    <3>1. result = BuildResult(request) /\ result' = BuildResult(request')
        BY DEF PolicyInv
    <3> QED  BY <2>1, <2>2, <2>3, <3>1, SameResults
  <2>5. ASSUME NEW k \in Positions
        PROVE  result'.decisions[k].status = Status(k)
    <3>1. Status(k) = EvaluateObligation(obs[k]).status
        BY <2>2, PolicyResult
    <3>2. Status(k)' = EvaluateObligation(obs'[k]).status
      <4>1. result' = BuildResult(request')
          BY DEF PolicyInv
      <4>2. BuildResult(request').decisions[k].status =
                EvaluateObligation(request'.obligations[k]).status
        <5>1. k \in 1..Len(request'.obligations)
            BY <2>2
        <5>2. request'.obligations \in Seq(Projection) /\ request'.max_dispatches \in Nat
            BY <2>1
        <5> QED  BY <5>1, <5>2, StatusBuilt
      <4> QED  BY <4>1, <4>2 DEF Status
    <3> QED  BY <2>2, <2>3, <3>1, <3>2 DEF Status
  <2> QED  BY <2>4, <2>5
<1> QED
    BY <1>1, PolicyInvHolds, PTL DEF RequestSpec, VerdictNeverDecides

-----------------------------------------------------------------------------
(* AmbientEvidence: the invariant.                                         *)

RunSet == [workflow : Workflows, requested : Nat, head : Nat, listed : BOOLEAN,
           state : {"in_progress", "completed"},
           conclusion : {"none", "success", "failure"},
           artifact : [Obligations -> {"none", "passed", "failed"}]]
IdentitySet == [workflow : Workflows, revision : Nat]
StageSet == {NoStage} \cup [step : {"claiming", "claimed"}, obligation : Obligations]

\* A plan, whatever its decisions are.
PlanSet(decisions) ==
    [active : BOOLEAN, revision : Nat, ref : Nat, decisions : {decisions},
     todo : SUBSET Obligations, fetch : SUBSET Obligations,
     overtaken : SUBSET IdentitySet]

\* What was committed bounds every revision somebody names.
WorldInv ==
    /\ commits \in Nat /\ tip \in Nat /\ tip <= commits
    /\ worktree \in [revision : Nat, state : {"clean", "dirty", "clean_unpublished"}]
    /\ worktree.revision <= commits
    /\ claims \subseteq IdentitySet /\ lost \subseteq IdentitySet
    /\ stage \in [Hosts -> StageSet]

RunsInv ==
    /\ runs \in Seq(RunSet)
    /\ \A i \in DOMAIN runs :
          /\ runs[i].requested <= commits
          /\ runs[i].state = "completed" => runs[i].conclusion # "none"

\* Staged evidence is of a completed run that packaged the check of o.
EvidenceOf(o, i) ==
    [obligation |-> o, subject_digest |-> runs[i].head, run_identity |-> i,
     verdict |-> runs[i].artifact[o], claim |-> "established", complete |-> TRUE]

StagedInv ==
    /\ DOMAIN staged = Obligations
    /\ \A o \in Obligations :
          \/ staged[o] = NoEvidence
          \/ \E i \in DOMAIN runs :
                /\ staged[o] = EvidenceOf(o, i)
                /\ runs[i].workflow = Binding[o] /\ runs[i].state = "completed"

\* Run i ran the workflow of o at revision r and is over.
Finished(i, o, r) ==
    /\ i \in DOMAIN runs
    /\ runs[i].workflow = Binding[o] /\ runs[i].head = r
    /\ runs[i].state = "completed"

FinishReasons == {"run_completed_unadmitted", "run_failed"}

\* The decisions of a pass: one per obligation, in order; a current one and
\* one on a finished run name a run that proves it.
DecisionsInv(p) ==
    /\ p.decisions = << >> \/ Len(p.decisions) = Len(Order)
    /\ \A k \in DOMAIN p.decisions :
          LET d == p.decisions[k] IN
          /\ k \in DOMAIN Order /\ d.obligation = Order[k]
          /\ d.status = "current" =>
                /\ Finished(d.run_identity, d.obligation, p.revision)
                /\ runs[d.run_identity].artifact[d.obligation] = d.verdict
          /\ d.reason \in FinishReasons =>
                Finished(d.run_identity, d.obligation, p.revision)
    /\ \A o \in p.fetch : \E k \in DOMAIN p.decisions :
          /\ p.decisions[k].obligation = o
          /\ p.decisions[k].reason \in FinishReasons

PlansInv ==
    /\ DOMAIN plan = Hosts
    /\ \A h \in Hosts :
          /\ plan[h] \in PlanSet(plan[h].decisions)
          /\ plan[h].revision <= commits
          /\ ~plan[h].active => plan[h] = NoPlan
          /\ DecisionsInv(plan[h])

\* A commit that was not pushed is no pass's and no run's.
UnpublishedInv ==
    worktree.state = "clean_unpublished" =>
        /\ \A i \in DOMAIN runs : runs[i].requested # worktree.revision
        /\ \A h \in Hosts : plan[h].revision = worktree.revision => plan[h].todo = {}

RunIdentity(i) == [workflow |-> runs[i].workflow, revision |-> runs[i].requested]

\* What the claims cover: runs not listed yet, and listings that passes under
\* way have not seen.
ClaimsInv ==
    /\ \A i \in DOMAIN runs : ~runs[i].listed => RunIdentity(i) \in claims \cup lost
    /\ \A h \in Hosts : plan[h].overtaken \subseteq claims \cup lost

\* The identity host h is taking, or has, the claim of.
Held(h) == Identity(stage[h].obligation, plan[h].revision)

\* Nothing of the identity is there that a pass under way has not seen.
AllSeen(id) ==
    /\ \A i \in DOMAIN runs : RunIdentity(i) = id => runs[i].listed
    /\ \A h \in Hosts : id \notin plan[h].overtaken

\* A host that goes through a dispatch does so for its pass, alone, and has
\* seen every run of the identity.
HoldersInv ==
    /\ \A h \in Hosts : stage[h] # NoStage => stage[h].obligation \in plan[h].todo
    /\ \A h \in Hosts : stage[h].step = "claimed" => Held(h) \in claims \cup lost
    /\ \A h \in Hosts : stage[h] # NoStage /\ Held(h) \notin lost => AllSeen(Held(h))
    /\ \A g, h \in Hosts :
          g # h /\ stage[g] # NoStage /\ stage[h] # NoStage /\ Held(g) = Held(h)
          => Held(h) \in lost

\* Nobody raced to the revision, and its claim was not lost.
Undoubled(w, r) == Unraced(w, r) /\ [workflow |-> w, revision |-> r] \notin lost

\* Of the runs at a revision that nobody raced to, only the last is under way,
\* and a pass that wants to dispatch there has not seen it.
InFlightInv ==
    /\ \A i, j \in DOMAIN runs :
          /\ i < j
          /\ runs[i].workflow = runs[j].workflow /\ runs[i].head = runs[j].head
          /\ Undoubled(runs[i].workflow, runs[i].head)
          => runs[i].state = "completed"
    /\ \A h \in Hosts : \A o \in plan[h].todo : \A i \in DOMAIN runs :
          /\ runs[i].workflow = Binding[o] /\ runs[i].head = plan[h].revision
          /\ runs[i].listed /\ runs[i].state = "in_progress"
          /\ Undoubled(Binding[o], plan[h].revision)
          => Identity(o, plan[h].revision) \in plan[h].overtaken

FailedAt(w, r, n) ==
    \E j \in 1..n : /\ runs[j].workflow = w /\ runs[j].head = r
                    /\ runs[j].state = "completed" /\ runs[j].conclusion = "failure"

\* A pass that wants to dispatch beyond the limit has seen a failure, or is
\* held off by the claim of a run it has not seen.
AttemptsInv ==
    /\ AttemptsBounded
    /\ \A h \in Hosts : \A o \in plan[h].todo :
          LET w == Binding[o]
              r == plan[h].revision
          IN  \/ FailedAt(w, r, Len(runs))
              \/ Cardinality(Requested(w, r)) < MaxAttempts
              \/ \E i \in Requested(w, r) : ~runs[i].listed
              \/ Identity(o, r) \in plan[h].overtaken \cup lost

IInv ==
    /\ WorldInv /\ RunsInv /\ StagedInv /\ PlansInv
    /\ UnpublishedInv /\ ClaimsInv /\ HoldersInv /\ InFlightInv /\ AttemptsInv

-----------------------------------------------------------------------------
(* What the operators of AmbientEvidence return.                           *)

LEMMA GreatestExists ==
    ASSUME NEW n \in Nat, NEW S \in SUBSET (1..n), S # {}
    PROVE  \E i \in S : \A j \in S : j <= i
<1> DEFINE has(T) == \E i \in T : \A j \in T : j <= i
           G == {m \in Nat : \A T \in SUBSET (1..m) : T # {} => has(T)}
<1>1. 0 \in G
  <2>1. 1..0 = {}
      OBVIOUS
  <2> QED  BY <2>1
<1>2. ASSUME NEW m \in Nat, m \in G
      PROVE  m + 1 \in G
  <2> SUFFICES ASSUME NEW T \in SUBSET (1..m + 1), T # {}
               PROVE  has(T)
      OBVIOUS
  <2>1. CASE m + 1 \in T
    <3>1. \A j \in T : j <= m + 1
        OBVIOUS
    <3> QED  BY <2>1, <3>1, Zenon
  <2>2. CASE m + 1 \notin T
    <3>1. T \in SUBSET (1..m)
        BY <2>2
    <3> HIDE DEF has
    <3> QED  BY <1>2, <3>1
  <2> QED  BY <2>1, <2>2
<1>3. Nat \subseteq G
  <2> HIDE DEF G
  <2> QED  BY <1>1, <1>2, Induction
<1> QED
    BY <1>3

\* The obligations of a request, each once.
LEMMA OrderIsInjective ==
    /\ Order \in Seq(Obligations)
    /\ \A a, b \in DOMAIN Order : Order[a] = Order[b] => a = b
<1> DEFINE n == Cardinality(Obligations)
           Fs == {f \in [1..n -> Obligations] : IsInjective(f)}
<1>1. n \in Nat /\ ExistsBijection(1..n, Obligations)
    BY AmbientAssumption, FS_CardinalityType
<1>2. PICK f : f \in Fs
    BY <1>1 DEF ExistsBijection, Bijection, Injection
<1>3. Order \in Fs
    BY <1>2, Zenon DEF Order, SetToSeq
<1>4. Order \in [1..n -> Obligations] /\ IsInjective(Order)
    BY <1>3
<1>5. Order \in Seq(Obligations)
    BY <1>1, <1>4
<1> QED
    BY <1>4, <1>5, Zenon DEF IsInjective

\* The host attaches to the newest listed run of the revision, if any.
LEMMA ObservedRunIs ==
    ASSUME RunsInv, NEW o, NEW r
    PROVE  \/ StatusRuns(o, r) = {} /\ ObservedRun(o, r) = NoRun
           \/ \E i \in StatusRuns(o, r) :
                 /\ \A j \in StatusRuns(o, r) : j <= i
                 /\ ObservedRun(o, r) =
                        [run_identity |-> i, subject_digest |-> r,
                         state |-> runs[i].state, conclusion |-> runs[i].conclusion]
<1> DEFINE seen == StatusRuns(o, r)
           newest(i) == i \in seen /\ \A j \in seen : j <= i
           i == CHOOSE n \in seen : \A m \in seen : m <= n
<1>1. CASE seen = {}
    BY <1>1, Zenon DEF ObservedRun
<1>2. CASE seen # {}
  <2>1. Len(runs) \in Nat /\ seen \in SUBSET (1..Len(runs))
      BY LenProperties DEF RunsInv, StatusRuns
  <2>2. \E n \in seen : \A m \in seen : m <= n
      BY <1>2, <2>1, GreatestExists, Zenon
  <2>3. i \in seen /\ \A j \in seen : j <= i
      BY <2>2, Zenon
  <2>4. ObservedRun(o, r) =
            [run_identity |-> i, subject_digest |-> r,
             state |-> runs[i].state, conclusion |-> runs[i].conclusion]
      BY <1>2, Zenon DEF ObservedRun
  <2> QED  BY <2>3, <2>4, Zenon
<1> QED
    BY <1>1, <1>2

LEMMA RequestedCounts ==
    ASSUME RunsInv, NEW w, NEW r
    PROVE  /\ IsFiniteSet(Requested(w, r))
           /\ Cardinality(Requested(w, r)) \in Nat
           /\ Requested(w, r) \subseteq 1..Len(runs)
<1>1. Len(runs) \in Nat /\ Requested(w, r) \subseteq 1..Len(runs)
    BY LenProperties DEF RunsInv, Requested
<1>2. IsFiniteSet(1..Len(runs))
    BY <1>1, FS_Interval
<1>3. IsFiniteSet(Requested(w, r))
    BY <1>1, <1>2, FS_Subset
<1> QED
    BY <1>1, <1>3, FS_CardinalityType

-----------------------------------------------------------------------------
(* A pass begins.                                                          *)

\* What is known of an obligation the policy wants to dispatch at r.
Wanted(o, r) ==
    /\ worktree.state = "clean"
    /\ \A i \in StatusRuns(o, r) :
          (\A j \in StatusRuns(o, r) : j <= i) => runs[i].state # "in_progress"
    /\ \/ FailedAt(Binding[o], r, Len(runs))
       \/ Cardinality(Requested(Binding[o], r)) < MaxAttempts

Measured(state) == state \in {worktree.state, "unknown"}

LEMMA ProjectedFields ==
    ASSUME NEW o, NEW state, NEW available
    PROVE  LET p == Project(o, state, available)
               r == worktree.revision
           IN  /\ p.obligation = o /\ p.subject_state = state /\ p.subject_digest = r
               /\ p.attempts_exhausted <=> Attempts(o, r) >= MaxAttempts
               /\ p.evidence_present <=> staged[o] # NoEvidence
               /\ p.evidence = staged[o]
               /\ p.run_present <=> StatusRuns(o, r) # {}
               /\ p.run = ObservedRun(o, r)
BY DEF Project

LEMMA WantedObligation ==
    ASSUME RunsInv, NEW o \in Obligations, NEW state, Measured(state), NEW available,
           EvaluateObligation(Project(o, state, available)).status = "dispatch_eligible"
    PROVE  Wanted(o, worktree.revision)
<1> DEFINE r == worktree.revision
           p == Project(o, state, available)
           w == Binding[o]
<1>1. /\ p.obligation = o /\ p.subject_state = state /\ p.subject_digest = r
      /\ p.attempts_exhausted <=> Attempts(o, r) >= MaxAttempts
      /\ p.run_present <=> StatusRuns(o, r) # {}
      /\ p.run = ObservedRun(o, r)
    BY ProjectedFields
<1> HIDE DEF p, r
<1>2. /\ Routable(p) /\ ~Admits(p)
      /\ ~(Bound(p) /\ p.run.state = "in_progress")
      /\ \/ Bound(p) /\ RunFailed(p)
         \/ ~p.attempts_exhausted
    BY DispatchedDecision DEF p
<1>3. worktree.state = "clean"
    BY <1>1, <1>2 DEF Routable, Measured
<1>4. ASSUME NEW i \in StatusRuns(o, r), \A j \in StatusRuns(o, r) : j <= i
      PROVE  runs[i].state # "in_progress"
  <2>1. PICK n \in StatusRuns(o, r) :
            /\ \A j \in StatusRuns(o, r) : j <= n
            /\ ObservedRun(o, r) =
                   [run_identity |-> n, subject_digest |-> r,
                    state |-> runs[n].state, conclusion |-> runs[n].conclusion]
      BY ObservedRunIs
  <2>2. n = i
    <3>1. i \in Int /\ n \in Int /\ i <= n /\ n <= i
        BY <1>4, <2>1, LenProperties DEF StatusRuns, RunsInv
    <3> QED  BY <3>1
  <2>3. Bound(p) /\ p.run.state = runs[i].state
      BY <1>1, <2>1, <2>2 DEF Bound
  <2> QED  BY <1>2, <2>3
<1>5. FailedAt(w, r, Len(runs)) \/ Cardinality(Requested(w, r)) < MaxAttempts
  <2>1. CASE Bound(p) /\ RunFailed(p)
    <3>1. StatusRuns(o, r) # {}
        BY <1>1, <2>1 DEF Bound
    <3>2. PICK n \in StatusRuns(o, r) :
              ObservedRun(o, r) =
                   [run_identity |-> n, subject_digest |-> r,
                    state |-> runs[n].state, conclusion |-> runs[n].conclusion]
        BY <3>1, ObservedRunIs
    <3>3. n \in 1..Len(runs) /\ runs[n] \in RunSet
        BY ElementOfSeq, LenProperties DEF RunsInv, StatusRuns
    <3>4. runs[n].state = "completed" /\ runs[n].conclusion # "success"
        BY <1>1, <2>1, <3>2 DEF RunFailed
    <3>5. runs[n].conclusion = "failure"
        BY <3>3, <3>4, LenProperties DEF RunsInv, RunSet
    <3> QED  BY <3>2, <3>3, <3>4, <3>5 DEF FailedAt, StatusRuns
  <2>2. CASE ~p.attempts_exhausted
    <3>1. ~(Attempts(o, r) >= MaxAttempts)
        BY <1>1, <2>2
    <3>2. Attempts(o, r) = Cardinality(Requested(w, r))
        BY Zenon DEF Attempts, Requested
    <3>3. Cardinality(Requested(w, r)) \in Nat
        BY RequestedCounts
    <3> QED  BY <3>1, <3>2, <3>3, AmbientAssumption
  <2> QED  BY <1>2, <2>1, <2>2
<1> QED
    BY <1>3, <1>4, <1>5, Zenon DEF Wanted, r

LEMMA FinishedObligation ==
    ASSUME RunsInv, NEW o \in Obligations, NEW state, NEW available,
           EvaluateObligation(Project(o, state, available)).reason \in FinishReasons
    PROVE  Finished(EvaluateObligation(Project(o, state, available)).run_identity,
                    o, worktree.revision)
<1> DEFINE r == worktree.revision
           p == Project(o, state, available)
<1>1. /\ p.run_present <=> StatusRuns(o, r) # {}
      /\ p.run = ObservedRun(o, r)
    BY ProjectedFields
<1> HIDE DEF p, r
<1>2. /\ Bound(p) /\ p.run.state = "completed"
      /\ EvaluateObligation(p).run_identity = p.run.run_identity
    BY FinishedDecision DEF p, FinishReasons
<1>3. PICK n \in StatusRuns(o, r) :
          ObservedRun(o, r) =
               [run_identity |-> n, subject_digest |-> r,
                state |-> runs[n].state, conclusion |-> runs[n].conclusion]
    BY <1>1, <1>2, ObservedRunIs DEF Bound
<1>4. Finished(EvaluateObligation(p).run_identity, o, r)
    BY <1>1, <1>2, <1>3 DEF Finished, StatusRuns
<1> QED
    BY <1>4, Zenon DEF p, r

LEMMA CurrentObligation ==
    ASSUME StagedInv, NEW o \in Obligations, NEW state, NEW available,
           EvaluateObligation(Project(o, state, available)).status = "current"
    PROVE  LET d == EvaluateObligation(Project(o, state, available)) IN
           /\ Finished(d.run_identity, o, worktree.revision)
           /\ runs[d.run_identity].artifact[o] = d.verdict
<1> DEFINE r == worktree.revision
           p == Project(o, state, available)
           d == EvaluateObligation(p)
<1>1. /\ p.subject_digest = r /\ p.evidence = staged[o]
      /\ p.evidence_present <=> staged[o] # NoEvidence
    BY ProjectedFields
<1>2. Admits(p) /\ d.verdict = p.evidence.verdict /\ d.run_identity = p.evidence.run_identity
    BY CurrentDecision
<1> HIDE DEF p, r, d
<1>3. staged[o] # NoEvidence /\ staged[o].subject_digest = r
    BY <1>1, <1>2 DEF Admits
<1>4. PICK i \in DOMAIN runs :
          /\ staged[o] = EvidenceOf(o, i)
          /\ runs[i].workflow = Binding[o] /\ runs[i].state = "completed"
    BY <1>3 DEF StagedInv
<1>5. d.run_identity = i /\ d.verdict = runs[i].artifact[o] /\ runs[i].head = r
    BY <1>1, <1>2, <1>3, <1>4 DEF EvidenceOf
<1> QED
    BY <1>4, <1>5, Zenon DEF Finished, p, r, d

\* The plan of a pass that begins.
LEMMA EvaluateBegins ==
    ASSUME WorldInv, RunsInv, StagedInv, PlansInv, NEW h \in Hosts, Evaluate(h)
    PROVE  /\ plan'[h] \in PlanSet(plan'[h].decisions)
           /\ plan'[h].active /\ plan'[h].revision = worktree.revision
           /\ plan'[h].overtaken = {}
           /\ DecisionsInv(plan'[h])
           /\ \A o \in plan'[h].todo : Wanted(o, worktree.revision)
           /\ \A g \in Hosts : g # h => plan'[g] = plan[g]
           /\ DOMAIN plan' = Hosts
           /\ UNCHANGED <<worktree, staged, remote>>
<1>1. PICK state \in {worktree.state} \cup (IF Reliable THEN {} ELSE {"unknown"}),
           available \in {TRUE} \cup (IF Reliable THEN {} ELSE {FALSE}) :
         \E request_ \in {Request(state, available)} :
         \E result_ \in {BuildResult(request_)} :
          plan' = [plan EXCEPT ![h] =
             [active |-> TRUE, revision |-> worktree.revision, ref |-> tip,
              decisions |-> result_.decisions,
              todo |-> ToSet(result_.dispatch_queue),
              fetch |-> {d.obligation : d \in {e \in ToSet(result_.decisions) :
                  e.reason \in {"run_completed_unadmitted", "run_failed"}}},
              overtaken |-> {}]]
    BY Zenon DEF Evaluate
<1> DEFINE req == Request(state, available)
           res == BuildResult(req)
           P == {Project(o, state, available) : o \in Obligations}
           obs == req.obligations
           r == worktree.revision
           new == plan'[h]
<1>2. /\ plan' = [plan EXCEPT ![h] =
             [active |-> TRUE, revision |-> r, ref |-> tip,
              decisions |-> res.decisions,
              todo |-> ToSet(res.dispatch_queue),
              fetch |-> {d.obligation : d \in {e \in ToSet(res.decisions) :
                  e.reason \in FinishReasons}},
              overtaken |-> {}]]
    BY <1>1, Zenon DEF FinishReasons
<1>3. Measured(state)
    BY <1>1 DEF Measured
<1>4. DOMAIN plan = Hosts
    BY DEF PlansInv
<1>5. /\ Order \in Seq(Obligations) /\ DOMAIN Order = 1..Len(Order) /\ Len(Order) \in Nat
    BY OrderIsInjective, LenProperties
<1>6. /\ obs \in Seq(P) /\ Len(obs) = Len(Order)
      /\ \A k \in 1..Len(Order) : /\ Order[k] \in Obligations
                                 /\ obs[k] = Project(Order[k], state, available)
  <2>1. obs = [k \in 1..Len(Order) |-> Project(Order[k], state, available)]
      BY <1>5 DEF Request
  <2>2. \A k \in 1..Len(Order) : Order[k] \in Obligations
      BY <1>5, ElementOfSeq
  <2>3. \A k \in 1..Len(Order) : Project(Order[k], state, available) \in P
      BY <2>2
  <2> HIDE DEF obs, P
  <2> QED  BY <1>5, <2>1, <2>2, <2>3
<1>7. req.max_dispatches \in Nat
    BY AmbientAssumption DEF Request
<1> DEFINE n == Len(Order)
           ev(k) == EvaluateObligation(obs[k])
<1>8. /\ Decided(res.decisions, P, obs, req.max_dispatches, n)
      /\ Queued(res.dispatch_queue, P, obs, req.max_dispatches, n)
    BY <1>6, <1>7, ResultSummed
<1>9. \A k \in 1..n :
         /\ res.decisions[k].obligation = Order[k]
         /\ res.decisions[k].status = ev(k).status
         /\ res.decisions[k].reason = ev(k).reason
         /\ res.decisions[k].verdict = ev(k).verdict
         /\ res.decisions[k].run_identity = ev(k).run_identity
  <2> TAKE k \in 1..n
  <2>1. obs[k].obligation = Order[k]
      BY <1>6, ProjectedFields
  <2>2. k \in 1..Len(obs)
      BY <1>6
  <2>3. req.obligations \in Seq(P) /\ k \in 1..Len(req.obligations)
      BY <1>6, <2>2, Zenon
  <2>4. /\ res.decisions[k].obligation = obs[k].obligation
        /\ res.decisions[k].status = ev(k).status
        /\ res.decisions[k].reason = ev(k).reason
        /\ res.decisions[k].verdict = ev(k).verdict
        /\ res.decisions[k].run_identity = ev(k).run_identity
    <3> HIDE DEF req, P, obs, res
    <3>1. /\ BuildResult(req).decisions[k].obligation = req.obligations[k].obligation
          /\ BuildResult(req).decisions[k].status =
                 EvaluateObligation(req.obligations[k]).status
          /\ BuildResult(req).decisions[k].reason =
                 EvaluateObligation(req.obligations[k]).reason
          /\ BuildResult(req).decisions[k].verdict =
                 EvaluateObligation(req.obligations[k]).verdict
          /\ BuildResult(req).decisions[k].run_identity =
                 EvaluateObligation(req.obligations[k]).run_identity
        BY <1>7, <2>3, StatusBuilt
    <3> QED  BY <3>1, Zenon DEF obs, res
  <2> QED  BY <2>1, <2>4, Zenon
<1>10. DOMAIN res.decisions = 1..n /\ Len(res.decisions) = n
    BY <1>5, <1>8, LenProperties DEF Decided
<1>11. /\ new.active = TRUE /\ new.revision = r /\ new.ref = tip
       /\ new.decisions = res.decisions
       /\ new.todo = ToSet(res.dispatch_queue)
       /\ new.fetch = {d.obligation : d \in {e \in ToSet(res.decisions) :
                                                e.reason \in FinishReasons}}
       /\ new.overtaken = {}
       /\ new = [active |-> new.active, revision |-> new.revision, ref |-> new.ref,
                 decisions |-> new.decisions, todo |-> new.todo,
                 fetch |-> new.fetch, overtaken |-> new.overtaken]
  <2> HIDE DEF res
  <2> QED  BY <1>2, <1>4
<1>12. ASSUME NEW o \in new.todo
       PROVE  o \in Obligations /\ Wanted(o, r)
  <2>1. PICK i \in 1..Len(res.dispatch_queue) : res.dispatch_queue[i] = o
    <3>1. DOMAIN res.dispatch_queue = 1..Len(res.dispatch_queue)
        BY <1>8, LenProperties DEF Queued
    <3> QED  BY <1>11, <3>1 DEF ToSet
  <2>2. PICK k \in AdmittedIn(obs, req.max_dispatches, n) : o = obs[k].obligation
      BY <1>8, <2>1, Zenon DEF Queued
  <2>3. k \in 1..n /\ ev(k).status = "dispatch_eligible"
      BY <2>2 DEF AdmittedIn, EligibleIn, IsEligible
  <2>4. o = Order[k] /\ o \in Obligations /\ obs[k] = Project(o, state, available)
      BY <1>6, <2>2, <2>3, ProjectedFields
  <2> QED  BY <1>3, <2>3, <2>4, WantedObligation
<1>13. \A o \in new.fetch : \E k \in 1..n : /\ o = Order[k] /\ ev(k).reason \in FinishReasons
                                           /\ res.decisions[k].obligation = o
                                           /\ res.decisions[k].reason \in FinishReasons
  <2> HIDE DEF res, ev
  <2> QED  BY <1>9, <1>10, <1>11 DEF ToSet
<1>14. new \in PlanSet(new.decisions)
  <2>1. r \in Nat /\ tip \in Nat
      BY DEF WorldInv
  <2>2. new.fetch \subseteq Obligations
      BY <1>6, <1>13
  <2>3. new.todo \subseteq Obligations
      BY <1>12
  <2> HIDE DEF new
  <2> QED  BY <1>11, <2>1, <2>2, <2>3 DEF PlanSet
<1>15. ASSUME NEW k \in 1..n
       PROVE  LET d == new.decisions[k] IN
              /\ d.status = "current" =>
                    /\ Finished(d.run_identity, d.obligation, new.revision)
                    /\ runs[d.run_identity].artifact[d.obligation] = d.verdict
              /\ d.reason \in FinishReasons =>
                    Finished(d.run_identity, d.obligation, new.revision)
  <2> DEFINE o == Order[k]
             d == new.decisions[k]
             e == EvaluateObligation(Project(o, state, available))
  <2>1. o \in Obligations /\ ev(k) = e
      BY <1>6
  <2>2. /\ e.status = "current" => Finished(e.run_identity, o, r)
                                   /\ runs[e.run_identity].artifact[o] = e.verdict
        /\ e.reason \in FinishReasons => Finished(e.run_identity, o, r)
      BY <2>1, CurrentObligation, FinishedObligation
  <2>3. /\ d.obligation = o /\ d.status = e.status /\ d.reason = e.reason
        /\ d.verdict = e.verdict /\ d.run_identity = e.run_identity
      BY <1>9, <1>11, <2>1
  <2> HIDE DEF d, e, o, new
  <2> QED  BY <1>11, <2>2, <2>3 DEF d
<1>16. DecisionsInv(new)
  <2>1. DOMAIN new.decisions = 1..n /\ Len(new.decisions) = n
      BY <1>10, <1>11
  <2>2. ASSUME NEW k \in DOMAIN new.decisions
        PROVE  k \in DOMAIN Order /\ new.decisions[k].obligation = Order[k]
      BY <2>1, <1>5, <1>9, <1>11
  <2>3. ASSUME NEW o \in new.fetch
        PROVE  \E k \in DOMAIN new.decisions :
                  /\ new.decisions[k].obligation = o
                  /\ new.decisions[k].reason \in FinishReasons
    <3>1. PICK k \in 1..n : /\ res.decisions[k].obligation = o
                            /\ res.decisions[k].reason \in FinishReasons
        BY <1>13
    <3> HIDE DEF new, res, ev
    <3> QED  BY <2>1, <3>1, <1>11
  <2> HIDE DEF new
  <2> QED  BY <2>1, <2>2, <2>3, <1>15, Zenon DEF DecisionsInv
<1> QED
  <2>1. UNCHANGED <<worktree, staged, remote>>
      BY DEF Evaluate
  <2>2. DOMAIN plan' = Hosts /\ \A g \in Hosts : g # h => plan'[g] = plan[g]
      BY <1>2, <1>4, Zenon
  <2> QED  BY <1>11, <1>12, <1>14, <1>16, <2>1, <2>2, Zenon

-----------------------------------------------------------------------------
(* What every step keeps.                                                  *)

TypesInv == WorldInv /\ RunsInv /\ PlansInv

\* The stages of a dispatch call differ.
LEMMA StageFacts ==
    /\ NoStage.step = "none"
    /\ \A o : LET c == [step |-> "claiming", obligation |-> o]
                  d == [step |-> "claimed", obligation |-> o]
             IN  /\ c # NoStage /\ c.step = "claiming" /\ c.obligation = o
                 /\ d # NoStage /\ d.step = "claimed" /\ d.obligation = o
<1>1. NoStage.step = "none"
    BY DEF NoStage
<1>2. ASSUME NEW o
      PROVE  /\ [step |-> "claiming", obligation |-> o].step = "claiming"
             /\ [step |-> "claiming", obligation |-> o].obligation = o
             /\ [step |-> "claimed", obligation |-> o].step = "claimed"
             /\ [step |-> "claimed", obligation |-> o].obligation = o
    OBVIOUS
<1>3. "claiming" # "none" /\ "claimed" # "none"
    OBVIOUS
<1> QED
    BY <1>1, <1>2, <1>3, Zenon

\* How the steps of a dispatch call find its stage, and leave it.
LEMMA StageOf ==
    ASSUME NEW h \in Hosts, NEW o
    PROVE  /\ WriteClaim(h, o) \/ ClaimFails(h, o) =>
                  /\ stage[h] # NoStage /\ stage[h].obligation = o
                  /\ stage[h] = [step |-> "claiming", obligation |-> o]
           /\ Dispatch(h, o) \/ DispatchFails(h, o) =>
                  /\ stage[h] # NoStage /\ stage[h].obligation = o
                  /\ stage[h].step = "claimed"
<1>1. WriteClaim(h, o) \/ ClaimFails(h, o) => stage[h] = [step |-> "claiming", obligation |-> o]
    BY Zenon DEF WriteClaim, ClaimFails
<1>2. Dispatch(h, o) \/ DispatchFails(h, o) => stage[h] = [step |-> "claimed", obligation |-> o]
    BY Zenon DEF Dispatch, DispatchFails
<1> QED
    BY <1>1, <1>2, StageFacts, Zenon

\* Runs are only added, listed and ended.
RunsKept ==
    /\ runs' \in Seq(RunSet)
    /\ \A i \in DOMAIN runs :
          /\ i \in DOMAIN runs'
          /\ runs'[i].workflow = runs[i].workflow
          /\ runs'[i].requested = runs[i].requested
          /\ runs'[i].head = runs[i].head
          /\ runs[i].listed => runs'[i].listed
          /\ runs[i].state = "completed" =>
                /\ runs'[i].state = "completed"
                /\ runs'[i].conclusion = runs[i].conclusion
                /\ runs'[i].artifact = runs[i].artifact

\* A pass only works off what it decided, and is told of listings.
PlanKept(h) ==
    /\ plan'[h] \in PlanSet(plan[h].decisions)
    /\ plan'[h].active = plan[h].active /\ plan'[h].revision = plan[h].revision
    /\ plan'[h].todo \subseteq plan[h].todo
    /\ plan'[h].fetch \subseteq plan[h].fetch
    /\ plan[h].overtaken \subseteq plan'[h].overtaken
    /\ ~plan[h].active => plan'[h] = plan[h]

LEMMA NextCases ==
    ASSUME [Next]_vars
    PROVE  \/ \E h \in Hosts : Evaluate(h)
           \/ \E h \in Hosts, o \in Obligations : Claim(h, o)
           \/ \E h \in Hosts, o \in Obligations : WriteClaim(h, o)
           \/ \E h \in Hosts, o \in Obligations : ClaimFails(h, o)
           \/ \E h \in Hosts, o \in Obligations : Dispatch(h, o)
           \/ \E h \in Hosts, o \in Obligations : DispatchFails(h, o)
           \/ \E h \in Hosts, o \in Obligations : DispatchRefused(h, o)
           \/ \E h \in Hosts, o \in Obligations : Fetch(h, o)
           \/ \E h \in Hosts : EndPass(h)
           \/ Edit \/ Commit \/ Push \/ RefAdvances
           \/ \E i \in DOMAIN runs : ListRun(i)
           \/ \E i \in DOMAIN runs : CompleteRun(i)
           \/ \E id \in claims : ClaimExpires(id)
           \/ UNCHANGED vars
BY Zenon DEF Next, HostStep, RunStep, Expiry

\* The run a dispatch starts, the run that is listed, the run that ends.
NewRun(w, r) ==
    [workflow |-> w, requested |-> r, head |-> tip, listed |-> FALSE,
     state |-> "in_progress", conclusion |-> "none",
     artifact |-> [p \in Obligations |-> "none"]]

Starts(w, r) == runs' = Append(runs, NewRun(w, r))
Lists(i)     == i \in DOMAIN runs /\ runs' = [runs EXCEPT ![i].listed = TRUE]
Ends(i)      ==
    /\ i \in DOMAIN runs /\ runs[i].listed /\ runs[i].state = "in_progress"
    /\ \E c \in {"success", "failure"},
          a \in [Obligations -> {"none", "passed", "failed"}] :
          runs' = [runs EXCEPT ![i].state = "completed",
                               ![i].conclusion = c, ![i].artifact = a]

\* The steps that touch the runs.
LEMMA RunsCases ==
    ASSUME [Next]_vars
    PROVE  \/ UNCHANGED runs
           \/ \E h \in Hosts, o \in Obligations :
                 Dispatch(h, o) /\ Starts(Binding[o], plan[h].revision)
           \/ \E i \in DOMAIN runs : ListRun(i) /\ Lists(i)
           \/ \E i \in DOMAIN runs : CompleteRun(i) /\ Ends(i)
<1>1. ASSUME NEW h, NEW o, Dispatch(h, o)
      PROVE  Starts(Binding[o], plan[h].revision)
    BY <1>1 DEF Dispatch, Identity, Starts, NewRun
<1>2. ASSUME NEW i, ListRun(i)
      PROVE  Lists(i)
    BY <1>2, Zenon DEF ListRun, Lists
<1>3. ASSUME NEW i, CompleteRun(i)
      PROVE  Ends(i)
    BY <1>3, Zenon DEF CompleteRun, Ends
<1>4. \/ UNCHANGED runs
      \/ \E h \in Hosts, o \in Obligations : Dispatch(h, o)
      \/ \E i \in DOMAIN runs : ListRun(i)
      \/ \E i \in DOMAIN runs : CompleteRun(i)
    BY NextCases, Zenon DEF Evaluate, Claim, WriteClaim, ClaimFails, DispatchFails,
       DispatchRefused, Fetch, EndPass, Edit, Commit, Push, RefAdvances,
       ClaimExpires, vars, remote, ledger
<1> QED
    BY <1>1, <1>2, <1>3, <1>4, Zenon

LEMMA StartedRuns ==
    ASSUME WorldInv, RunsInv, NEW w \in Workflows, NEW r \in Nat, Starts(w, r)
    PROVE  /\ runs' \in Seq(RunSet) /\ Len(runs) \in Nat
           /\ DOMAIN runs = 1..Len(runs) /\ DOMAIN runs' = 1..Len(runs) + 1
           /\ \A i \in DOMAIN runs : runs'[i] = runs[i]
           /\ runs'[Len(runs) + 1] = NewRun(w, r)
           /\ NewRun(w, r).workflow = w /\ NewRun(w, r).requested = r
           /\ NewRun(w, r).head = tip /\ NewRun(w, r).listed = FALSE
           /\ NewRun(w, r).state = "in_progress"
<1> DEFINE run == NewRun(w, r)
<1>1. run \in RunSet
    BY DEF NewRun, RunSet, WorldInv
<1>2. /\ run.workflow = w /\ run.requested = r /\ run.head = tip
      /\ run.listed = FALSE /\ run.state = "in_progress"
    BY DEF NewRun
<1> HIDE DEF run
<1>3. runs' = Append(runs, run)
    BY DEF Starts, run
<1>4. runs \in Seq(RunSet) /\ Len(runs) \in Nat /\ DOMAIN runs = 1..Len(runs)
    BY LenProperties DEF RunsInv
<1>5. /\ runs' \in Seq(RunSet) /\ Len(runs') = Len(runs) + 1
      /\ \A i \in 1..Len(runs) : runs'[i] = runs[i]
      /\ runs'[Len(runs) + 1] = run
    BY <1>1, <1>3, <1>4, AppendProperties
<1>6. DOMAIN runs' = 1..Len(runs')
    BY <1>5, LenProperties
<1> QED
    BY <1>2, <1>4, <1>5, <1>6 DEF run

\* One run is changed in place.
LEMMA ChangedRun ==
    ASSUME RunsInv, NEW i \in DOMAIN runs, NEW run \in RunSet,
           runs' = [runs EXCEPT ![i] = run]
    PROVE  /\ runs' \in Seq(RunSet) /\ DOMAIN runs' = DOMAIN runs
           /\ runs'[i] = run
           /\ \A j \in DOMAIN runs : j # i => runs'[j] = runs[j]
<1>1. runs \in Seq(RunSet) /\ i \in 1..Len(runs)
    BY LenProperties DEF RunsInv
<1>2. runs' \in Seq(RunSet)
    BY <1>1, ExceptSeq
<1> QED
    BY <1>2

LEMMA ListedRuns ==
    ASSUME RunsInv, NEW i, Lists(i)
    PROVE  /\ runs' \in Seq(RunSet) /\ DOMAIN runs' = DOMAIN runs
           /\ \A j \in DOMAIN runs : j # i => runs'[j] = runs[j]
           /\ i \in DOMAIN runs
           /\ runs'[i].workflow = runs[i].workflow
           /\ runs'[i].requested = runs[i].requested /\ runs'[i].head = runs[i].head
           /\ runs'[i].listed = TRUE /\ runs'[i].state = runs[i].state
           /\ runs'[i].conclusion = runs[i].conclusion
           /\ runs'[i].artifact = runs[i].artifact
<1> DEFINE run == [runs[i] EXCEPT !.listed = TRUE]
<1>1. i \in DOMAIN runs /\ runs' = [runs EXCEPT ![i] = run]
    BY Zenon DEF Lists
<1>2. runs[i] \in RunSet
    BY <1>1, ElementOfSeq, LenProperties DEF RunsInv
<1>3. /\ run \in RunSet /\ run.workflow = runs[i].workflow
      /\ run.requested = runs[i].requested /\ run.head = runs[i].head
      /\ run.listed = TRUE /\ run.state = runs[i].state
      /\ run.conclusion = runs[i].conclusion /\ run.artifact = runs[i].artifact
    BY <1>2 DEF RunSet
<1> HIDE DEF run
<1> QED
    BY <1>1, <1>3, ChangedRun

LEMMA EndedRuns ==
    ASSUME RunsInv, NEW i, Ends(i)
    PROVE  /\ runs' \in Seq(RunSet) /\ DOMAIN runs' = DOMAIN runs
           /\ \A j \in DOMAIN runs : j # i => runs'[j] = runs[j]
           /\ i \in DOMAIN runs /\ runs[i].state = "in_progress" /\ runs[i].listed
           /\ runs'[i].workflow = runs[i].workflow
           /\ runs'[i].requested = runs[i].requested /\ runs'[i].head = runs[i].head
           /\ runs'[i].listed = runs[i].listed /\ runs'[i].state = "completed"
           /\ runs'[i].conclusion # "none"
<1>1. PICK c \in {"success", "failure"},
           a \in [Obligations -> {"none", "passed", "failed"}] :
              runs' = [runs EXCEPT ![i].state = "completed",
                                   ![i].conclusion = c, ![i].artifact = a]
    BY Zenon DEF Ends
<1> DEFINE run == [runs[i] EXCEPT !.state = "completed", !.conclusion = c, !.artifact = a]
<1>2. i \in DOMAIN runs /\ runs[i].state = "in_progress" /\ runs[i].listed
    BY DEF Ends
<1>3. runs[i] \in RunSet
    BY <1>2, ElementOfSeq, LenProperties DEF RunsInv
<1>4. runs' = [runs EXCEPT ![i] = run]
    BY <1>1, <1>2
<1>5. /\ run \in RunSet /\ run.workflow = runs[i].workflow
      /\ run.requested = runs[i].requested /\ run.head = runs[i].head
      /\ run.listed = runs[i].listed /\ run.state = "completed"
      /\ run.conclusion # "none"
    BY <1>3 DEF RunSet
<1> HIDE DEF run
<1> QED
    BY <1>2, <1>4, <1>5, ChangedRun

LEMMA PlanFacts ==
    ASSUME TypesInv, NEW h \in Hosts
    PROVE  /\ plan[h] \in PlanSet(plan[h].decisions)
           /\ plan[h].revision \in Nat /\ plan[h].revision <= commits
           /\ plan[h].todo \subseteq Obligations /\ plan[h].fetch \subseteq Obligations
           /\ plan[h].overtaken \subseteq IdentitySet
           /\ ~plan[h].active => plan[h] = NoPlan
           /\ plan[h].todo # {} \/ plan[h].fetch # {} => plan[h].active
           /\ plan[h].active \in BOOLEAN
<1>1. /\ plan[h] \in PlanSet(plan[h].decisions) /\ plan[h].revision <= commits
      /\ ~plan[h].active => plan[h] = NoPlan
    BY DEF TypesInv, PlansInv
<1> QED
    BY <1>1 DEF PlanSet, NoPlan

\* The runs after a dispatch.
LEMMA DispatchedRuns ==
    ASSUME TypesInv, NEW h \in Hosts, NEW o \in Obligations,
           Starts(Binding[o], plan[h].revision)
    PROVE  LET n == Len(runs) + 1 IN
           /\ runs' \in Seq(RunSet)
           /\ n \in Nat /\ DOMAIN runs = 1..Len(runs) /\ Len(runs) \in Nat
           /\ DOMAIN runs' = DOMAIN runs \cup {n} /\ n \notin DOMAIN runs
           /\ \A i \in DOMAIN runs : runs'[i] = runs[i] /\ i < n
           /\ runs'[n].workflow = Binding[o] /\ runs'[n].requested = plan[h].revision
           /\ runs'[n].head = tip /\ runs'[n].listed = FALSE
           /\ runs'[n].state = "in_progress"
<1> DEFINE w == Binding[o]
           r == plan[h].revision
<1>1. w \in Workflows /\ r \in Nat
    BY AmbientAssumption, PlanFacts
<1> HIDE DEF w, r
<1>2. Starts(w, r) /\ WorldInv /\ RunsInv
    BY DEF w, r, TypesInv
<1>3. /\ runs' \in Seq(RunSet) /\ Len(runs) \in Nat
      /\ DOMAIN runs = 1..Len(runs) /\ DOMAIN runs' = 1..Len(runs) + 1
      /\ \A i \in DOMAIN runs : runs'[i] = runs[i]
      /\ runs'[Len(runs) + 1] = NewRun(w, r)
      /\ NewRun(w, r).workflow = w /\ NewRun(w, r).requested = r
      /\ NewRun(w, r).head = tip /\ NewRun(w, r).listed = FALSE
      /\ NewRun(w, r).state = "in_progress"
    BY <1>1, <1>2, StartedRuns
<1>4. \A m \in Nat : /\ m + 1 \in Nat /\ m + 1 \notin 1..m
                     /\ 1..m + 1 = (1..m) \cup {m + 1}
                     /\ \A i \in 1..m : i < m + 1
    OBVIOUS
<1> QED
    BY <1>3, <1>4, Zenon DEF w, r

LEMMA RunsStep ==
    ASSUME TypesInv, [Next]_vars
    PROVE  RunsKept
<1>1. CASE UNCHANGED runs
    BY <1>1 DEF RunsKept, TypesInv, RunsInv
<1>2. ASSUME NEW h \in Hosts, NEW o \in Obligations, Starts(Binding[o], plan[h].revision)
      PROVE  RunsKept
  <2>2. /\ runs' \in Seq(RunSet)
        /\ \A i \in DOMAIN runs : i \in DOMAIN runs' /\ runs'[i] = runs[i]
      BY <1>2, DispatchedRuns
  <2> QED  BY <2>2 DEF RunsKept
<1>3. ASSUME NEW i, Lists(i)
      PROVE  RunsKept
    BY <1>3, ListedRuns DEF RunsKept, TypesInv
<1>4. ASSUME NEW i, Ends(i)
      PROVE  RunsKept
  <2>1. /\ runs' \in Seq(RunSet) /\ DOMAIN runs' = DOMAIN runs
        /\ \A j \in DOMAIN runs : j # i => runs'[j] = runs[j]
        /\ runs[i].state = "in_progress"
        /\ runs'[i].workflow = runs[i].workflow
        /\ runs'[i].requested = runs[i].requested /\ runs'[i].head = runs[i].head
        /\ runs'[i].listed = runs[i].listed
      BY <1>4, EndedRuns DEF TypesInv
  <2> QED  BY <2>1 DEF RunsKept
<1> QED
    BY <1>1, <1>2, <1>3, <1>4, RunsCases, Zenon

\* The plan of h when the fields todo, fetch or overtaken change.
LEMMA PlanWorkedOff ==
    ASSUME TypesInv, NEW h \in Hosts, NEW o
    PROVE  LET p == plan[h]
               t == [p EXCEPT !.todo = @ \ {o}]
               f == [p EXCEPT !.fetch = @ \ {o}]
           IN  /\ t \in PlanSet(p.decisions) /\ f \in PlanSet(p.decisions)
               /\ t.active = p.active /\ t.revision = p.revision
               /\ t.todo = p.todo \ {o} /\ t.fetch = p.fetch /\ t.overtaken = p.overtaken
               /\ f.active = p.active /\ f.revision = p.revision
               /\ f.todo = p.todo /\ f.fetch = p.fetch \ {o} /\ f.overtaken = p.overtaken
<1>1. plan[h] \in PlanSet(plan[h].decisions)
    BY PlanFacts
<1> QED
    BY <1>1 DEF PlanSet

LEMMA PlanTold ==
    ASSUME TypesInv, NEW h \in Hosts, NEW id \in IdentitySet
    PROVE  LET p == plan[h]
               q == [p EXCEPT !.overtaken = @ \cup {id}]
           IN  /\ q \in PlanSet(p.decisions)
               /\ q.active = p.active /\ q.revision = p.revision
               /\ q.todo = p.todo /\ q.fetch = p.fetch
               /\ q.overtaken = p.overtaken \cup {id}
<1>1. plan[h] \in PlanSet(plan[h].decisions)
    BY PlanFacts
<1> QED
    BY <1>1 DEF PlanSet

LEMMA TypedRun ==
    ASSUME RunsInv, NEW i \in DOMAIN runs
    PROVE  /\ runs[i] \in RunSet /\ RunIdentity(i) \in IdentitySet
           /\ i \in Nat /\ DOMAIN runs = 1..Len(runs) /\ Len(runs) \in Nat
<1>1. /\ runs \in Seq(RunSet) /\ DOMAIN runs = 1..Len(runs) /\ Len(runs) \in Nat
    BY LenProperties DEF RunsInv
<1>2. runs[i] \in RunSet
    BY <1>1, ElementOfSeq
<1> QED
    BY <1>1, <1>2 DEF RunIdentity, IdentitySet, RunSet

\* Nothing but an evaluation makes a plan; only a listing is told.
LEMMA PlansStep ==
    ASSUME TypesInv, HoldersInv, [Next]_vars
    PROVE  /\ DOMAIN plan' = Hosts
           /\ \A h \in Hosts : PlanKept(h) \/ plan'[h] = NoPlan \/ Evaluate(h)
           /\ \/ \A h \in Hosts :
                    plan'[h].overtaken \subseteq plan[h].overtaken \/ Evaluate(h)
              \/ \E i \in DOMAIN runs : ListRun(i)
<1> DEFINE Good == /\ DOMAIN plan' = Hosts
                   /\ \A h \in Hosts : PlanKept(h) \/ plan'[h] = NoPlan \/ Evaluate(h)
                   /\ \/ \A h \in Hosts :
                            plan'[h].overtaken \subseteq plan[h].overtaken \/ Evaluate(h)
                      \/ \E i \in DOMAIN runs : ListRun(i)
<1>0. DOMAIN plan = Hosts
    BY DEF TypesInv, PlansInv
<1>1. ASSUME NEW h \in Hosts, plan'[h] = plan[h]
      PROVE  PlanKept(h)
    BY <1>1, PlanFacts DEF PlanKept
<1>2. ASSUME UNCHANGED plan
      PROVE  Good
    BY <1>0, <1>1, <1>2, Zenon
<1>3. ASSUME NEW h \in Hosts, Evaluate(h)
      PROVE  Good
  <2>1. DOMAIN plan' = Hosts /\ \A g \in Hosts : g # h => plan'[g] = plan[g]
      BY <1>0, <1>3, Zenon DEF Evaluate
  <2> QED  BY <1>1, <1>3, <2>1, Zenon
<1>4. ASSUME NEW h \in Hosts, NEW p, plan' = [plan EXCEPT ![h] = p],
             \/ PlanKept(h) /\ p.overtaken = plan[h].overtaken
             \/ p = NoPlan
      PROVE  Good
  <2>1. /\ DOMAIN plan' = Hosts /\ \A g \in Hosts : g # h => plan'[g] = plan[g]
        /\ plan'[h] = p
      BY <1>0, <1>4
  <2>2. NoPlan.overtaken = {}
      BY DEF NoPlan
  <2>3. plan'[h].overtaken \subseteq plan[h].overtaken
      BY <1>4, <2>1, <2>2
  <2>4. PlanKept(h) \/ plan'[h] = NoPlan
      BY <1>4, <2>1, Zenon
  <2> QED  BY <1>1, <2>1, <2>3, <2>4
<1>5. ASSUME NEW h \in Hosts, NEW o \in Obligations,
             plan' = [plan EXCEPT ![h].todo = @ \ {o}], o \in plan[h].todo
      PROVE  Good
  <2> DEFINE p == [plan[h] EXCEPT !.todo = @ \ {o}]
  <2>1. plan' = [plan EXCEPT ![h] = p] /\ plan'[h] = p
      BY <1>0, <1>5
  <2>2. PlanKept(h) /\ p.overtaken = plan[h].overtaken
    <3>1. /\ p \in PlanSet(plan[h].decisions)
          /\ p.active = plan[h].active /\ p.revision = plan[h].revision
          /\ p.todo = plan[h].todo \ {o} /\ p.fetch = plan[h].fetch
          /\ p.overtaken = plan[h].overtaken
        BY PlanWorkedOff, Zenon
    <3>2. plan[h].active
        BY <1>5, PlanFacts
    <3> HIDE DEF p
    <3> QED  BY <2>1, <3>1, <3>2 DEF PlanKept
  <2> HIDE DEF p
  <2> QED  BY <1>4, <2>1, <2>2
<1>6. ASSUME NEW h \in Hosts, NEW o \in Obligations,
             plan' = [plan EXCEPT ![h].fetch = @ \ {o}], o \in plan[h].fetch
      PROVE  Good
  <2> DEFINE p == [plan[h] EXCEPT !.fetch = @ \ {o}]
  <2>1. plan' = [plan EXCEPT ![h] = p] /\ plan'[h] = p
      BY <1>0, <1>6
  <2>2. PlanKept(h) /\ p.overtaken = plan[h].overtaken
    <3>1. /\ p \in PlanSet(plan[h].decisions)
          /\ p.active = plan[h].active /\ p.revision = plan[h].revision
          /\ p.fetch = plan[h].fetch \ {o} /\ p.todo = plan[h].todo
          /\ p.overtaken = plan[h].overtaken
        BY PlanWorkedOff, Zenon
    <3>2. plan[h].active
        BY <1>6, PlanFacts
    <3> HIDE DEF p
    <3> QED  BY <2>1, <3>1, <3>2 DEF PlanKept
  <2> HIDE DEF p
  <2> QED  BY <1>4, <2>1, <2>2
<1>7. ASSUME NEW i \in DOMAIN runs, ListRun(i)
      PROVE  Good
  <2>1. plan' = [h \in Hosts |->
                   IF plan[h].active
                   THEN [plan[h] EXCEPT !.overtaken = @ \cup {RunIdentity(i)}]
                   ELSE plan[h]]
      BY <1>7, Zenon DEF ListRun, RunIdentity
  <2>2. RunIdentity(i) \in IdentitySet
      BY TypedRun DEF TypesInv
  <2>3. ASSUME NEW h \in Hosts
        PROVE  PlanKept(h)
    <3>1. CASE plan[h].active
        BY <2>1, <2>2, <3>1, PlanTold DEF PlanKept
    <3>2. CASE ~plan[h].active
        BY <2>1, <3>2, <1>1
    <3> QED  BY <3>1, <3>2
  <2>4. DOMAIN plan' = Hosts
      BY <2>1
  <2> QED  BY <1>7, <2>3, <2>4, Zenon
<1> HIDE DEF Good
<1>8. ASSUME NEW h \in Hosts, EndPass(h)
      PROVE  Good
  <2>1. plan' = [plan EXCEPT ![h] = NoPlan]
      BY <1>8 DEF EndPass
  <2> QED  BY <1>4, <2>1
<1>9. ASSUME NEW h \in Hosts, NEW o \in Obligations,
             ClaimFails(h, o) \/ Dispatch(h, o) \/ DispatchFails(h, o)
      PROVE  Good
  <2>1. plan' = [plan EXCEPT ![h].todo = @ \ {o}]
      BY <1>9, Zenon DEF ClaimFails, Dispatch, DispatchFails
  <2>2. stage[h] # NoStage /\ stage[h].obligation = o
      BY <1>9, StageOf, Zenon
  <2>3. o \in plan[h].todo
      BY <2>1, <2>2 DEF HoldersInv
  <2> QED  BY <1>5, <2>1, <2>3
<1>10. Good
    BY <1>2, <1>3, <1>5, <1>6, <1>7, <1>8, <1>9, NextCases, ZenonT(60)
       DEF Claim, WriteClaim, Dispatch, DispatchRefused, Fetch,
           Edit, Commit, Push, RefAdvances, CompleteRun, ClaimExpires, vars
<1> QED
    BY <1>10 DEF Good

-----------------------------------------------------------------------------
(* The parts of the invariant, preserved by every step.                    *)

\* The steps that touch the checkout, the commits and the branch.
LEMMA WorldCases ==
    ASSUME [Next]_vars
    PROVE  \/ UNCHANGED <<worktree, tip, commits>>
           \/ Edit \/ Commit \/ Push \/ RefAdvances
BY NextCases, Zenon DEF Evaluate, Claim, WriteClaim, ClaimFails, Dispatch, DispatchFails,
   DispatchRefused, Fetch, EndPass, ListRun, CompleteRun, ClaimExpires, vars, remote

\* The steps that touch the ledger and the dispatch calls.
LEMMA LedgerCases ==
    ASSUME [Next]_vars
    PROVE  \/ claims' \subseteq claims /\ lost' = lost
           \/ \E id \in claims : claims' \subseteq claims /\ lost' \subseteq lost \cup {id}
           \/ \E h \in Hosts, o \in Obligations :
                 /\ claims' \subseteq claims \cup {Identity(o, plan[h].revision)}
                 /\ lost' \subseteq lost \cup {Identity(o, plan[h].revision)}
<1>1. CASE \E h \in Hosts, o \in Obligations : Claim(h, o) \/ WriteClaim(h, o) \/ ClaimFails(h, o)
  <2>1. PICK h \in Hosts, o \in Obligations : Claim(h, o) \/ WriteClaim(h, o) \/ ClaimFails(h, o)
      BY <1>1
  <2>2. /\ claims' \subseteq claims \cup {Identity(o, plan[h].revision)}
        /\ lost' \subseteq lost \cup {Identity(o, plan[h].revision)}
      BY <2>1 DEF Claim, WriteClaim, ClaimFails
  <2> QED  BY <2>2
<1>2. CASE \E id \in claims : ClaimExpires(id)
    BY <1>2 DEF ClaimExpires
<1>3. CASE UNCHANGED <<claims, lost>>
    BY <1>3
<1> QED
    BY <1>1, <1>2, <1>3, NextCases, Zenon
       DEF Evaluate, Dispatch, DispatchFails, DispatchRefused, Fetch, EndPass, Edit,
           Commit, Push, RefAdvances, ListRun, CompleteRun, vars, remote, ledger

LEMMA LostKept ==
    ASSUME [Next]_vars
    PROVE  lost \subseteq lost'
<1>1. ASSUME NEW h, NEW o, Claim(h, o)
      PROVE  lost \subseteq lost'
    BY <1>1 DEF Claim
<1>2. ASSUME NEW id, ClaimExpires(id)
      PROVE  lost \subseteq lost'
    BY <1>2 DEF ClaimExpires
<1>3. \/ \E h \in Hosts, o \in Obligations : Claim(h, o)
      \/ \E id \in claims : ClaimExpires(id)
      \/ UNCHANGED lost
    BY NextCases, Zenon DEF Evaluate, WriteClaim, ClaimFails, Dispatch, DispatchFails,
       DispatchRefused, Fetch, EndPass, Edit, Commit, Push, RefAdvances, ListRun,
       CompleteRun, vars, remote, ledger
<1> QED
    BY <1>1, <1>2, <1>3

\* A dispatch call begins, has written its claim, is over or goes on.
LEMMA StagesStep ==
    ASSUME TypesInv, [Next]_vars
    PROVE  /\ stage' \in [Hosts -> StageSet]
           /\ \A h \in Hosts :
                 \/ stage'[h] = NoStage \/ stage'[h] = stage[h]
                 \/ \E o \in Obligations :
                       Claim(h, o) /\ stage'[h] = [step |-> "claiming", obligation |-> o]
                 \/ \E o \in Obligations :
                       /\ WriteClaim(h, o)
                       /\ stage[h] = [step |-> "claiming", obligation |-> o]
                       /\ stage'[h] = [step |-> "claimed", obligation |-> o]
<1> DEFINE Begun(h) == \E o \in Obligations :
                          Claim(h, o) /\ stage'[h] = [step |-> "claiming", obligation |-> o]
           Written(h) == \E o \in Obligations :
                            /\ WriteClaim(h, o)
                            /\ stage[h] = [step |-> "claiming", obligation |-> o]
                            /\ stage'[h] = [step |-> "claimed", obligation |-> o]
           Good == /\ stage' \in [Hosts -> StageSet]
                   /\ \A h \in Hosts : \/ stage'[h] = NoStage \/ stage'[h] = stage[h]
                                       \/ Begun(h) \/ Written(h)
<1>0. stage \in [Hosts -> StageSet]
    BY DEF TypesInv, WorldInv
<1>1. ASSUME NEW h \in Hosts, NEW new \in StageSet, stage' = [stage EXCEPT ![h] = new],
             new = NoStage \/ Begun(h) \/ Written(h)
      PROVE  Good
  <2> HIDE DEF Begun, Written
  <2> QED  BY <1>0, <1>1
<1>2. ASSUME NEW h \in Hosts, NEW o \in Obligations, Claim(h, o)
      PROVE  Good
  <2> DEFINE new == [step |-> "claiming", obligation |-> o]
  <2>1. stage' = [stage EXCEPT ![h] = new] /\ new \in StageSet
      BY <1>2 DEF Claim, StageSet
  <2>2. Begun(h)
      BY <1>0, <1>2, <2>1
  <2> HIDE DEF new, Begun, Written, Good
  <2> QED  BY <1>1, <2>1, <2>2
<1>3. ASSUME NEW h \in Hosts, NEW o \in Obligations, WriteClaim(h, o)
      PROVE  Good
  <2> DEFINE new == [step |-> "claimed", obligation |-> o]
  <2>1. stage[h] = [step |-> "claiming", obligation |-> o] /\ stage' = [stage EXCEPT ![h] = new]
      BY <1>3, Zenon DEF WriteClaim
  <2>2. new \in StageSet
      BY DEF StageSet
  <2>3. Written(h)
      BY <1>0, <1>3, <2>1
  <2> HIDE DEF new, Begun, Written, Good
  <2> QED  BY <1>1, <2>1, <2>2, <2>3
<1>4. ASSUME NEW h \in Hosts, stage' = [stage EXCEPT ![h] = NoStage]
      PROVE  Good
  <2>1. NoStage \in StageSet
      BY DEF StageSet
  <2> HIDE DEF Begun, Written, Good
  <2> QED  BY <1>1, <1>4, <2>1
<1>5. ASSUME UNCHANGED stage
      PROVE  Good
    BY <1>0, <1>5
<1> HIDE DEF Good
<1>6. \/ \E h \in Hosts, o \in Obligations : Claim(h, o)
      \/ \E h \in Hosts, o \in Obligations : WriteClaim(h, o)
      \/ \E h \in Hosts : stage' = [stage EXCEPT ![h] = NoStage]
      \/ UNCHANGED stage
    BY NextCases, Zenon DEF Evaluate, ClaimFails, Dispatch, DispatchFails,
       DispatchRefused, Fetch, EndPass, Edit, Commit, Push, RefAdvances, ListRun,
       CompleteRun, ClaimExpires, vars, remote, ledger
<1>7. Good
    BY <1>2, <1>3, <1>4, <1>5, <1>6, Zenon
<1> QED
    BY <1>7 DEF Good

LEMMA WorldNext ==
    ASSUME TypesInv, [Next]_vars
    PROVE  WorldInv' /\ commits <= commits'
<1>1. WorldInv
    BY DEF TypesInv
<1> DEFINE Inner == /\ commits' \in Nat /\ tip' \in Nat /\ tip' <= commits'
                    /\ worktree' \in [revision : Nat,
                                      state : {"clean", "dirty", "clean_unpublished"}]
                    /\ worktree'.revision <= commits'
                    /\ commits <= commits'
<1>2. Inner
  <2>1. CASE UNCHANGED <<worktree, tip, commits>>
      BY <1>1, <2>1 DEF WorldInv
  <2>2. CASE Edit
      BY <1>1, <2>2 DEF WorldInv, Edit, remote
  <2>3. CASE Commit
      BY <1>1, <2>3 DEF WorldInv, Commit
  <2>4. CASE Push
      BY <1>1, <2>4 DEF WorldInv, Push
  <2>5. CASE RefAdvances
      BY <1>1, <2>5 DEF WorldInv, RefAdvances
  <2> QED  BY <2>1, <2>2, <2>3, <2>4, <2>5, WorldCases
<1>3. claims' \subseteq IdentitySet /\ lost' \subseteq IdentitySet
  <2>1. ASSUME NEW h \in Hosts, NEW o \in Obligations
        PROVE  Identity(o, plan[h].revision) \in IdentitySet
    <3>1. Binding[o] \in Workflows /\ plan[h].revision \in Nat
        BY AmbientAssumption, PlanFacts
    <3> QED  BY <3>1 DEF Identity, IdentitySet
  <2>2. claims \subseteq IdentitySet /\ lost \subseteq IdentitySet
      BY <1>1 DEF WorldInv
  <2>3. \/ claims' \subseteq claims /\ lost' = lost
        \/ \E id \in claims : claims' \subseteq claims /\ lost' \subseteq lost \cup {id}
        \/ \E h \in Hosts, o \in Obligations :
              /\ claims' \subseteq claims \cup {Identity(o, plan[h].revision)}
              /\ lost' \subseteq lost \cup {Identity(o, plan[h].revision)}
    BY LedgerCases, Zenon
  <2> HIDE DEF Inner
  <2> QED  BY <2>1, <2>2, <2>3
<1>4. stage' \in [Hosts -> StageSet]
    BY StagesStep
<1> QED
    BY <1>2, <1>3, <1>4 DEF WorldInv

LEMMA RunsNext ==
    ASSUME TypesInv, [Next]_vars
    PROVE  RunsInv'
<1>1. runs' \in Seq(RunSet)
    BY RunsStep DEF RunsKept
<1>2. commits \in Nat /\ commits' \in Nat /\ commits <= commits'
    BY WorldNext DEF TypesInv, WorldInv
<1>3. RunsInv
    BY DEF TypesInv
<1> DEFINE Fine(run) == /\ run.requested <= commits'
                        /\ run.state = "completed" => run.conclusion # "none"
<1>4. ASSUME NEW j \in DOMAIN runs
      PROVE  Fine(runs[j])
  <2>1. runs[j].requested \in Nat
      BY <1>3, TypedRun DEF RunSet
  <2> QED  BY <1>2, <1>3, <2>1 DEF RunsInv
<1>5. CASE UNCHANGED runs
    BY <1>1, <1>4, <1>5 DEF RunsInv
<1>6. ASSUME NEW h \in Hosts, NEW o \in Obligations, Starts(Binding[o], plan[h].revision)
      PROVE  RunsInv'
  <2>1. Binding[o] \in Workflows /\ plan[h].revision \in Nat /\ plan[h].revision <= commits
      BY AmbientAssumption, PlanFacts
  <2> DEFINE w == Binding[o]
             r == plan[h].revision
             new == NewRun(w, r)
  <2>2. /\ Len(runs) \in Nat /\ DOMAIN runs = 1..Len(runs)
        /\ DOMAIN runs' = 1..Len(runs) + 1
        /\ \A i \in DOMAIN runs : runs'[i] = runs[i]
        /\ runs'[Len(runs) + 1] = new
        /\ new.requested = r /\ new.state = "in_progress"
    <3>1. WorldInv /\ RunsInv
        BY DEF TypesInv
    <3> HIDE DEF w, r
    <3>2. Starts(w, r) /\ w \in Workflows /\ r \in Nat
        BY <1>6, <2>1, Zenon DEF w, r
    <3> QED  BY <3>1, <3>2, StartedRuns
  <2>3. Fine(new)
      BY <1>2, <2>1, <2>2
  <2> HIDE DEF new, Fine
  <2>4. \A i \in DOMAIN runs' : i \in DOMAIN runs \/ i = Len(runs) + 1
      BY <2>2
  <2>5. \A i \in DOMAIN runs' : Fine(runs'[i])
      BY <1>4, <2>2, <2>3, <2>4, Zenon
  <2> QED  BY <1>1, <2>5, SMTT(30) DEF RunsInv, Fine
<1>7. ASSUME NEW i, Lists(i)
      PROVE  RunsInv'
  <2>1. \A j \in DOMAIN runs' : j \in DOMAIN runs /\ Fine(runs'[j])
    <3>1. /\ DOMAIN runs' = DOMAIN runs
          /\ \A j \in DOMAIN runs : j # i => runs'[j] = runs[j]
          /\ runs'[i].requested = runs[i].requested
          /\ runs'[i].state = runs[i].state /\ runs'[i].conclusion = runs[i].conclusion
      <4>1. /\ runs' \in Seq(RunSet) /\ DOMAIN runs' = DOMAIN runs
            /\ \A j \in DOMAIN runs : j # i => runs'[j] = runs[j]
            /\ i \in DOMAIN runs
            /\ runs'[i].workflow = runs[i].workflow
            /\ runs'[i].requested = runs[i].requested /\ runs'[i].head = runs[i].head
            /\ runs'[i].listed = TRUE /\ runs'[i].state = runs[i].state
            /\ runs'[i].conclusion = runs[i].conclusion
            /\ runs'[i].artifact = runs[i].artifact
          BY <1>3, <1>7, ListedRuns
      <4> QED  BY <4>1, Zenon
    <3> QED  BY <1>4, <3>1
  <2> QED  BY <1>1, <2>1 DEF RunsInv
<1>8. ASSUME NEW i, Ends(i)
      PROVE  RunsInv'
  <2>1. \A j \in DOMAIN runs' : j \in DOMAIN runs /\ Fine(runs'[j])
    <3>1. /\ DOMAIN runs' = DOMAIN runs
          /\ \A j \in DOMAIN runs : j # i => runs'[j] = runs[j]
          /\ runs'[i].requested = runs[i].requested
          /\ runs'[i].conclusion # "none" /\ i \in DOMAIN runs
        BY <1>3, <1>8, EndedRuns
    <3> QED  BY <1>4, <3>1
  <2> QED  BY <1>1, <2>1 DEF RunsInv
<1> QED
    BY <1>5, <1>6, <1>7, <1>8, RunsCases, Zenon

\* A run that is over stays what it was.
LEMMA FinishedKept ==
    ASSUME RunsKept, NEW i, NEW o, NEW r, Finished(i, o, r)
    PROVE  Finished(i, o, r)' /\ runs'[i].artifact = runs[i].artifact
BY DEF RunsKept, Finished

LEMMA FailedKept ==
    ASSUME RunsInv, RunsKept, NEW w, NEW r, NEW n \in 0..Len(runs), FailedAt(w, r, n)
    PROVE  FailedAt(w, r, n)'
<1>1. DOMAIN runs = 1..Len(runs) /\ Len(runs) \in Nat
    BY LenProperties DEF RunsInv
<1>2. PICK j \in 1..n : /\ runs[j].workflow = w /\ runs[j].head = r
                        /\ runs[j].state = "completed" /\ runs[j].conclusion = "failure"
    BY DEF FailedAt
<1>3. j \in DOMAIN runs
    BY <1>1
<1> QED
    BY <1>2, <1>3 DEF FailedAt, RunsKept

\* The same workflow at a commit it was not requested for stays there.
LEMMA UnracedBefore ==
    ASSUME RunsKept, NEW w, NEW r, Unraced(w, r)'
    PROVE  Unraced(w, r)
BY DEF RunsKept, Unraced

LEMMA UndoubledBefore ==
    ASSUME RunsKept, lost \subseteq lost', NEW w, NEW r, Undoubled(w, r)'
    PROVE  Undoubled(w, r)
BY UnracedBefore DEF Undoubled

LEMMA StagedNext ==
    ASSUME TypesInv, StagedInv, [Next]_vars
    PROVE  StagedInv'
<1>1. RunsKept
    BY RunsStep
<1> DEFINE Proof(o, e) == \E i \in DOMAIN runs :
                             /\ e = EvidenceOf(o, i)
                             /\ runs[i].workflow = Binding[o] /\ runs[i].state = "completed"
           Staged(o, e) == e = NoEvidence \/ Proof(o, e)
<1>2. ASSUME NEW o \in Obligations, NEW e, Staged(o, e)
      PROVE  Staged(o, e)'
  <2>1. ASSUME NEW i \in DOMAIN runs, e = EvidenceOf(o, i),
               runs[i].workflow = Binding[o], runs[i].state = "completed"
        PROVE  Staged(o, e)'
    <3>1. /\ i \in DOMAIN runs' /\ runs'[i].workflow = Binding[o]
          /\ runs'[i].state = "completed" /\ runs'[i].head = runs[i].head
          /\ runs'[i].artifact = runs[i].artifact
        BY <1>1, <2>1 DEF RunsKept
    <3>2. e = EvidenceOf(o, i)'
        BY <2>1, <3>1 DEF EvidenceOf
    <3> QED  BY <3>1, <3>2
  <2> QED  BY <1>2, <2>1
<1>3. DOMAIN staged = Obligations /\ \A o \in Obligations : Staged(o, staged[o])
    BY Zenon DEF StagedInv
<1>4. CASE UNCHANGED staged
  <2> HIDE DEF Staged
  <2>1. \A o \in Obligations : Staged(o, staged[o])'
      BY <1>2, <1>3, <1>4
  <2> QED  BY <1>3, <1>4, <2>1, Zenon DEF StagedInv, Staged
<1>5. ASSUME NEW h \in Hosts, NEW o \in Obligations, Fetch(h, o)
      PROVE  StagedInv'
  <2> DEFINE i == DecidedRun(h, o)
             ds == plan[h].decisions
  <2>1. /\ o \in plan[h].fetch /\ UNCHANGED runs
        /\ staged' = IF runs[i].artifact[o] = "none" THEN staged
                     ELSE [staged EXCEPT ![o] = EvidenceOf(o, i)]
      BY <1>5, Zenon DEF Fetch, EvidenceOf, remote
  <2>2. Finished(i, o, plan[h].revision)
    <3> DEFINE k == CHOOSE n \in DOMAIN ds : ds[n].obligation = o
    <3>1. DecisionsInv(plan[h])
        BY DEF TypesInv, PlansInv
    <3>2. PICK n \in DOMAIN ds : ds[n].obligation = o /\ ds[n].reason \in FinishReasons
        BY <2>1, <3>1 DEF DecisionsInv
    <3>3. k \in DOMAIN ds /\ ds[k].obligation = o
        BY <3>2, Zenon
    <3> HIDE DEF k
    <3>4. /\ k \in DOMAIN Order /\ n \in DOMAIN Order
          /\ Order[k] = o /\ Order[n] = o
        BY <3>1, <3>2, <3>3 DEF DecisionsInv
    <3>5. k = n
        BY <3>4, OrderIsInjective, Zenon
    <3>6. i = ds[k].run_identity
        BY Zenon DEF DecidedRun, k
    <3> HIDE DEF i
    <3> QED  BY <3>1, <3>2, <3>5, <3>6 DEF DecisionsInv
  <2> HIDE DEF i
  <2>3. Proof(o, EvidenceOf(o, i))
      BY <2>2 DEF Finished
  <2>4. DOMAIN staged' = Obligations /\ \A p \in Obligations : Staged(p, staged'[p])
    <3>1. CASE runs[i].artifact[o] = "none"
        BY <1>3, <2>1, <3>1, Zenon
    <3>2. CASE runs[i].artifact[o] # "none"
      <4> HIDE DEF Proof
      <4> QED  BY <1>3, <2>1, <2>3, <3>2
    <3> QED  BY <3>1, <3>2
  <2>5. \A p \in Obligations : Staged(p, staged[p])'
    <3> HIDE DEF Staged
    <3> QED  BY <1>2, <2>4
  <2> QED  BY <2>4, <2>5, Zenon DEF StagedInv
<1> QED
    BY <1>4, <1>5, NextCases, Zenon
       DEF Evaluate, Claim, WriteClaim, ClaimFails, Dispatch, DispatchFails,
           DispatchRefused, EndPass, Edit, Commit, Push, RefAdvances, ListRun,
           CompleteRun, ClaimExpires, vars, remote

\* The decisions of a pass hold as long as it lasts.
LEMMA DecisionsKept ==
    ASSUME RunsKept, NEW p, NEW q, DecisionsInv(p),
           q.decisions = p.decisions, q.revision = p.revision, q.fetch \subseteq p.fetch
    PROVE  DecisionsInv(q)'
<1>1. q.decisions = << >> \/ Len(q.decisions) = Len(Order)
    BY DEF DecisionsInv
<1>2. ASSUME NEW k \in DOMAIN q.decisions
      PROVE  LET d == q.decisions[k] IN
             /\ k \in DOMAIN Order /\ d.obligation = Order[k]
             /\ d.status = "current" =>
                   /\ Finished(d.run_identity, d.obligation, q.revision)'
                   /\ runs'[d.run_identity].artifact[d.obligation] = d.verdict
             /\ d.reason \in FinishReasons =>
                   Finished(d.run_identity, d.obligation, q.revision)'
  <2> DEFINE d == p.decisions[k]
             i == d.run_identity
             r == p.revision
  <2>1. /\ k \in DOMAIN Order /\ d.obligation = Order[k]
        /\ d.status = "current" =>
              Finished(i, d.obligation, r) /\ runs[i].artifact[d.obligation] = d.verdict
        /\ d.reason \in FinishReasons => Finished(i, d.obligation, r)
      BY Zenon DEF DecisionsInv
  <2>2. Finished(i, d.obligation, r) =>
            Finished(i, d.obligation, r)' /\ runs'[i].artifact = runs[i].artifact
      BY FinishedKept, Zenon
  <2> QED  BY <2>1, <2>2, Zenon
<1>3. ASSUME NEW o \in q.fetch
      PROVE  \E k \in DOMAIN q.decisions : /\ q.decisions[k].obligation = o
                                           /\ q.decisions[k].reason \in FinishReasons
  <2>1. o \in p.fetch
      OBVIOUS
  <2>2. \E k \in DOMAIN p.decisions : /\ p.decisions[k].obligation = o
                                      /\ p.decisions[k].reason \in FinishReasons
      BY <2>1, Zenon DEF DecisionsInv
  <2>3. q.decisions = p.decisions
      OBVIOUS
  <2> QED  BY <2>2, <2>3
<1> QED
    BY <1>1, <1>2, <1>3, Zenon DEF DecisionsInv

LEMMA PlansNext ==
    ASSUME TypesInv, HoldersInv, StagedInv, [Next]_vars
    PROVE  PlansInv'
<1>1. /\ DOMAIN plan' = Hosts
      /\ \A h \in Hosts : PlanKept(h) \/ plan'[h] = NoPlan \/ Evaluate(h)
    BY PlansStep
<1>2. commits' \in Nat /\ commits \in Nat /\ commits <= commits'
    BY WorldNext DEF WorldInv, TypesInv
<1>3. ASSUME NEW h \in Hosts
      PROVE  /\ plan'[h] \in PlanSet(plan'[h].decisions)
             /\ plan'[h].revision <= commits'
             /\ ~plan'[h].active => plan'[h] = NoPlan
             /\ DecisionsInv(plan[h])'
  <2>0. PICK q : q = plan'[h]
      OBVIOUS
  <2>4. DecisionsInv(q)' => DecisionsInv(plan[h])'
      BY <2>0 DEF DecisionsInv, Finished
  <2>1. CASE PlanKept(h)
    <3>1. /\ plan'[h] \in PlanSet(plan[h].decisions)
          /\ plan'[h].active = plan[h].active /\ plan'[h].revision = plan[h].revision
          /\ plan'[h].fetch \subseteq plan[h].fetch
          /\ ~plan[h].active => plan'[h] = plan[h]
        BY <2>1 DEF PlanKept
    <3>2. plan'[h].decisions = plan[h].decisions
        BY <3>1 DEF PlanSet
    <3>3. DecisionsInv(plan[h])
        BY DEF TypesInv, PlansInv
    <3>4. DecisionsInv(q)'
        BY <2>0, <3>1, <3>2, <3>3, RunsStep, DecisionsKept
    <3>5. plan[h].revision \in Nat /\ plan[h].revision <= commits
          /\ (~plan[h].active => plan[h] = NoPlan)
        BY PlanFacts
    <3> QED  BY <1>2, <2>4, <3>1, <3>2, <3>4, <3>5
  <2>2. CASE plan'[h] = NoPlan
    <3>1. NoPlan \in PlanSet(NoPlan.decisions) /\ NoPlan.revision = 0
        BY DEF NoPlan, PlanSet
    <3>2. DecisionsInv(q)'
      <4>1. q.decisions = << >> /\ q.fetch = {} /\ DOMAIN q.decisions = {}
          BY <2>0, <2>2 DEF NoPlan
      <4> QED  BY <4>1 DEF DecisionsInv
    <3> QED  BY <1>2, <2>2, <2>4, <3>1, <3>2
  <2>3. CASE Evaluate(h)
    <3>1. /\ plan'[h] \in PlanSet(plan'[h].decisions) /\ plan'[h].active
          /\ plan'[h].revision = worktree.revision /\ DecisionsInv(plan'[h])
        BY <2>3, EvaluateBegins DEF TypesInv
    <3>2. worktree.revision \in Nat /\ worktree.revision <= commits
        BY DEF TypesInv, WorldInv
    <3>3. DecisionsInv(q)
        BY <2>0, <3>1
    <3>4. DecisionsInv(q)'
        BY <3>3, RunsStep, DecisionsKept
    <3> QED  BY <1>2, <2>4, <3>1, <3>2, <3>4
  <2> QED  BY <1>1, <2>1, <2>2, <2>3
<1> QED
    BY <1>1, <1>3, Zenon DEF PlansInv

\* An unpublished commit stays out of every plan and every run.
LEMMA UnpublishedNext ==
    ASSUME TypesInv, HoldersInv, StagedInv, UnpublishedInv, [Next]_vars
    PROVE  UnpublishedInv'
<1> SUFFICES ASSUME worktree'.state = "clean_unpublished"
             PROVE  /\ \A i \in DOMAIN runs' : runs'[i].requested # worktree'.revision
                    /\ \A h \in Hosts : plan'[h].revision = worktree'.revision =>
                                            plan'[h].todo = {}
    BY DEF UnpublishedInv
<1>0. commits \in Nat /\ RunsInv /\ WorldInv
    BY DEF TypesInv, WorldInv
<1>1. CASE Commit
  <2>1. worktree'.revision = commits + 1 /\ UNCHANGED <<runs, plan>>
      BY <1>1 DEF Commit
  <2>2. \A i \in DOMAIN runs : runs[i].requested \in Nat /\ runs[i].requested <= commits
      BY <1>0, TypedRun DEF RunsInv, RunSet
  <2>3. \A h \in Hosts : plan[h].revision \in Nat /\ plan[h].revision <= commits
      BY PlanFacts
  <2> QED  BY <1>0, <2>1, <2>2, <2>3
<1>2. CASE ~Commit
  <2>1. UNCHANGED worktree
    <3>1. ~Edit
        BY DEF Edit, TypesInv, WorldInv
    <3>2. ~Push
        BY DEF Push, TypesInv, WorldInv
    <3> QED  BY <1>2, <3>1, <3>2, WorldCases DEF RefAdvances
  <2>2. /\ \A i \in DOMAIN runs : runs[i].requested # worktree.revision
        /\ \A h \in Hosts : plan[h].revision = worktree.revision => plan[h].todo = {}
      BY <2>1 DEF UnpublishedInv
  <2>3. ASSUME NEW h \in Hosts, plan'[h].revision = worktree.revision
        PROVE  plan'[h].todo = {}
    <3>1. CASE PlanKept(h)
        BY <2>2, <2>3, <3>1 DEF PlanKept
    <3>2. CASE plan'[h] = NoPlan
        BY <3>2 DEF NoPlan
    <3>3. CASE Evaluate(h)
      <4>1. \A o \in plan'[h].todo : Wanted(o, worktree.revision)
          BY <3>3, EvaluateBegins DEF TypesInv
      <4> QED  BY <2>1, <4>1 DEF Wanted
    <3> QED  BY <3>1, <3>2, <3>3, PlansStep
  <2>4. ASSUME NEW i \in DOMAIN runs'
        PROVE  runs'[i].requested # worktree.revision
    <3>1. CASE i \in DOMAIN runs
        BY <2>2, <3>1, RunsStep DEF RunsKept
    <3>2. CASE i \notin DOMAIN runs
      <4>1. PICK h \in Hosts, o \in Obligations :
                Dispatch(h, o) /\ Starts(Binding[o], plan[h].revision)
          BY <1>0, <3>2, RunsCases, ListedRuns, EndedRuns
      <4>2. stage[h] # NoStage /\ stage[h].obligation = o
          BY <4>1, StageOf, Zenon
      <4>3. o \in plan[h].todo
          BY <4>2 DEF HoldersInv
      <4>4. plan[h].revision # worktree.revision
          BY <2>2, <4>3
      <4>5. /\ DOMAIN runs' = DOMAIN runs \cup {Len(runs) + 1}
            /\ runs'[Len(runs) + 1].requested = plan[h].revision
          BY <4>1, DispatchedRuns
      <4>6. i = Len(runs) + 1
          BY <3>2, <4>5
      <4> QED  BY <4>4, <4>5, <4>6
    <3> QED  BY <3>1, <3>2
  <2> QED  BY <2>1, <2>3, <2>4
<1> QED
    BY <1>1, <1>2

\* What a listing tells the passes under way.
LEMMA ListedPlans ==
    ASSUME TypesInv, NEW i \in DOMAIN runs, ListRun(i), NEW h \in Hosts
    PROVE  /\ plan'[h].overtaken \subseteq plan[h].overtaken \cup {RunIdentity(i)}
           /\ plan[h].active => RunIdentity(i) \in plan'[h].overtaken
<1>1. plan' = [g \in Hosts |->
                 IF plan[g].active
                 THEN [plan[g] EXCEPT !.overtaken = @ \cup {RunIdentity(i)}]
                 ELSE plan[g]]
    BY Zenon DEF ListRun, RunIdentity
<1>2. RunIdentity(i) \in IdentitySet
    BY TypedRun DEF TypesInv
<1>3. [plan[h] EXCEPT !.overtaken = @ \cup {RunIdentity(i)}].overtaken =
          plan[h].overtaken \cup {RunIdentity(i)}
    BY <1>2, PlanTold
<1> QED
    BY <1>1, <1>3

\* The identity a dispatch is about: claimed, and without a rival all seen.
LEMMA DispatchHolds ==
    ASSUME HoldersInv, NEW h \in Hosts, NEW o, Dispatch(h, o)
    PROVE  LET id == Identity(o, plan[h].revision) IN
           /\ o \in plan[h].todo /\ stage[h] # NoStage /\ Held(h) = id
           /\ id \in claims \cup lost
           /\ id \notin lost => AllSeen(id)
<1>1. /\ stage[h] # NoStage /\ stage[h].step = "claimed" /\ stage[h].obligation = o
    BY StageOf, Zenon
<1>2. Held(h) = Identity(o, plan[h].revision)
    BY <1>1, Zenon DEF Held
<1> QED
    BY <1>1, <1>2 DEF HoldersInv

\* A claim goes away unnoticed only when there is nothing left to see.
LEMMA ClaimsStep ==
    ASSUME TypesInv, HoldersInv, [Next]_vars,
           NEW id \in claims \cup lost, id \notin claims' \cup lost'
    PROVE  /\ AllSeen(id)
           /\ \A h \in Hosts : stage[h] # NoStage /\ Held(h) = id => stage'[h] = NoStage
<1>1. id \in claims /\ id \notin claims' /\ id \notin lost /\ id \notin lost'
    BY LostKept
<1>2. CASE \E d \in claims : ClaimExpires(d)
  <2>1. PICK d \in claims : ClaimExpires(d)
      BY <1>2
  <2>2. d = id /\ ~Covering(id)
      BY <1>1, <2>1 DEF ClaimExpires
  <2>3. ASSUME NEW i \in DOMAIN runs, RunIdentity(i) = id
        PROVE  runs[i].listed
      BY <2>2, <2>3 DEF Covering, RunIdentity
  <2>4. \A h \in Hosts : id \notin plan[h].overtaken /\ ~Holder(h, id)
      BY <2>2 DEF Covering
  <2> QED  BY <2>3, <2>4 DEF AllSeen, Holder, Held
<1>3. CASE \E h \in Hosts, o \in Obligations : ClaimFails(h, o)
  <2>1. PICK h \in Hosts, o \in Obligations : ClaimFails(h, o)
      BY <1>3
  <2>0. claims' \in {claims, claims \ {Identity(o, plan[h].revision)}}
      BY <2>1 DEF ClaimFails
  <2>2. /\ stage[h] # NoStage /\ stage[h].obligation = o
        /\ Identity(o, plan[h].revision) = id
    <3>1. stage[h] # NoStage /\ stage[h].obligation = o
        BY <2>1, StageOf, Zenon
    <3>2. Identity(o, plan[h].revision) = id
        BY <1>1, <2>0
    <3> QED  BY <3>1, <3>2
  <2>3. Held(h) = id
      BY <2>2 DEF Held
  <2>4. AllSeen(id)
      BY <1>1, <2>2, <2>3 DEF HoldersInv
  <2>5. \A g \in Hosts : stage[g] # NoStage /\ Held(g) = id => g = h
      BY <1>1, <2>2, <2>3 DEF HoldersInv
  <2>6. stage'[h] = NoStage
      BY <2>1 DEF ClaimFails, TypesInv, WorldInv
  <2> QED  BY <2>4, <2>5, <2>6
<1>4. claims \subseteq claims' \/ (\E d \in claims : ClaimExpires(d))
      \/ (\E h \in Hosts, o \in Obligations : ClaimFails(h, o))
  <2>1. ASSUME NEW h, NEW o, WriteClaim(h, o)
        PROVE  claims \subseteq claims'
      BY <2>1 DEF WriteClaim
  <2>2. \/ UNCHANGED claims \/ (\E d \in claims : ClaimExpires(d))
        \/ (\E h \in Hosts, o \in Obligations : ClaimFails(h, o))
        \/ (\E h \in Hosts, o \in Obligations : WriteClaim(h, o))
      BY NextCases, Zenon
         DEF Evaluate, Claim, Dispatch, DispatchFails, DispatchRefused, Fetch, EndPass,
             Edit, Commit, Push, RefAdvances, ListRun, CompleteRun, vars, remote, ledger
  <2> QED  BY <2>1, <2>2
<1> QED
    BY <1>1, <1>2, <1>3, <1>4

\* What becomes new to see, and of which identity.
LEMMA SeenStep ==
    ASSUME TypesInv, HoldersInv, StagedInv, [Next]_vars, NEW id
    PROVE  \/ AllSeen(id) => AllSeen(id)'
           \/ \E h \in Hosts, o \in Obligations :
                 Dispatch(h, o) /\ Identity(o, plan[h].revision) = id
<1>1. SUFFICES ASSUME AllSeen(id), ~AllSeen(id)'
               PROVE  \E h \in Hosts, o \in Obligations :
                         Dispatch(h, o) /\ Identity(o, plan[h].revision) = id
    OBVIOUS
<1>2. RunsKept
    BY RunsStep
<1>3. ASSUME NEW i \in DOMAIN runs', RunIdentity(i)' = id, ~runs'[i].listed
      PROVE  \E h \in Hosts, o \in Obligations :
                Dispatch(h, o) /\ Identity(o, plan[h].revision) = id
  <2>1. i \notin DOMAIN runs
    <3>1. ASSUME i \in DOMAIN runs
          PROVE  FALSE
      <4>1. RunIdentity(i) = id /\ ~runs[i].listed
          BY <1>2, <1>3, <3>1 DEF RunsKept, RunIdentity
      <4> QED  BY <1>1, <3>1, <4>1 DEF AllSeen
    <3> QED  BY <3>1
  <2>2. PICK h \in Hosts, o \in Obligations :
            Dispatch(h, o) /\ Starts(Binding[o], plan[h].revision)
      BY <1>3, <2>1, RunsCases, ListedRuns, EndedRuns DEF TypesInv
  <2>3. /\ i = Len(runs) + 1 /\ runs'[i].workflow = Binding[o]
        /\ runs'[i].requested = plan[h].revision
      BY <1>3, <2>1, <2>2, DispatchedRuns
  <2>4. Identity(o, plan[h].revision) = id
      BY <1>3, <2>3 DEF RunIdentity, Identity
  <2> QED  BY <2>2, <2>4
<1>4. ASSUME NEW h \in Hosts
      PROVE  id \notin plan'[h].overtaken
  <2>1. CASE \E i \in DOMAIN runs : ListRun(i)
    <3>1. PICK i \in DOMAIN runs : ListRun(i)
        BY <2>1
    <3>2. RunIdentity(i) # id
        BY <1>1, <3>1 DEF AllSeen, ListRun
    <3> QED  BY <1>1, <3>1, <3>2, ListedPlans DEF AllSeen
  <2>2. CASE plan'[h].overtaken \subseteq plan[h].overtaken
      BY <1>1, <2>2 DEF AllSeen
  <2>3. CASE Evaluate(h)
      BY <2>3, EvaluateBegins DEF TypesInv
  <2> QED  BY <2>1, <2>2, <2>3, PlansStep
<1>5. \E i \in DOMAIN runs' : RunIdentity(i)' = id /\ ~runs'[i].listed
    BY <1>1, <1>4 DEF AllSeen, RunIdentity
<1> QED
    BY <1>3, <1>5

LEMMA ClaimsNext ==
    ASSUME TypesInv, HoldersInv, StagedInv, ClaimsInv, [Next]_vars
    PROVE  ClaimsInv'
<1>1. ASSUME NEW id, ~AllSeen(id)
      PROVE  id \in claims' \cup lost'
  <2>1. id \in claims \cup lost
      BY <1>1 DEF AllSeen, ClaimsInv
  <2> QED  BY <1>1, <2>1, ClaimsStep
<1>2. ASSUME NEW id, ~AllSeen(id)'
      PROVE  id \in claims' \cup lost'
  <2>1. CASE ~AllSeen(id)
      BY <1>1, <2>1
  <2>2. CASE AllSeen(id)
    <3>1. PICK h \in Hosts, o \in Obligations :
              Dispatch(h, o) /\ Identity(o, plan[h].revision) = id
        BY <1>2, <2>2, SeenStep
    <3>2. id \in claims \cup lost
        BY <3>1, DispatchHolds
    <3>3. UNCHANGED <<claims, lost>>
        BY <3>1 DEF Dispatch
    <3> QED  BY <3>2, <3>3
  <2> QED  BY <2>1, <2>2
<1>3. ASSUME NEW i \in DOMAIN runs', ~runs'[i].listed
      PROVE  RunIdentity(i)' \in claims' \cup lost'
  <2>1. PICK id : id = RunIdentity(i)'
      OBVIOUS
  <2>2. ~AllSeen(id)'
      BY <1>3, <2>1 DEF AllSeen, RunIdentity
  <2> QED  BY <1>2, <2>1, <2>2
<1>4. ASSUME NEW h \in Hosts, NEW id \in plan'[h].overtaken
      PROVE  id \in claims' \cup lost'
  <2>1. ~AllSeen(id)'
      BY <1>4 DEF AllSeen
  <2> QED  BY <1>2, <2>1
<1> QED
    BY <1>3, <1>4 DEF ClaimsInv

\* A dispatch call that goes on is still about the same obligation of the same
\* pass.
LEMMA HolderKept ==
    ASSUME TypesInv, HoldersInv, [Next]_vars, NEW h \in Hosts,
           stage[h] # NoStage, stage'[h] # NoStage
    PROVE  /\ stage'[h].obligation = stage[h].obligation
           /\ plan'[h].todo = plan[h].todo
           /\ Held(h)' = Held(h)
<1>1. stage[h].obligation \in plan[h].todo /\ plan[h].active
    BY PlanFacts DEF HoldersInv
<1>2. stage'[h].obligation = stage[h].obligation
  <2>1. ~ \E o \in Obligations : Claim(h, o)
      BY DEF Claim
  <2>2. stage'[h] = stage[h] \/ \E o \in Obligations :
            /\ stage[h] = [step |-> "claiming", obligation |-> o]
            /\ stage'[h] = [step |-> "claimed", obligation |-> o]
      BY <2>1, StagesStep
  <2>3. CASE stage'[h] = stage[h]
      BY <2>3
  <2>4. CASE stage'[h] # stage[h]
    <3>1. PICK o \in Obligations :
              /\ stage[h] = [step |-> "claiming", obligation |-> o]
              /\ stage'[h] = [step |-> "claimed", obligation |-> o]
        BY <2>2, <2>4
    <3>2. stage[h].obligation = o
        BY <3>1
    <3>3. stage'[h].obligation = o
        BY <3>1
    <3> QED  BY <3>2, <3>3
  <2> QED  BY <2>3, <2>4
<1>3. DOMAIN plan = Hosts /\ DOMAIN stage = Hosts
    BY DEF TypesInv, PlansInv, WorldInv
<1> DEFINE Same == plan'[h].todo = plan[h].todo /\ plan'[h].revision = plan[h].revision
<1>4. ASSUME UNCHANGED plan
      PROVE  Same
    BY <1>4
<1>5. ASSUME NEW g \in Hosts, NEW p, plan' = [plan EXCEPT ![g] = p], g # h
      PROVE  Same
    BY <1>3, <1>5
<1>6. ASSUME NEW g \in Hosts, Evaluate(g) \/ EndPass(g)
      PROVE  Same
  <2>1. g # h
      BY <1>1, <1>6 DEF Evaluate, EndPass
  <2>2. CASE Evaluate(g)
      BY <1>3, <2>1, <2>2, Zenon DEF Evaluate
  <2>3. CASE EndPass(g)
      BY <1>5, <2>1, <2>3 DEF EndPass
  <2> QED  BY <1>6, <2>2, <2>3
<1>7. ASSUME NEW g \in Hosts, NEW o,
             ClaimFails(g, o) \/ Dispatch(g, o) \/ DispatchFails(g, o) \/ DispatchRefused(g, o)
      PROVE  Same
  <2>1. g # h
    <3>1. stage'[g] = NoStage
        BY <1>3, <1>7, Zenon DEF ClaimFails, Dispatch, DispatchFails, DispatchRefused, remote, ledger
    <3> QED  BY <3>1
  <2>2. plan' = [plan EXCEPT ![g] = [plan[g] EXCEPT !.todo = @ \ {o}]]
      BY <1>7, Zenon DEF ClaimFails, Dispatch, DispatchFails, DispatchRefused
  <2> QED  BY <1>5, <2>1, <2>2
<1>8. ASSUME NEW g \in Hosts, NEW o, Fetch(g, o)
      PROVE  Same
  <2>1. g # h
      BY <1>8 DEF Fetch
  <2>2. plan' = [plan EXCEPT ![g] = [plan[g] EXCEPT !.fetch = @ \ {o}]]
      BY <1>8, Zenon DEF Fetch
  <2> QED  BY <1>5, <2>1, <2>2
<1>9. ASSUME NEW i \in DOMAIN runs, ListRun(i)
      PROVE  Same
  <2>1. plan'[h] = [plan[h] EXCEPT !.overtaken = @ \cup {RunIdentity(i)}]
      BY <1>1, <1>9, Zenon DEF ListRun, RunIdentity
  <2>2. RunIdentity(i) \in IdentitySet
      BY TypedRun DEF TypesInv
  <2> QED  BY <2>1, <2>2, PlanTold
<1> HIDE DEF Same
<1>10. Same
    BY <1>4, <1>6, <1>7, <1>8, <1>9, NextCases, ZenonT(60)
       DEF Claim, WriteClaim, Edit, Commit, Push, RefAdvances, CompleteRun,
           ClaimExpires, vars
<1> QED
    BY <1>2, <1>10 DEF Same, Held, Identity

\* A host that sets out to claim has found no claim, and rivals are noted.
LEMMA ClaimBegins ==
    ASSUME TypesInv, ClaimsInv, NEW h \in Hosts, NEW o \in Obligations, Claim(h, o)
    PROVE  LET id == Identity(o, plan[h].revision) IN
           /\ UNCHANGED <<runs, plan, claims>> /\ o \in plan[h].todo
           /\ stage'[h] = [step |-> "claiming", obligation |-> o] /\ Held(h)' = id
           /\ \A g \in Hosts : g # h => stage'[g] = stage[g]
           /\ \A g \in Hosts : stage[g] # NoStage /\ Held(g) = id => id \in lost'
           /\ id \notin lost => AllSeen(id)
<1> DEFINE id == Identity(o, plan[h].revision)
<1>1. /\ UNCHANGED <<runs, plan, claims>> /\ o \in plan[h].todo /\ id \notin claims
      /\ stage' = [stage EXCEPT ![h] = [step |-> "claiming", obligation |-> o]]
      /\ lost' = IF \E g \in Hosts : Holder(g, id) THEN lost \cup {id} ELSE lost
    BY DEF Claim
<1>2. /\ stage'[h] = [step |-> "claiming", obligation |-> o]
      /\ \A g \in Hosts : g # h => stage'[g] = stage[g]
    BY <1>1 DEF TypesInv, WorldInv
<1>3. Held(h)' = id
    BY <1>1, <1>2 DEF Held, Identity
<1>4. \A g \in Hosts : stage[g] # NoStage /\ Held(g) = id => id \in lost'
    BY <1>1 DEF Holder, Held
<1>5. id \notin lost => AllSeen(id)
    BY <1>1 DEF AllSeen, ClaimsInv
<1> QED
    BY <1>1, <1>2, <1>3, <1>4, <1>5

LEMMA HoldersNext ==
    ASSUME TypesInv, StagedInv, ClaimsInv, HoldersInv, [Next]_vars
    PROVE  HoldersInv'
<1> DEFINE Begins(h) == \E o \in Obligations : Claim(h, o)
<1>1. ASSUME NEW h \in Hosts, stage'[h] # NoStage, ~Begins(h)
      PROVE  stage[h] # NoStage
  <2>1. \/ stage'[h] = stage[h]
        \/ \E o \in Obligations : stage[h] = [step |-> "claiming", obligation |-> o]
      BY <1>1, StagesStep
  <2> QED  BY <1>1, <2>1, StageFacts, Zenon
<1>2. ASSUME NEW h \in Hosts, stage'[h] # NoStage
      PROVE  stage'[h].obligation \in plan'[h].todo
  <2>1. CASE Begins(h)
    <3>1. PICK o \in Obligations : Claim(h, o)
        BY <2>1
    <3>2. o \in plan[h].todo /\ UNCHANGED plan
          /\ stage'[h] = [step |-> "claiming", obligation |-> o]
        BY <3>1, ClaimBegins
    <3> QED  BY <3>2
  <2>2. CASE ~Begins(h)
      BY <1>1, <1>2, <2>2, HolderKept DEF HoldersInv
  <2> QED  BY <2>1, <2>2
<1>3. ASSUME NEW h \in Hosts, stage'[h].step = "claimed"
      PROVE  Held(h)' \in claims' \cup lost'
  <2>1. stage'[h] # NoStage
    <3>1. "claimed" # "none"
        OBVIOUS
    <3> QED  BY <1>3, <3>1, StageFacts, Zenon
  <2>2. ~Begins(h)
    <3>1. ASSUME NEW o \in Obligations, Claim(h, o)
          PROVE  FALSE
      <4>1. stage'[h] = [step |-> "claiming", obligation |-> o]
          BY <3>1, ClaimBegins
      <4> QED  BY <1>3, <4>1
    <3> QED  BY <3>1
  <2>3. stage[h] # NoStage /\ Held(h)' = Held(h)
      BY <1>1, <2>1, <2>2, HolderKept
  <2>4. CASE stage'[h] = stage[h]
    <3>1. PICK id : id = Held(h)
        OBVIOUS
    <3>2. id \in claims \cup lost
        BY <1>3, <2>4, <3>1 DEF HoldersInv
    <3>3. id \in claims' \cup lost'
        BY <2>1, <2>3, <3>1, <3>2, ClaimsStep
    <3> QED  BY <2>3, <3>1, <3>3
  <2>5. ASSUME NEW o \in Obligations, WriteClaim(h, o)
        PROVE  Held(h)' \in claims' \cup lost'
    <3>1. stage[h].obligation = o /\ Identity(o, plan[h].revision) \in claims'
      <4>1. claims' = claims \cup {Identity(o, plan[h].revision)}
          BY <2>5, Zenon DEF WriteClaim
      <4> QED  BY <2>5, <4>1, StageOf
    <3> QED  BY <2>3, <3>1 DEF Held
  <2> QED  BY <2>1, <2>2, <2>4, <2>5, StagesStep
<1>4. ASSUME NEW h \in Hosts, stage'[h] # NoStage, Held(h)' \notin lost'
      PROVE  AllSeen(Held(h))'
  <2>1. PICK id : id = Held(h)'
      OBVIOUS
  <2>2. id \notin lost /\ id \notin lost'
      BY <1>4, <2>1, LostKept
  <2>3. AllSeen(id)'
    <3>1. CASE Begins(h)
      <4>1. PICK o \in Obligations : Claim(h, o)
          BY <3>1
      <4>2. AllSeen(id) /\ UNCHANGED <<runs, plan>>
          BY <2>1, <2>2, <4>1, ClaimBegins
      <4> QED  BY <4>2 DEF AllSeen, RunIdentity
    <3>2. CASE ~Begins(h)
      <4>1. stage[h] # NoStage /\ Held(h) = id
          BY <1>1, <1>4, <2>1, <3>2, HolderKept
      <4>2. AllSeen(id)
          BY <2>2, <4>1 DEF HoldersInv
      <4>3. ASSUME NEW g \in Hosts, NEW o \in Obligations, Dispatch(g, o),
                   Identity(o, plan[g].revision) = id
            PROVE  FALSE
        <5>1. stage[g] # NoStage /\ Held(g) = id
            BY <4>3, DispatchHolds
        <5>2. g = h
            BY <2>2, <4>1, <5>1 DEF HoldersInv
        <5>3. stage'[g] = NoStage
            BY <4>3 DEF Dispatch, TypesInv, WorldInv
        <5> QED  BY <1>4, <5>2, <5>3
      <4> QED  BY <4>2, <4>3, SeenStep
    <3> QED  BY <3>1, <3>2
  <2>4. AllSeen(Held(h))' <=> AllSeen(id)'
      BY <2>1 DEF AllSeen, RunIdentity
  <2> QED  BY <2>3, <2>4
<1>5. ASSUME NEW g \in Hosts, NEW h \in Hosts, g # h, stage'[g] # NoStage,
             stage'[h] # NoStage, Held(g)' = Held(h)', Begins(h)
      PROVE  Held(h)' \in lost'
  <2>1. PICK o \in Obligations : Claim(h, o)
      BY <1>5
  <2>2. PICK id : id = Identity(o, plan[h].revision)
      OBVIOUS
  <2>3. /\ Held(h)' = id /\ stage'[g] = stage[g] /\ UNCHANGED plan
        /\ stage[g] # NoStage /\ Held(g) = id => id \in lost'
      BY <1>5, <2>1, <2>2, ClaimBegins
  <2>4. stage[g] # NoStage /\ Held(g) = id
      BY <1>5, <2>3 DEF Held, Identity
  <2> QED  BY <2>3, <2>4
<1>6. ASSUME NEW g \in Hosts, NEW h \in Hosts, g # h, stage'[g] # NoStage,
             stage'[h] # NoStage, Held(g)' = Held(h)'
      PROVE  Held(h)' \in lost'
  <2>1. CASE Begins(h)
      BY <1>5, <1>6, <2>1
  <2>2. CASE Begins(g)
    <3>1. Held(g)' \in lost'
        BY <1>5, <1>6, <2>2
    <3> QED  BY <1>6, <3>1
  <2>3. CASE ~Begins(g) /\ ~Begins(h)
    <3>1. /\ stage[g] # NoStage /\ Held(g)' = Held(g)
          /\ stage[h] # NoStage /\ Held(h)' = Held(h)
        BY <1>1, <1>6, <2>3, HolderKept
    <3>2. Held(h) \in lost
        BY <1>6, <3>1 DEF HoldersInv
    <3> QED  BY <3>1, <3>2, LostKept
  <2> QED  BY <2>1, <2>2, <2>3
<1> QED
    BY <1>2, <1>3, <1>4, <1>6 DEF HoldersInv, Held

\* A run of the identity somebody dispatches is no longer under way at the
\* revision, or another revision's run raced to it: the claim of the identity
\* stands for what the pass has not seen.
LEMMA DispatchFindsNone ==
    ASSUME TypesInv, HoldersInv, InFlightInv, NEW h \in Hosts, NEW o \in Obligations,
           Dispatch(h, o), NEW i \in DOMAIN runs,
           runs[i].workflow = Binding[o], runs[i].head = plan[h].revision,
           Undoubled(Binding[o], plan[h].revision)
    PROVE  runs[i].state = "completed"
<1> DEFINE r == plan[h].revision
<1>0. Identity(o, r) \notin lost
    BY DEF Undoubled, Identity
<1>1. o \in plan[h].todo /\ AllSeen(Identity(o, r))
    BY <1>0, DispatchHolds
<1>2. runs[i].requested = r
    BY DEF Undoubled, Unraced
<1>3. RunIdentity(i) = Identity(o, r)
    BY <1>2 DEF RunIdentity, Identity
<1>4. runs[i].listed
    BY <1>1, <1>3 DEF AllSeen
<1>5. runs[i].state \in {"in_progress", "completed"}
    BY TypedRun DEF TypesInv, RunSet
<1>6. runs[i].state # "in_progress"
    BY <1>1, <1>4 DEF InFlightInv, AllSeen
<1> QED
    BY <1>5, <1>6

LEMMA InFlightNext ==
    ASSUME TypesInv, StagedInv, HoldersInv, InFlightInv, [Next]_vars
    PROVE  InFlightInv'
<1>1. RunsKept
    BY RunsStep
<1>2. RunsInv /\ WorldInv
    BY DEF TypesInv
<1>3. ASSUME NEW i \in DOMAIN runs', NEW j \in DOMAIN runs', i < j,
             runs'[i].workflow = runs'[j].workflow, runs'[i].head = runs'[j].head,
             Undoubled(runs[i].workflow, runs[i].head)'
      PROVE  runs'[i].state = "completed"
  <2>1. PICK w, r : w = runs'[i].workflow /\ r = runs'[i].head
      OBVIOUS
  <2>2. Undoubled(w, r)'
      BY <1>3, <2>1 DEF Undoubled, Unraced
  <2>3. Undoubled(w, r)
      BY <1>1, <2>2, LostKept, UndoubledBefore
  <2>4. CASE j \in DOMAIN runs
    <3>1. i \in DOMAIN runs
      <4>1. /\ DOMAIN runs = 1..Len(runs) /\ Len(runs) \in Nat
            /\ runs' \in Seq(RunSet)
          BY <1>1, <1>2, LenProperties DEF RunsInv, RunsKept
      <4>2. DOMAIN runs' = 1..Len(runs') /\ Len(runs') \in Nat
          BY <4>1, LenProperties
      <4> QED  BY <1>3, <2>4, <4>1, <4>2
    <3>2. /\ runs[i].workflow = w /\ runs[i].head = r
          /\ runs[j].workflow = w /\ runs[j].head = r
        BY <1>1, <1>3, <2>1, <2>4, <3>1 DEF RunsKept
    <3>3. runs[i].state = "completed"
        BY <1>3, <2>3, <2>4, <3>1, <3>2 DEF InFlightInv
    <3> QED  BY <1>1, <3>1, <3>3 DEF RunsKept
  <2>5. CASE j \notin DOMAIN runs
    <3>1. PICK h \in Hosts, o \in Obligations :
              Dispatch(h, o) /\ Starts(Binding[o], plan[h].revision)
        BY <1>2, <2>5, RunsCases, ListedRuns, EndedRuns
    <3>2. /\ j = Len(runs) + 1 /\ runs'[j].workflow = Binding[o]
          /\ runs'[j].requested = plan[h].revision
          /\ DOMAIN runs' = DOMAIN runs \cup {j}
        BY <2>5, <3>1, DispatchedRuns
    <3>3. w = Binding[o] /\ r = plan[h].revision
        BY <1>3, <2>1, <2>2, <3>2 DEF Undoubled, Unraced
    <3>4. i \in DOMAIN runs
      <4>1. i # j
        <5>1. j \in Nat
            BY <3>1, <3>2, DispatchedRuns
        <5> QED  BY <1>3, <5>1
      <4> QED  BY <1>3, <3>2, <4>1
    <3>5. runs[i].workflow = w /\ runs[i].head = r
        BY <1>1, <2>1, <3>4 DEF RunsKept
    <3>6. runs[i].state = "completed"
        BY <2>3, <3>1, <3>3, <3>4, <3>5, DispatchFindsNone
    <3> QED  BY <1>1, <3>4, <3>6 DEF RunsKept
  <2> QED  BY <2>4, <2>5
<1>4. ASSUME NEW h \in Hosts, NEW o \in plan'[h].todo, NEW i \in DOMAIN runs',
             runs'[i].workflow = Binding[o], runs'[i].head = plan'[h].revision,
             runs'[i].listed, runs'[i].state = "in_progress",
             Undoubled(Binding[o], plan[h].revision)'
      PROVE  Identity(o, plan'[h].revision) \in plan'[h].overtaken
  <2>1. PICK w, r : w = Binding[o] /\ r = plan'[h].revision
      OBVIOUS
  <2>2. Undoubled(w, r)' /\ Undoubled(w, r)
    <3>1. Undoubled(w, r)'
        BY <1>4, <2>1 DEF Undoubled, Unraced
    <3> QED  BY <1>1, <3>1, LostKept, UndoubledBefore
  <2>3. plan'[h] # NoPlan
      BY <1>4 DEF NoPlan
  <2>4. CASE Evaluate(h)
    <3>1. UNCHANGED runs /\ Wanted(o, r) /\ r = worktree.revision
        BY <1>2, <1>4, <2>1, <2>4, EvaluateBegins DEF remote, TypesInv
    <3>2. i \in StatusRuns(o, r) /\ runs[i].workflow = w /\ runs[i].head = r
          /\ runs[i].state = "in_progress" /\ i \in DOMAIN runs
        BY <1>4, <2>1, <3>1 DEF StatusRuns
    <3>3. ASSUME NEW j \in StatusRuns(o, r)
          PROVE  j <= i
      <4>1. j \in DOMAIN runs /\ runs[j].workflow = w /\ runs[j].head = r
          BY <2>1 DEF StatusRuns
      <4>2. ~(i < j)
          BY <2>2, <3>2, <4>1 DEF InFlightInv
      <4>3. i \in Nat /\ j \in Nat
          BY <1>2, <3>2, <4>1, TypedRun
      <4> QED  BY <4>2, <4>3
    <3> QED  BY <3>1, <3>2, <3>3, Zenon DEF Wanted
  <2>5. CASE PlanKept(h)
    <3>1. /\ o \in plan[h].todo /\ plan[h].revision = r
          /\ plan[h].overtaken \subseteq plan'[h].overtaken
          /\ plan[h].active
      <4>1. o \in plan[h].todo
          BY <1>4, <2>5 DEF PlanKept
      <4>2. plan[h].active
          BY <4>1, PlanFacts
      <4> QED  BY <2>1, <2>5, <4>1, <4>2 DEF PlanKept
    <3>2. i \in DOMAIN runs
      <4>1. ASSUME i \notin DOMAIN runs
            PROVE  FALSE
        <5>1. PICK g \in Hosts, p \in Obligations :
                  Starts(Binding[p], plan[g].revision)
            BY <1>2, <4>1, RunsCases, ListedRuns, EndedRuns
        <5>2. i = Len(runs) + 1 /\ runs'[Len(runs) + 1].listed = FALSE
            BY <4>1, <5>1, DispatchedRuns
        <5> QED  BY <1>4, <5>2
      <4> QED  BY <4>1
    <3>3. /\ runs[i].workflow = w /\ runs[i].head = r
          /\ runs[i].state = "in_progress"
      <4>1. runs[i].state \in {"in_progress", "completed"}
          BY <1>2, <3>2, TypedRun DEF RunSet
      <4> QED  BY <1>1, <1>4, <2>1, <3>2, <4>1 DEF RunsKept
    <3>4. CASE runs[i].listed
        BY <2>1, <2>2, <3>1, <3>2, <3>3, <3>4 DEF InFlightInv
    <3>5. CASE ~runs[i].listed
      <4>1. PICK n \in DOMAIN runs : ListRun(n) /\ runs'[i].listed # runs[i].listed
        <5>1. ASSUME NEW g \in Hosts, NEW p \in Obligations,
                     Starts(Binding[p], plan[g].revision)
              PROVE  FALSE
            BY <1>4, <3>2, <3>5, <5>1, DispatchedRuns
        <5>2. ASSUME NEW n, Ends(n)
              PROVE  FALSE
            BY <1>2, <1>4, <3>2, <3>5, <5>2, EndedRuns
        <5>3. ~UNCHANGED runs
            BY <1>4, <3>5
        <5> QED  BY <1>4, <3>5, <5>1, <5>2, <5>3, RunsCases
      <4>2. n = i
        <5>1. Lists(n)
            BY <4>1, Zenon DEF ListRun, Lists
        <5> QED  BY <1>2, <3>2, <4>1, <5>1, ListedRuns
      <4>3. RunIdentity(i) \in plan'[h].overtaken
          BY <3>1, <4>1, <4>2, ListedPlans
      <4>4. RunIdentity(i) = Identity(o, r)
          BY <2>1, <2>2, <3>2, <3>3 DEF Undoubled, Unraced, RunIdentity, Identity
      <4> QED  BY <2>1, <4>3, <4>4
    <3> QED  BY <3>4, <3>5
  <2> QED  BY <2>3, <2>4, <2>5, PlansStep
<1> QED
    BY <1>3, <1>4, Zenon DEF InFlightInv

\* Which runs were requested, before and after a step.
LEMMA RequestedBefore ==
    ASSUME RunsInv, RunsKept, NEW w, NEW r, NEW i \in DOMAIN runs
    PROVE  i \in Requested(w, r)' <=> i \in Requested(w, r)
BY DEF Requested, RunsKept

\* The limit, or a failure, or the claim stands against a dispatch.
LEMMA DispatchIsAttempt ==
    ASSUME TypesInv, HoldersInv, AttemptsInv, NEW h \in Hosts, NEW o \in Obligations,
           Dispatch(h, o), Identity(o, plan[h].revision) \notin lost
    PROVE  \/ FailedAt(Binding[o], plan[h].revision, Len(runs))
           \/ Cardinality(Requested(Binding[o], plan[h].revision)) < MaxAttempts
<1> DEFINE w == Binding[o]
           r == plan[h].revision
<1>1. o \in plan[h].todo /\ AllSeen(Identity(o, r)) /\ Identity(o, r) \notin lost
    BY DispatchHolds
<1>2. Identity(o, r) \notin plan[h].overtaken
    BY <1>1 DEF AllSeen
<1>3. ASSUME NEW i \in Requested(w, r), ~runs[i].listed
      PROVE  FALSE
  <2>1. i \in DOMAIN runs /\ RunIdentity(i) = Identity(o, r)
      BY DEF Requested, RunIdentity, Identity
  <2> QED  BY <1>1, <1>3, <2>1 DEF AllSeen
<1>4. Identity(o, r) \notin plan[h].overtaken \cup lost
    BY <1>1, <1>2
<1> QED
    BY <1>1, <1>3, <1>4, Zenon DEF AttemptsInv

LEMMA AttemptsNext ==
    ASSUME TypesInv, StagedInv, HoldersInv, AttemptsInv, [Next]_vars
    PROVE  AttemptsInv'
<1>1. RunsKept
    BY RunsStep
<1>2. RunsInv /\ WorldInv
    BY DEF TypesInv
<1>3. /\ DOMAIN runs = 1..Len(runs) /\ Len(runs) \in Nat
      /\ DOMAIN runs' = 1..Len(runs') /\ Len(runs') \in Nat
      /\ DOMAIN runs \subseteq DOMAIN runs' /\ Len(runs) <= Len(runs')
  <2>1. runs \in Seq(RunSet) /\ runs' \in Seq(RunSet)
      BY <1>1, <1>2 DEF RunsInv, RunsKept
  <2>2. /\ DOMAIN runs = 1..Len(runs) /\ Len(runs) \in Nat
        /\ DOMAIN runs' = 1..Len(runs') /\ Len(runs') \in Nat
      BY <2>1, LenProperties
  <2>3. DOMAIN runs \subseteq DOMAIN runs'
      BY <1>1 DEF RunsKept
  <2>4. \A m, n \in Nat : 1..m \subseteq 1..n => m <= n
      OBVIOUS
  <2> QED  BY <2>2, <2>3, <2>4, Zenon
<1>4. ASSUME NEW w \in Workflows, NEW r \in Revisions, NEW i \in Requested(w, r)',
             [workflow |-> w, revision |-> r] \notin lost',
             Cardinality({j \in Requested(w, r)' : j < i}) >= MaxAttempts
      PROVE  FailedAt(w, r, i - 1)'
  <2>1. i \in DOMAIN runs' /\ runs'[i].workflow = w /\ runs'[i].requested = r
      BY DEF Requested
  <2>2. Requested(w, r)' \subseteq DOMAIN runs'
      BY DEF Requested
  <2>3. CASE i \in DOMAIN runs
    <3>1. {j \in Requested(w, r)' : j < i} = {j \in Requested(w, r) : j < i}
      <4>1. ASSUME NEW j \in DOMAIN runs', j < i
            PROVE  j \in DOMAIN runs
          BY <1>3, <2>3, <4>1
      <4>2. Requested(w, r) \subseteq DOMAIN runs
          BY DEF Requested
      <4>3. \A j \in DOMAIN runs : j \in Requested(w, r)' <=> j \in Requested(w, r)
          BY <1>1, <1>2, RequestedBefore
      <4> QED  BY <1>3, <2>2, <4>1, <4>2, <4>3
    <3>2. i \in Requested(w, r)
        BY <1>1, <1>2, <2>3, RequestedBefore
    <3>3. Cardinality({j \in Requested(w, r) : j < i}) >= MaxAttempts
        BY <1>4, <3>1
    <3>4. FailedAt(w, r, i - 1)
      <4>1. AttemptsBounded
          BY DEF AttemptsInv
      <4>2. \A k \in Requested(w, r) :
                /\ [workflow |-> w, revision |-> r] \notin lost
                /\ Cardinality({j \in Requested(w, r) : j < k}) >= MaxAttempts
                => FailedAt(w, r, k - 1)
          BY <4>1 DEF AttemptsBounded, FailedAt
      <4> QED  BY <1>4, <3>2, <3>3, <4>2, LostKept
    <3>5. i - 1 \in 0..Len(runs)
        BY <1>3, <2>3
    <3> QED  BY <1>1, <1>2, <3>4, <3>5, FailedKept
  <2>4. CASE i \notin DOMAIN runs
    <3>1. PICK h \in Hosts, o \in Obligations :
              Dispatch(h, o) /\ Starts(Binding[o], plan[h].revision)
        BY <1>2, <2>1, <2>4, RunsCases, ListedRuns, EndedRuns
    <3>2. /\ i = Len(runs) + 1 /\ w = Binding[o] /\ r = plan[h].revision
          /\ \A j \in DOMAIN runs : j < i
          /\ DOMAIN runs' = DOMAIN runs \cup {i}
        BY <2>1, <2>4, <3>1, DispatchedRuns
    <3>3. {j \in Requested(w, r)' : j < i} = Requested(w, r)
      <4>1. Requested(w, r) \subseteq DOMAIN runs
          BY DEF Requested
      <4>2. \A j \in DOMAIN runs : j \in Requested(w, r)' <=> j \in Requested(w, r)
          BY <1>1, <1>2, RequestedBefore
      <4>3. ~(i < i)
          BY <1>3, <2>1
      <4> QED  BY <2>2, <3>2, <4>1, <4>2, <4>3
    <3>4. Cardinality(Requested(w, r)) >= MaxAttempts
        BY <1>4, <3>3
    <3>5. Cardinality(Requested(w, r)) \in Nat
        BY <1>2, RequestedCounts
    <3>6. FailedAt(w, r, Len(runs))
      <4>1. Identity(o, plan[h].revision) \notin lost
          BY <1>4, <3>2, LostKept DEF Identity
      <4> QED  BY <3>1, <3>2, <3>4, <3>5, <4>1, AmbientAssumption, DispatchIsAttempt
    <3>7. FailedAt(w, r, i - 1)
      <4>1. PICK j \in 1..Len(runs) :
                /\ runs[j].workflow = w /\ runs[j].head = r
                /\ runs[j].state = "completed" /\ runs[j].conclusion = "failure"
          BY <3>6 DEF FailedAt
      <4>2. i - 1 = Len(runs)
          BY <1>3, <3>2
      <4>3. j \in 1..(i - 1)
          BY <4>2
      <4> QED  BY <4>1, <4>3, Zenon DEF FailedAt
    <3>8. i - 1 \in 0..Len(runs)
        BY <1>3, <3>2
    <3> QED  BY <1>1, <1>2, <3>7, <3>8, FailedKept
  <2> QED  BY <2>3, <2>4
<1> DEFINE Held1(w, r, told) == \/ FailedAt(w, r, Len(runs))'
                                \/ Cardinality(Requested(w, r))' < MaxAttempts
                                \/ \E i \in Requested(w, r)' : ~runs'[i].listed
                                \/ [workflow |-> w, revision |-> r] \in told \cup lost'
<1>5. ASSUME NEW h \in Hosts, NEW o \in plan'[h].todo,
             NEW w, NEW r, w = Binding[o], r = plan'[h].revision
      PROVE  Held1(w, r, plan'[h].overtaken)
  <2>1. FailedAt(w, r, Len(runs)) => FailedAt(w, r, Len(runs))'
    <3>1. PICK n : n = Len(runs)
        OBVIOUS
    <3>2. PICK m : m = Len(runs')
        OBVIOUS
    <3>3. FailedAt(w, r, n) => FailedAt(w, r, n)'
        BY <1>1, <1>2, <1>3, <3>1, FailedKept
    <3>4. FailedAt(w, r, n)' => FailedAt(w, r, m)'
        BY <1>3, <3>1, <3>2 DEF FailedAt
    <3> QED  BY <3>1, <3>2, <3>3, <3>4 DEF FailedAt
  <2>2. CASE Evaluate(h)
    <3>1. UNCHANGED runs /\ Wanted(o, r)
        BY <1>2, <1>5, <2>2, EvaluateBegins DEF remote, TypesInv
    <3>2. FailedAt(w, r, Len(runs)) \/ Cardinality(Requested(w, r)) < MaxAttempts
        BY <1>5, <3>1 DEF Wanted
    <3>3. Requested(w, r)' = Requested(w, r)
        BY <3>1 DEF Requested
    <3> QED  BY <2>1, <3>2, <3>3
  <2>3. CASE plan'[h] = NoPlan
      BY <2>3 DEF NoPlan
  <2>4. CASE PlanKept(h)
    <3>1. o \in plan[h].todo /\ plan[h].revision = r
          /\ plan[h].overtaken \subseteq plan'[h].overtaken
        BY <1>5, <2>4 DEF PlanKept
    <3>2. \/ FailedAt(w, r, Len(runs))
          \/ Cardinality(Requested(w, r)) < MaxAttempts
          \/ \E i \in Requested(w, r) : ~runs[i].listed
          \/ Identity(o, r) \in plan[h].overtaken \cup lost
        BY <1>5, <3>1, Zenon DEF AttemptsInv
    <3>3. CASE Cardinality(Requested(w, r)) < MaxAttempts
      <4>1. CASE \E i \in Requested(w, r)' : i \notin DOMAIN runs
        <5>1. PICK i \in Requested(w, r)' : i \notin DOMAIN runs
            BY <4>1
        <5>2. i \in DOMAIN runs'
            BY DEF Requested
        <5>3. PICK g \in Hosts, p \in Obligations : Starts(Binding[p], plan[g].revision)
            BY <1>2, <5>1, <5>2, RunsCases, ListedRuns, EndedRuns
        <5>4. runs'[i].listed = FALSE
            BY <5>1, <5>2, <5>3, DispatchedRuns
        <5> QED  BY <5>1, <5>4
      <4>2. CASE \A i \in Requested(w, r)' : i \in DOMAIN runs
        <5>1. Requested(w, r) \subseteq DOMAIN runs
            BY DEF Requested
        <5>2. Requested(w, r)' = Requested(w, r)
            BY <1>1, <1>2, <4>2, <5>1, RequestedBefore
        <5> QED  BY <3>3, <5>2
      <4> QED  BY <4>1, <4>2
    <3>4. CASE \E i \in Requested(w, r) : ~runs[i].listed
      <4>1. PICK i \in Requested(w, r) : ~runs[i].listed
          BY <3>4
      <4>2. i \in DOMAIN runs /\ runs[i].workflow = w /\ runs[i].requested = r
          BY DEF Requested
      <4>3. i \in Requested(w, r)'
          BY <1>1, <1>2, <4>2, RequestedBefore
      <4>4. CASE ~runs'[i].listed
          BY <4>3, <4>4
      <4>5. CASE runs'[i].listed
        <5>1. PICK n \in DOMAIN runs : ListRun(n) /\ n = i
          <6>1. ASSUME NEW g \in Hosts, NEW p \in Obligations,
                       Starts(Binding[p], plan[g].revision)
                PROVE  FALSE
              BY <4>1, <4>2, <4>5, <6>1, DispatchedRuns
          <6>2. ASSUME NEW n, Ends(n)
                PROVE  FALSE
              BY <1>2, <4>1, <4>2, <4>5, <6>2, EndedRuns
          <6>3. ASSUME NEW n, Lists(n)
                PROVE  n = i
              BY <1>2, <4>1, <4>2, <4>5, <6>3, ListedRuns
          <6>4. ~UNCHANGED runs
              BY <4>1, <4>5
          <6> QED  BY <6>1, <6>2, <6>3, <6>4, RunsCases
        <5>2. plan[h].active
            BY <3>1, PlanFacts
        <5>3. RunIdentity(i) \in plan'[h].overtaken
            BY <5>1, <5>2, ListedPlans
        <5>4. RunIdentity(i) = [workflow |-> w, revision |-> r]
            BY <4>2 DEF RunIdentity
        <5> QED  BY <5>3, <5>4
      <4> QED  BY <4>4, <4>5
    <3>5. CASE Identity(o, r) \in plan[h].overtaken \cup lost
        BY <1>5, <3>1, <3>5, LostKept DEF Identity
    <3> QED  BY <2>1, <3>2, <3>3, <3>4, <3>5
  <2> QED  BY <2>2, <2>3, <2>4, PlansStep
<1>6. AttemptsBounded'
    BY <1>4 DEF AttemptsBounded, FailedAt
<1>7. ASSUME NEW h \in Hosts, NEW o \in plan'[h].todo
      PROVE  LET w == Binding[o]
                 r == plan'[h].revision
             IN  \/ FailedAt(w, plan[h].revision, Len(runs))'
                 \/ Cardinality(Requested(w, plan[h].revision))' < MaxAttempts
                 \/ \E i \in Requested(w, plan[h].revision)' : ~runs'[i].listed
                 \/ Identity(o, r) \in plan'[h].overtaken \cup lost'
  <2>1. PICK w, r : w = Binding[o] /\ r = plan'[h].revision
      OBVIOUS
  <2>2. Held1(w, r, plan'[h].overtaken)
      BY <1>5, <2>1
  <2> QED  BY <2>1, <2>2 DEF FailedAt, Requested, Identity
<1> QED
    BY <1>6, <1>7, Zenon DEF AttemptsInv

-----------------------------------------------------------------------------
(* AmbientEvidence: the theorems.                                          *)

LEMMA Initially ==
    ASSUME Init
    PROVE  IInv
<1>1. /\ worktree = [revision |-> 1, state |-> "clean"]
      /\ tip = 1 /\ commits = 1 /\ claims = {} /\ lost = {}
      /\ stage = [h \in Hosts |-> NoStage]
      /\ staged = [o \in Obligations |-> NoEvidence]
      /\ plan = [h \in Hosts |-> NoPlan]
    BY DEF Init
<1>2. runs \in Seq(RunSet) /\ DOMAIN runs = {}
    BY EmptySeq DEF Init
<1>3. ASSUME NEW h \in Hosts
      PROVE  plan[h] = NoPlan
    BY <1>1
<1>4. WorldInv
    BY <1>1 DEF WorldInv, StageSet
<1>5. RunsInv
    BY <1>2 DEF RunsInv
<1>6. StagedInv
    BY <1>1 DEF StagedInv
<1>7. PlansInv
  <2>1. NoPlan \in PlanSet(NoPlan.decisions) /\ NoPlan.revision <= commits
      BY <1>1 DEF NoPlan, PlanSet
  <2>2. DecisionsInv(NoPlan)
      BY DEF DecisionsInv, NoPlan
  <2>3. DOMAIN plan = Hosts
      BY <1>1
  <2> QED  BY <1>3, <2>1, <2>2, <2>3, Zenon DEF PlansInv
<1>8. NoPlan.todo = {} /\ NoPlan.overtaken = {}
    BY DEF NoPlan
<1>9. UnpublishedInv
    BY <1>1 DEF UnpublishedInv
<1>10. ClaimsInv
    BY <1>2, <1>3, <1>8 DEF ClaimsInv
<1>11. InFlightInv
    BY <1>2, <1>3, <1>8 DEF InFlightInv
<1>12. AttemptsInv
    BY <1>2, <1>3, <1>8 DEF AttemptsInv, AttemptsBounded, Requested
<1>13. HoldersInv
  <2>1. \A h \in Hosts : stage[h] = NoStage
      BY <1>1
  <2>2. \A h \in Hosts : stage[h].step # "claimed"
    <3>1. "none" # "claimed"
        OBVIOUS
    <3> QED  BY <2>1, <3>1, StageFacts, Zenon
  <2> QED  BY <2>1, <2>2, Zenon DEF HoldersInv
<1> QED
    BY <1>4, <1>5, <1>6, <1>7, <1>9, <1>10, <1>11, <1>12, <1>13 DEF IInv

LEMMA IInvHolds == Spec => []IInv
<1>1. Init => IInv
    BY Initially
<1>2. IInv /\ [Next]_vars => IInv'
  <2> SUFFICES ASSUME IInv, [Next]_vars
               PROVE  IInv'
      OBVIOUS
  <2>1. /\ TypesInv /\ StagedInv /\ UnpublishedInv /\ ClaimsInv /\ HoldersInv
        /\ InFlightInv /\ AttemptsInv
      BY DEF IInv, TypesInv
  <2>2. WorldInv' /\ RunsInv' /\ StagedInv' /\ PlansInv'
      BY <2>1, WorldNext, RunsNext, StagedNext, PlansNext
  <2>3. UnpublishedInv' /\ ClaimsInv' /\ HoldersInv' /\ InFlightInv' /\ AttemptsInv'
      BY <2>1, UnpublishedNext, ClaimsNext, HoldersNext, InFlightNext, AttemptsNext
  <2> QED  BY <2>2, <2>3 DEF IInv
<1> QED
    BY <1>1, <1>2, PTL DEF Spec

\* Current stands on a run: whenever a pass calls an obligation current, a
\* completed run of its workflow executed exactly the measured revision and
\* packaged that check with that verdict - for any number of hosts,
\* obligations, commits and runs.
THEOREM CurrentRunsProve == Spec => []CurrentIsProved
<1>1. IInv => CurrentIsProved
  <2> SUFFICES ASSUME IInv, NEW h \in Hosts, NEW k \in DOMAIN plan[h].decisions,
                      plan[h].decisions[k].status = "current"
               PROVE  LET d == plan[h].decisions[k]
                      IN  \E i \in DOMAIN runs :
                             /\ i = d.run_identity
                             /\ runs[i].head = plan[h].revision
                             /\ runs[i].workflow = Binding[d.obligation]
                             /\ runs[i].state = "completed"
                             /\ runs[i].artifact[d.obligation] = d.verdict
      BY DEF CurrentIsProved
  <2> DEFINE d == plan[h].decisions[k]
  <2>1. DecisionsInv(plan[h])
      BY DEF IInv, PlansInv
  <2>2. /\ Finished(d.run_identity, d.obligation, plan[h].revision)
        /\ runs[d.run_identity].artifact[d.obligation] = d.verdict
      BY <2>1 DEF DecisionsInv
  <2> QED  BY <2>2 DEF Finished
<1> QED
    BY <1>1, IInvHolds, PTL

\* Dirt and unpublished commits never reach GitHub: no run is ever requested
\* for the commit a developer has not pushed, however old the passes are that
\* dispatch.
THEOREM RequestsArePublished == Spec => []OnlyPublishedRequested
<1>1. IInv => OnlyPublishedRequested
  <2> SUFFICES ASSUME IInv
               PROVE  OnlyPublishedRequested
      OBVIOUS
  <2>1. worktree.state \in {"clean", "dirty", "clean_unpublished"}
      BY DEF IInv, WorldInv
  <2>2. worktree.state = "clean_unpublished" =>
            \A i \in DOMAIN runs : runs[i].requested # worktree.revision
      BY DEF IInv, UnpublishedInv
  <2> QED  BY <2>1, <2>2 DEF OnlyPublishedRequested
<1> QED
    BY <1>1, IInvHolds, PTL

\* Attach, never redispatch: of the runs that started at a revision nobody
\* raced to and whose claim was not lost, at most one per workflow is under
\* way, however the passes of any number of hosts interleave.
THEOREM OneRunInFlight == Spec => []InFlightAtMostOne
<1>1. IInv => InFlightAtMostOne
  <2> SUFFICES ASSUME IInv, NEW w \in Workflows, NEW r \in Revisions, Undoubled(w, r)
               PROVE  Cardinality(InFlight(w, r)) <= 1
      BY DEF InFlightAtMostOne, Undoubled
  <2>1. DOMAIN runs = 1..Len(runs) /\ Len(runs) \in Nat
      BY LenProperties DEF IInv, RunsInv
  <2>2. ASSUME NEW i \in InFlight(w, r), NEW j \in InFlight(w, r)
        PROVE  i = j
    <3>1. ASSUME NEW m \in InFlight(w, r), NEW n \in InFlight(w, r), m < n
          PROVE  FALSE
      <4>1. /\ m \in DOMAIN runs /\ n \in DOMAIN runs
            /\ runs[m].workflow = w /\ runs[n].workflow = w
            /\ runs[m].head = r /\ runs[n].head = r
            /\ runs[m].state = "in_progress"
          BY DEF InFlight
      <4>2. runs[m].state = "completed"
          BY <3>1, <4>1 DEF IInv, InFlightInv
      <4> QED  BY <4>1, <4>2
    <3>2. i \in Nat /\ j \in Nat
        BY <2>1 DEF InFlight
    <3> QED  BY <3>1, <3>2
  <2>3. CASE InFlight(w, r) = {}
      BY <2>3, FS_EmptySet
  <2>4. CASE InFlight(w, r) # {}
    <3>1. PICK i : i \in InFlight(w, r)
        BY <2>4
    <3>2. InFlight(w, r) = {i}
        BY <2>2, <3>1
    <3>3. Cardinality(InFlight(w, r)) = 1
        BY <3>2, FS_Singleton, Zenon
    <3> QED  BY <3>3
  <2> QED  BY <2>3, <2>4
<1> QED
    BY <1>1, IInvHolds, PTL

\* The limit on attempts gives way to a failure only: a run beyond
\* MaxAttempts was requested because a run of the workflow at that very
\* commit had failed before, or after the claim of that commit was lost.
THEOREM AttemptsAreBounded == Spec => []AttemptsBounded
<1>1. IInv => AttemptsBounded
    BY DEF IInv, AttemptsInv
<1> QED
    BY <1>1, IInvHolds, PTL
=============================================================================
