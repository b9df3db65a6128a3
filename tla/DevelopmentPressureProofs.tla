---------------------- MODULE DevelopmentPressureProofs ----------------------
(***************************************************************************)
(* Proofs about DevelopmentPressure, for any checks, limitations, subjects *)
(* and records of owners.                                                  *)
(*                                                                         *)
(* What a bundle says of the past holds because bundles are only appended  *)
(* and each names an earlier one.  What a verdict says of owners holds     *)
(* because the file of records keeps one required record per pressure of   *)
(* its bundle, whatever owners settle in it, and because every record that *)
(* is not open is one an owner settled.                                    *)
(*                                                                         *)
(* Lineage is a recursive function of the bundles.  Traced speaks of every *)
(* function that satisfies its equation, and says that there is one: as a  *)
(* part of the invariant that goes from the bundles of one state to those  *)
(* of the next, and no induction over the bundles is needed.               *)
(***************************************************************************)
EXTENDS DevelopmentPressure, TLAPS

Records == [key : Keys, status : Statuses, required : BOOLEAN,
            subject : Subjects, resolution : BOOLEAN]

Priors == UNION {[D -> (Keys \X Nat) \cup {None}] : D \in SUBSET Keys}

BundleDocuments ==
    [outcome : [Checks -> Outcomes], previous : Nat \cup {None},
     keys : SUBSET Keys, twice : SUBSET Keys,
     prior : Priors, notReproduced : SUBSET Keys]

\* Bundle n of bs names an earlier bundle or none, has the limitations of
\* its own checks, and says of the past what the bundle it names says.
WellFormed(bs, n) ==
    LET b == bs[n] IN
    /\ b.previous # None => b.previous \in DOMAIN bs /\ b.previous < n
    /\ b.keys = Current(b.outcome)
    /\ \A k \in DOMAIN b.prior : b.prior[k] # None =>
          /\ b.previous # None
          /\ b.prior[k] = <<k, b.previous>>
          /\ k \in bs[b.previous].keys
    /\ \A k \in b.notReproduced :
          /\ b.previous # None
          /\ k \in bs[b.previous].keys
          /\ k \notin Current(b.outcome)
    /\ b.previous # None =>
          bs[b.previous].keys \subseteq b.keys \cup b.notReproduced

\* f[n] is the line of observations that bundle n of bs ends: Lineage of bs.
IsLineage(f, bs) ==
    f = [n \in 0 .. Len(bs) |->
            IF n = 0 THEN {}
            ELSE {n} \cup (IF bs[n].previous = None THEN {}
                           ELSE f[bs[n].previous])]

\* Along these lines no pressure is lost.
KeptAlong(f, bs) ==
    \A n \in DOMAIN bs : \A m \in f[n] :
        /\ m \in DOMAIN bs /\ m <= n
        /\ \A k \in bs[m].keys :
              \/ k \in bs[n].keys
              \/ \E l \in f[n] : l > m /\ k \in bs[l].notReproduced

Traced(bs) == /\ \E f : IsLineage(f, bs)
              /\ \A f : IsLineage(f, bs) => KeptAlong(f, bs)

BundlesInv ==
    /\ bundles \in Seq(BundleDocuments)
    /\ \A n \in DOMAIN bundles : WellFormed(bundles, n)
    /\ Traced(bundles)

\* A record that is not open is one an owner settled.
Owned(r) == r.status # "open" => Settlement(r) \in settled

\* The file of records is about one bundle, and has a required record for
\* every pressure of it.
ProjectedInv ==
    projected # None =>
        /\ projected \in [from : DOMAIN bundles, records : SUBSET Records]
        /\ \A k \in bundles[projected.from].keys :
              \E r \in projected.records : r.key = k /\ r.required
        /\ \A r \in projected.records : Owned(r)

AuthoredInv == authored # None => authored \in Records /\ Owned(authored)

CheckInv ==
    /\ check # None => check.from = None \/ check.from \in DOMAIN bundles
    /\ DecidedByOwners

PressureInv == BundlesInv /\ ProjectedInv /\ AuthoredInv /\ CheckInv

-----------------------------------------------------------------------------
(* Lemmas about bundles.                                                   *)

\* What a check leaves unresolved are limitations.
LEMMA CurrentAreKeys ==
    ASSUME NEW outcome
    PROVE  Current(outcome) \subseteq Keys
BY DEF Current

\* Nothing was observed: no lines.
LEMMA NoLines ==
    Traced(<< >>)
<1>1. IsLineage([n \in 0 .. 0 |-> {}], << >>)
  BY DEF IsLineage
<1>2. QED
  BY <1>1 DEF Traced, KeptAlong

\* One more bundle ends one more line, and the others stay.
LEMMA LineExtended ==
    ASSUME NEW D, NEW bs \in Seq(D), NEW c \in D, Traced(bs),
           \A n \in DOMAIN Append(bs, c) : WellFormed(Append(bs, c), n)
    PROVE  Traced(Append(bs, c))
<1> DEFINE cs == Append(bs, c)
           N == Len(bs)
<1>1. /\ N \in Nat /\ DOMAIN bs = 1 .. N
      /\ Len(cs) = N + 1 /\ DOMAIN cs = 1 .. (N + 1)
      /\ cs[N + 1] = c /\ \A n \in 1 .. N : cs[n] = bs[n]
  OBVIOUS
<1>2. \A n \in 1 .. (N + 1) : WellFormed(cs, n)
  BY <1>1
<1> HIDE DEF cs, N
<1>3. \A n \in 1 .. (N + 1) :
         /\ cs[n].previous # None => cs[n].previous \in 1 .. (n - 1)
         /\ cs[n].previous # None =>
               cs[cs[n].previous].keys \subseteq cs[n].keys \cup cs[n].notReproduced
  BY <1>1, <1>2 DEF WellFormed
<1>4. \E g : IsLineage(g, cs)
  <2>1. PICK f : IsLineage(f, bs)
    BY DEF Traced
  <2> DEFINE g == [n \in 0 .. (N + 1) |->
                      IF n <= N THEN f[n]
                      ELSE {n} \cup (IF c.previous = None THEN {}
                                     ELSE f[c.previous])]
  <2>2. \A n \in 0 .. N : g[n] = f[n]
    BY <1>1
  <2>3. ASSUME NEW n \in 0 .. (N + 1)
        PROVE  g[n] = IF n = 0 THEN {}
                      ELSE {n} \cup (IF cs[n].previous = None THEN {}
                                     ELSE g[cs[n].previous])
    <3>1. CASE n \in 0 .. N
      <4>1. f[n] = IF n = 0 THEN {}
                   ELSE {n} \cup (IF bs[n].previous = None THEN {}
                                  ELSE f[bs[n].previous])
        BY <2>1, <3>1 DEF IsLineage, N
      <4>2. n # 0 /\ cs[n].previous # None => cs[n].previous \in 0 .. N
        BY <1>1, <1>3, <3>1
      <4>3. n # 0 => cs[n] = bs[n]
        BY <1>1, <3>1
      <4> HIDE DEF g
      <4>4. QED
        BY <2>2, <3>1, <4>1, <4>2, <4>3
    <3>2. CASE n = N + 1
      <4>1. g[n] = {n} \cup (IF c.previous = None THEN {} ELSE f[c.previous])
        BY <1>1, <3>2
      <4>2. c.previous # None => c.previous \in 0 .. N
        BY <1>1, <1>3
      <4> HIDE DEF g
      <4>3. QED
        BY <1>1, <2>2, <3>2, <4>1, <4>2
    <3>3. QED
      BY <1>1, <3>1, <3>2
  <2>4. g = [n \in 0 .. (N + 1) |-> g[n]]
    OBVIOUS
  <2> HIDE DEF g
  <2>5. g = [n \in 0 .. Len(cs) |->
               IF n = 0 THEN {}
               ELSE {n} \cup (IF cs[n].previous = None THEN {}
                              ELSE g[cs[n].previous])]
    BY <1>1, <2>3, <2>4
  <2>6. QED
    BY <2>5 DEF IsLineage
<1>5. ASSUME NEW g, IsLineage(g, cs)
      PROVE  KeptAlong(g, cs)
  <2> DEFINE f == [n \in 0 .. N |-> g[n]]
  <2>1. \A n \in 0 .. (N + 1) :
           g[n] = IF n = 0 THEN {}
                  ELSE {n} \cup (IF cs[n].previous = None THEN {}
                                 ELSE g[cs[n].previous])
    BY <1>1, <1>5 DEF IsLineage
  <2>2. \A n \in 0 .. N : f[n] = g[n]
    OBVIOUS
  <2>3. ASSUME NEW n \in 0 .. N
        PROVE  f[n] = IF n = 0 THEN {}
                      ELSE {n} \cup (IF bs[n].previous = None THEN {}
                                     ELSE f[bs[n].previous])
    <3>1. n # 0 => cs[n] = bs[n]
      BY <1>1
    <3>2. n # 0 /\ cs[n].previous # None => cs[n].previous \in 0 .. N
      BY <1>1, <1>3
    <3> HIDE DEF f
    <3>3. n \in 0 .. (N + 1)
      BY <1>1
    <3>4. QED
      BY <2>1, <2>2, <3>1, <3>2, <3>3
  <2>4. f = [n \in 0 .. N |-> f[n]]
    OBVIOUS
  <2> HIDE DEF f
  <2>5. IsLineage(f, bs)
    BY <2>3, <2>4 DEF IsLineage, N
  <2>6. KeptAlong(f, bs)
    BY <2>5 DEF Traced
  <2>7. \A n \in 1 .. N : \A m \in g[n] :
           /\ m \in 1 .. N /\ m <= n
           /\ \A k \in cs[m].keys :
                 \/ k \in cs[n].keys
                 \/ \E l \in g[n] : l > m /\ k \in cs[l].notReproduced
    <3> SUFFICES ASSUME NEW n \in 1 .. N, NEW m \in g[n]
                 PROVE  /\ m \in 1 .. N /\ m <= n
                        /\ \A k \in cs[m].keys :
                              \/ k \in cs[n].keys
                              \/ \E l \in g[n] : l > m /\ k \in cs[l].notReproduced
      OBVIOUS
    <3>1. f[n] = g[n] /\ n \in DOMAIN bs
      BY <1>1, <2>2
    <3>2. /\ m \in DOMAIN bs /\ m <= n
          /\ \A k \in bs[m].keys :
                \/ k \in bs[n].keys
                \/ \E l \in g[n] : l > m /\ k \in bs[l].notReproduced
      BY <2>6, <3>1 DEF KeptAlong
    <3>3. \A l \in g[n] : l \in DOMAIN bs
      BY <2>6, <3>1 DEF KeptAlong
    <3>4. QED
      BY <1>1, <3>2, <3>3
  <2>8. ASSUME NEW m \in g[N + 1]
        PROVE  /\ m \in 1 .. (N + 1) /\ m <= N + 1
               /\ \A k \in cs[m].keys :
                     \/ k \in c.keys
                     \/ \E l \in g[N + 1] : l > m /\ k \in cs[l].notReproduced
    <3> DEFINE p == c.previous
    <3>1. g[N + 1] = {N + 1} \cup (IF p = None THEN {} ELSE g[p])
      <4>1. N + 1 \in 0 .. (N + 1) /\ N + 1 # 0 /\ cs[N + 1] = c
        BY <1>1
      <4>2. g[N + 1] = IF N + 1 = 0 THEN {}
                       ELSE {N + 1} \cup (IF cs[N + 1].previous = None THEN {}
                                         ELSE g[cs[N + 1].previous])
        BY <2>1, <4>1
      <4>3. QED
        BY <4>1, <4>2
    <3>2. CASE m = N + 1
      BY <1>1, <3>2
    <3>3. CASE p # None /\ m \in g[p]
      <4>1. p \in 1 .. N
        BY <1>1, <1>3, <3>3
      <4>2. /\ m \in 1 .. N /\ m <= p
            /\ \A k \in cs[m].keys :
                  \/ k \in cs[p].keys
                  \/ \E l \in g[p] : l > m /\ k \in cs[l].notReproduced
        BY <2>7, <3>3, <4>1
      <4>3. cs[p].keys \subseteq c.keys \cup c.notReproduced
        BY <1>1, <1>3, <3>3
      <4>4. N + 1 > m /\ m <= N + 1 /\ m \in 1 .. (N + 1)
        BY <1>1, <4>2
      <4>5. N + 1 \in g[N + 1] /\ g[p] \subseteq g[N + 1]
        BY <3>1, <3>3
      <4>6. ASSUME NEW k \in cs[m].keys, k \notin c.keys
            PROVE  \E l \in g[N + 1] : l > m /\ k \in cs[l].notReproduced
        <5>1. CASE k \in cs[p].keys
          BY <1>1, <4>3, <4>4, <4>5, <4>6, <5>1
        <5>2. CASE \E l \in g[p] : l > m /\ k \in cs[l].notReproduced
          BY <4>5, <5>2
        <5>3. QED
          BY <4>2, <4>6, <5>1, <5>2
      <4>7. QED
        BY <4>4, <4>6
    <3>4. QED
      BY <3>1, <3>2, <3>3
  <2>9. ASSUME NEW n \in DOMAIN cs, NEW m \in g[n]
        PROVE  /\ m \in DOMAIN cs /\ m <= n
               /\ \A k \in cs[m].keys :
                     \/ k \in cs[n].keys
                     \/ \E l \in g[n] : l > m /\ k \in cs[l].notReproduced
    <3>1. CASE n \in 1 .. N
      BY <1>1, <2>7, <3>1
    <3>2. CASE n = N + 1
      BY <1>1, <2>8, <3>2
    <3>3. QED
      BY <1>1, <3>1, <3>2
  <2>10. QED
    BY <2>9 DEF KeptAlong
<1>6. QED
  BY <1>4, <1>5 DEF Traced, cs

\* A new bundle is a bundle, and well formed after those there are.
LEMMA NewBundle ==
    ASSUME BundlesInv,
           NEW outcome \in [Checks -> Outcomes],
           NEW previous \in DOMAIN bundles \cup {None}
    PROVE  LET b == Bundle(outcome, previous)
               bs == Append(bundles, b)
           IN  /\ b \in BundleDocuments
               /\ bs \in Seq(BundleDocuments)
               /\ DOMAIN bundles \subseteq DOMAIN bs
               /\ \A n \in DOMAIN bundles : bs[n] = bundles[n]
               /\ \A n \in DOMAIN bs : WellFormed(bs, n)
               /\ Traced(bs)
<1> DEFINE before == PreviousKeys(previous)
           b == Bundle(outcome, previous)
           bs == Append(bundles, b)
           prior == [k \in Current(outcome) |->
                        IF k \in before THEN <<k, previous>> ELSE None]
<1>1. /\ bundles \in Seq(BundleDocuments)
      /\ \A n \in DOMAIN bundles : WellFormed(bundles, n)
  BY DEF BundlesInv
<1>2. \A n \in DOMAIN bundles : bundles[n].keys \subseteq Keys
  <2>1. \A n \in DOMAIN bundles : bundles[n] \in BundleDocuments
    BY <1>1
  <2>2. QED
    BY <2>1 DEF BundleDocuments
<1>3. previous \in Nat \cup {None}
  BY <1>1
<1>4. before \subseteq Keys /\ \A k \in before : previous \in DOMAIN bundles
  BY <1>2 DEF PreviousKeys
<1>5. /\ b.outcome = outcome /\ b.previous = previous
      /\ b.keys = Current(outcome) /\ b.prior = prior
      /\ b.notReproduced = before \ Current(outcome)
  BY DEF Bundle
<1>6. prior \in Priors
  <2>1. prior \in [Current(outcome) -> (Keys \X Nat) \cup {None}]
    BY <1>1, <1>4, CurrentAreKeys
  <2>2. QED
    BY <2>1, CurrentAreKeys DEF Priors
<1>7. Twice(outcome) \subseteq Keys
  BY DEF Twice
<1>8. b \in BundleDocuments
  BY <1>3, <1>4, <1>6, <1>7, CurrentAreKeys DEF Bundle, BundleDocuments
<1> HIDE DEF b, before, prior
<1>9. /\ bs \in Seq(BundleDocuments)
      /\ Len(bs) = Len(bundles) + 1
      /\ DOMAIN bs = 1 .. Len(bs)
      /\ bs[Len(bundles) + 1] = b
      /\ \A n \in DOMAIN bundles : n \in DOMAIN bs /\ bs[n] = bundles[n]
  BY <1>1, <1>8
<1> HIDE DEF bs
<1>10. ASSUME NEW n \in DOMAIN bs
       PROVE  WellFormed(bs, n)
  <2>1. CASE n \in DOMAIN bundles
    BY <2>1, <1>1, <1>9, PressureAssumption DEF WellFormed
  <2>2. CASE n \notin DOMAIN bundles
    <3>1. n = Len(bundles) + 1 /\ bs[n] = b
      BY <2>2, <1>1, <1>9
    <3>2. previous # None => previous \in DOMAIN bundles /\ previous < n
      BY <3>1, <1>1
    <3>3. \A k \in DOMAIN prior : prior[k] # None =>
             k \in before /\ prior[k] = <<k, previous>>
      BY DEF prior
    <3>4. \A k \in before : /\ previous # None
                            /\ k \in bs[previous].keys
      BY <1>1, <1>4, <1>9, PressureAssumption DEF before, PreviousKeys
    <3>5. previous # None => bs[previous].keys \subseteq b.keys \cup b.notReproduced
      BY <1>5, <1>9, <3>2, PressureAssumption DEF before, PreviousKeys
    <3>6. QED
      BY <3>1, <3>2, <3>3, <3>4, <3>5, <1>5, <1>9, SMTT(30) DEF WellFormed
  <2>3. QED
    BY <2>1, <2>2
<1>11. Traced(bs)
  <2>1. Traced(bundles)
    BY DEF BundlesInv
  <2>2. \A n \in DOMAIN Append(bundles, b) : WellFormed(Append(bundles, b), n)
    BY <1>10 DEF bs
  <2>3. Traced(Append(bundles, b))
    BY <1>1, <1>8, <2>1, <2>2, LineExtended, Zenon
  <2>4. QED
    BY <2>3 DEF bs
<1>12. QED
  BY <1>8, <1>9, <1>10, <1>11 DEF bs, b

\* Steps that leave the bundles alone leave them well formed.
LEMMA BundlesStay ==
    ASSUME BundlesInv, UNCHANGED bundles
    PROVE  BundlesInv'
<1>1. bundles' = bundles
  OBVIOUS
<1>2. QED
  BY <1>1, SMTT(30) DEF BundlesInv, WellFormed, Traced, IsLineage, KeptAlong

-----------------------------------------------------------------------------
(* Lemmas about records.                                                   *)

\* What a projection writes is the file of records of its bundle.
LEMMA OpenedRecords ==
    ASSUME BundlesInv, NEW i \in DOMAIN bundles, NEW subject \in Subjects
    PROVE  LET file == [from |-> i, records |-> Opened(bundles[i], subject)]
           IN  /\ file \in [from : DOMAIN bundles, records : SUBSET Records]
               /\ \A k \in bundles[i].keys :
                     \E r \in file.records : r.key = k /\ r.required
               /\ \A r \in file.records : r.status = "open"
<1>1. bundles[i] \in BundleDocuments
  BY DEF BundlesInv
<1>2. bundles[i].keys \subseteq Keys
  BY <1>1 DEF BundleDocuments
<1>3. \A k \in bundles[i].keys :
         Record(k, "open", TRUE, subject, FALSE) \in Records
  BY <1>2 DEF Record, Records, Statuses
<1>4. Opened(bundles[i], subject) \in SUBSET Records
  BY <1>3 DEF Opened
<1>5. \A k \in bundles[i].keys :
         /\ Record(k, "open", TRUE, subject, FALSE) \in Opened(bundles[i], subject)
         /\ Record(k, "open", TRUE, subject, FALSE).key = k
         /\ Record(k, "open", TRUE, subject, FALSE).required
  BY DEF Opened, Record
<1>6. \A r \in Opened(bundles[i], subject) : r.status = "open"
  BY DEF Opened, Record
<1>7. QED
  BY <1>4, <1>5, <1>6

\* Settling a record keeps a record per pressure, each one's word known.
LEMMA SettledFile ==
    ASSUME ProjectedInv, projected # None,
           NEW r \in projected.records, r.status = "open",
           NEW status \in {"resolved", "rejected"}, NEW resolution \in BOOLEAN,
           Settle(r, status, resolution)
    PROVE  ProjectedInv'
<1> DEFINE s == Record(r.key, status, TRUE, r.subject, resolution)
           file == [projected EXCEPT !.records = (@ \ {r}) \cup {s}]
<1>1. projected \in [from : DOMAIN bundles, records : SUBSET Records]
  BY DEF ProjectedInv
<1>2. r \in Records
  BY <1>1
<1>3. s \in Records /\ s.key = r.key /\ s.required /\ s.status = status
  BY <1>2 DEF Records, Record, Statuses
<1>4. /\ projected' = file /\ bundles' = bundles
      /\ settled' = settled \cup {Settlement(s)}
  BY DEF Settle
<1> HIDE DEF s
<1>5. /\ file.from = projected.from
      /\ file.records = (projected.records \ {r}) \cup {s}
      /\ file \in [from : DOMAIN bundles, records : SUBSET Records]
  BY <1>1, <1>3
<1> HIDE DEF file
<1>6. \A k \in bundles[file.from].keys :
         \E q \in file.records : q.key = k /\ q.required
  BY <1>3, <1>5 DEF ProjectedInv
<1>7. \A q \in file.records :
         q.status # "open" => Settlement(q) \in settled'
  BY <1>4, <1>5 DEF ProjectedInv, Owned
<1>8. QED
  BY <1>4, <1>5, <1>6, <1>7 DEF ProjectedInv, Owned, Settlement

\* Records that are taken and amount to PASS are resolved where required,
\* records that amount to FAIL hold one that was rejected.
LEMMA VerdictMeans ==
    ASSUME NEW R, NEW subject, \A r \in R : r.status \in Statuses
    PROVE  /\ Verdict(R) = "PASS" =>
                \A r \in R : r.required => r.status = "resolved"
           /\ Verdict(R) = "FAIL" => \E r \in R : r.status = "rejected"
BY DEF Verdict, Statuses
-----------------------------------------------------------------------------
(* The invariant, action by action.                                        *)

\* Nothing was observed and nothing written.
LEMMA InitInv ==
    Init => PressureInv
<1> SUFFICES ASSUME Init PROVE PressureInv
  OBVIOUS
<1>1. bundles = << >> /\ DOMAIN bundles = {}
  BY DEF Init
<1>2. BundlesInv
  BY <1>1, NoLines DEF BundlesInv
<1>3. QED
  BY <1>2 DEF Init, PressureInv, ProjectedInv, AuthoredInv, CheckInv,
              DecidedByOwners

\* An observation appends a bundle and changes no other document.
LEMMA ObserveInv ==
    ASSUME PressureInv, Observe
    PROVE  PressureInv'
<1>1. PICK outcome \in [Checks -> Outcomes],
           previous \in DOMAIN bundles \cup {None} :
         bundles' = Append(bundles, Bundle(outcome, previous))
  BY DEF Observe
<1>2. UNCHANGED <<projected, authored, check, settled>>
  BY DEF Observe
<1>3. /\ BundlesInv'
      /\ DOMAIN bundles \subseteq DOMAIN bundles'
      /\ \A n \in DOMAIN bundles : bundles'[n] = bundles[n]
  <2>1. BundlesInv
    BY DEF PressureInv
  <2>2. QED
    BY <1>1, <2>1, NewBundle DEF BundlesInv
<1>4. ProjectedInv'
  BY <1>2, <1>3 DEF PressureInv, ProjectedInv, Owned
<1>5. AuthoredInv'
  BY <1>2 DEF PressureInv, AuthoredInv, Owned
<1>6. CheckInv'
  BY <1>2, <1>3 DEF PressureInv, CheckInv, DecidedByOwners
<1>7. QED
  BY <1>3, <1>4, <1>5, <1>6 DEF PressureInv

\* A projection of pressure writes the records of its bundle, or nothing.
LEMMA ProjectPressureInv ==
    ASSUME PressureInv, NEW i \in DOMAIN bundles, NEW subject \in Subjects,
           ProjectPressure(i, subject)
    PROVE  PressureInv'
<1> DEFINE file == [from |-> i, records |-> Opened(bundles[i], subject)]
<1>1. UNCHANGED <<bundles, authored, check, settled>>
  BY DEF ProjectPressure
<1>2. projected' = projected \/ projected' = file
  BY DEF ProjectPressure
<1>3. BundlesInv'
  BY <1>1, BundlesStay DEF PressureInv
<1>4. /\ file \in [from : DOMAIN bundles, records : SUBSET Records]
      /\ \A k \in bundles[i].keys : \E r \in file.records : r.key = k /\ r.required
      /\ \A r \in file.records : r.status = "open"
      /\ file.from = i
  BY OpenedRecords DEF PressureInv
<1> HIDE DEF file
<1>5. ProjectedInv'
  <2>1. CASE projected' = projected
    BY <1>1, <2>1 DEF PressureInv, ProjectedInv, Owned
  <2>2. CASE projected' = file
    BY <1>1, <1>4, <2>2 DEF ProjectedInv, Owned
  <2>3. QED
    BY <1>2, <2>1, <2>2
<1>6. AuthoredInv' /\ CheckInv'
  BY <1>1 DEF PressureInv, AuthoredInv, Owned, CheckInv, DecidedByOwners
<1>7. QED
  BY <1>3, <1>5, <1>6 DEF PressureInv

\* An owner's word replaces a record by the same record, settled.
LEMMA SettleInv ==
    ASSUME PressureInv, projected # None, NEW r \in projected.records,
           NEW status \in {"resolved", "rejected"}, NEW resolution \in BOOLEAN,
           Settle(r, status, resolution)
    PROVE  PressureInv'
<1>1. /\ UNCHANGED <<bundles, authored, check>>
      /\ settled \subseteq settled'
      /\ r.status = "open"
  BY DEF Settle
<1>2. BundlesInv'
  BY <1>1, BundlesStay DEF PressureInv
<1>3. ProjectedInv'
  BY <1>1, SettledFile DEF PressureInv
<1>4. AuthoredInv'
  BY <1>1 DEF PressureInv, AuthoredInv, Owned, Settlement
<1>5. CheckInv'
  BY <1>1 DEF PressureInv, CheckInv, DecidedByOwners
<1>6. QED
  BY <1>2, <1>3, <1>4, <1>5 DEF PressureInv

\* A record of an owner's own is its word, unless it is open.
LEMMA AuthorInv ==
    ASSUME PressureInv, NEW r \in Own, Author(r)
    PROVE  PressureInv'
<1>1. /\ UNCHANGED <<bundles, projected, check>>
      /\ settled \subseteq settled' /\ authored' = r
      /\ r.status # "open" => Settlement(r) \in settled'
  BY DEF Author
<1>2. BundlesInv'
  BY <1>1, BundlesStay DEF PressureInv
<1>3. ProjectedInv'
  BY <1>1 DEF PressureInv, ProjectedInv, Owned, Settlement
<1>4. r \in Records
  BY PressureAssumption DEF Records
<1>5. AuthoredInv'
  BY <1>1, <1>4 DEF AuthoredInv, Owned, Settlement
<1>6. CheckInv'
  BY <1>1 DEF PressureInv, CheckInv, DecidedByOwners
<1>7. QED
  BY <1>2, <1>3, <1>5, <1>6 DEF PressureInv

\* A check written over files that are taken says what owners said.
LEMMA ProjectObligationsInv ==
    ASSUME PressureInv, NEW withProjected \in BOOLEAN,
           NEW withAuthored \in BOOLEAN, NEW subject \in Subjects,
           ProjectObligations(withProjected, withAuthored, subject)
    PROVE  PressureInv'
<1> DEFINE file == IF withProjected THEN projected.records ELSE {}
           own == IF withAuthored THEN {authored} ELSE {}
           R == file \cup own
           written == [verdict |-> Verdict(R), subject |-> subject,
                       from |-> IF withProjected THEN projected.from ELSE None]
<1>1. /\ UNCHANGED <<bundles, projected, authored, settled>>
      /\ withProjected => projected # None
      /\ withAuthored => authored # None
      /\ \/ check' = check
         \/ check' = written /\ \A r \in R : Admissible(r, subject)
  BY DEF ProjectObligations
<1>2. BundlesInv' /\ ProjectedInv' /\ AuthoredInv'
  BY <1>1, BundlesStay DEF PressureInv, ProjectedInv, AuthoredInv, Owned
<1>3. CASE check' = check
  BY <1>1, <1>2, <1>3 DEF PressureInv, CheckInv, DecidedByOwners
<1>4. CASE check' = written /\ \A r \in R : Admissible(r, subject)
  <2>1. \A r \in R : r \in Records /\ Owned(r) /\ r.subject = subject
    BY <1>1, <1>4 DEF PressureInv, ProjectedInv, AuthoredInv, Admissible
  <2>2. \A r \in R : r.status \in Statuses
    BY <2>1 DEF Records
  <2>3. /\ check'.verdict = Verdict(R) /\ check'.subject = subject
        /\ check'.from = IF withProjected THEN projected.from ELSE None
    BY <1>4
  <2>4. check'.from = None \/ check'.from \in DOMAIN bundles
    BY <1>1, <2>3 DEF PressureInv, ProjectedInv
  <2>5. ASSUME check'.verdict = "PASS", check'.from # None, NEW k \in Keys,
               k[2] \in Unresolved(bundles[check'.from].outcome[k[1]])
        PROVE  [key |-> k, subject |-> subject, status |-> "resolved"] \in settled
    <3>1. withProjected /\ check'.from = projected.from
      BY <2>3, <2>5
    <3>2. k \in bundles[projected.from].keys
      BY <1>1, <2>4, <2>5, <3>1
         DEF PressureInv, BundlesInv, WellFormed, Current
    <3>3. PICK r \in projected.records : r.key = k /\ r.required
      BY <1>1, <3>1, <3>2 DEF PressureInv, ProjectedInv
    <3>4. r \in R
      BY <3>1, <3>3
    <3>5. r.status = "resolved"
      BY <2>2, <2>3, <2>5, <3>3, <3>4, VerdictMeans
    <3>6. Settlement(r) \in settled /\ r.subject = subject
      BY <2>1, <3>4, <3>5 DEF Owned
    <3>7. QED
      BY <3>3, <3>5, <3>6 DEF Settlement
  <2>6. ASSUME check'.verdict = "FAIL"
        PROVE  \E s \in settled : s.subject = subject /\ s.status = "rejected"
    <3>1. PICK r \in R : r.status = "rejected"
      BY <2>2, <2>3, <2>6, VerdictMeans
    <3>2. Settlement(r) \in settled /\ r.subject = subject
      BY <2>1, <3>1 DEF Owned
    <3>3. QED
      BY <3>1, <3>2 DEF Settlement
  <2>7. CheckInv'
    BY <1>1, <2>3, <2>4, <2>5, <2>6 DEF CheckInv, DecidedByOwners
  <2>8. QED
    BY <1>2, <2>7 DEF PressureInv
<1>5. QED
  BY <1>1, <1>3, <1>4

-----------------------------------------------------------------------------
(* The theorems.                                                           *)

\* The invariant holds of every history of observations, projections and
\* owners' words.
THEOREM PressureIsKept == Spec => []PressureInv
<1>1. Init => PressureInv
  BY InitInv
<1>2. PressureInv /\ [Next]_vars => PressureInv'
  <2> SUFFICES ASSUME PressureInv, [Next]_vars PROVE PressureInv'
    OBVIOUS
  <2>1. CASE Observe
    BY <2>1, ObserveInv
  <2>2. ASSUME NEW i \in DOMAIN bundles, NEW s \in Subjects,
               ProjectPressure(i, s)
        PROVE  PressureInv'
    BY <2>2, ProjectPressureInv
  <2>3. ASSUME projected # None, NEW r \in projected.records,
               NEW status \in {"resolved", "rejected"},
               NEW resolution \in BOOLEAN, Settle(r, status, resolution)
        PROVE  PressureInv'
    BY <2>3, SettleInv
  <2>4. ASSUME NEW r \in Own, Author(r)
        PROVE  PressureInv'
    BY <2>4, AuthorInv
  <2>5. ASSUME NEW withProjected \in BOOLEAN, NEW withAuthored \in BOOLEAN,
               NEW s \in Subjects,
               ProjectObligations(withProjected, withAuthored, s)
        PROVE  PressureInv'
    BY <2>5, ProjectObligationsInv
  <2>6. CASE UNCHANGED vars
    <3>1. UNCHANGED <<bundles, projected, authored, check, settled>>
      BY <2>6 DEF vars
    <3>2. BundlesInv'
      BY <3>1, BundlesStay DEF PressureInv
    <3>3. QED
      BY <3>1, <3>2 DEF PressureInv, ProjectedInv, AuthoredInv, Owned,
                        CheckInv, DecidedByOwners
  <2>7. QED
    BY <2>1, <2>2, <2>3, <2>4, <2>5, <2>6 DEF Next
<1>3. QED
  BY <1>1, <1>2, PTL DEF Spec

\* Whatever bundles observations are given, and in whatever order, what a
\* bundle says of the past was observed (build_pressure_bundle).
THEOREM HistoryIsProved == Spec => []HistoryIsObserved
<1>1. PressureInv => HistoryIsObserved
  <2> SUFFICES ASSUME BundlesInv PROVE HistoryIsObserved
    BY DEF PressureInv
  <2>1. \A n \in DOMAIN bundles : WellFormed(bundles, n)
    BY DEF BundlesInv
  <2>2. \A m \in DOMAIN bundles : \A k \in bundles[m].keys :
           k[2] \in Unresolved(bundles[m].outcome[k[1]])
    BY <2>1 DEF WellFormed, Current
  <2>3. \A n \in DOMAIN bundles : bundles[n].notReproduced \subseteq Keys
    <3>1. \A n \in DOMAIN bundles : bundles[n] \in BundleDocuments
      BY DEF BundlesInv
    <3>2. QED
      BY <3>1 DEF BundleDocuments
  <2>4. QED
    BY <2>1, <2>2, <2>3 DEF HistoryIsObserved, WellFormed, Current
<1>2. QED
  BY <1>1, PressureIsKept, PTL

\* Whatever bundles observations are given, pressure leaves a line of them
\* only where a bundle of the line says that it was not reproduced
\* (build_pressure_bundle).
THEOREM NothingIsLost == Spec => []NothingVanishes
<1>1. BundlesInv => NothingVanishes
  <2> SUFFICES ASSUME BundlesInv PROVE NothingVanishes
    OBVIOUS
  <2>1. IsLineage(Lineage, bundles)
    <3>1. \E f : IsLineage(f, bundles)
      BY DEF BundlesInv, Traced
    <3>2. QED
      BY <3>1 DEF IsLineage, Lineage
  <2> HIDE DEF Lineage
  <2>2. KeptAlong(Lineage, bundles)
    BY <2>1 DEF BundlesInv, Traced
  <2>3. QED
    BY <2>2 DEF KeptAlong, NothingVanishes
<1>2. QED
  BY <1>1, PressureIsKept, PTL DEF PressureInv

\* Whatever files a projection is given, a PASS or a FAIL of
\* mncds-obligations is an owner's word for its subject and for the
\* observation the projected records came from (project_obligations over
\* pressure_to_obligations).
THEOREM VerdictsAreOwners == Spec => []DecidedByOwners
<1>1. PressureInv => DecidedByOwners
  BY DEF PressureInv, CheckInv
<1>2. QED
  BY <1>1, PressureIsKept, PTL

=============================================================================
