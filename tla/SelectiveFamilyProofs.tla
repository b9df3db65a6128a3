----------------------- MODULE SelectiveFamilyProofs -----------------------
(***************************************************************************)
(* Theorems about the execution of a selective verification plan, for any  *)
(* consumers, selections and capacity and any number of calls and changes: *)
(* that every document is of its kind, that a composite PASS was earned    *)
(* edge by edge, and that copied evidence is current.                      *)
(*                                                                         *)
(* The invariant follows evidence from the check that made it through the  *)
(* record of a call to a proof, and from there to the record of a later    *)
(* call.  That a call was undisturbed is known only at its end, as the     *)
(* world being the one it began in; what was read in between is of that    *)
(* world because worlds only grow (Earlier).  On the canonical path the    *)
(* native results of all records are joined to one sequence; the lemmas    *)
(* about FlattenSeq show that as many results as edges, none of them       *)
(* empty, are one of each.                                                 *)
(***************************************************************************)
EXTENDS SelectiveFamily, WellFoundedInduction, SequenceTheorems, TLAPS

-----------------------------------------------------------------------------
(* Induction and recursive functions.                                      *)

\* Induction over the naturals, with the property as a set.
LEMMA Induction ==
    ASSUME NEW S, 0 \in S, \A n \in Nat : n \in S => n + 1 \in S
    PROVE  Nat \subseteq S
<1> DEFINE Rest == Nat \ S
           less == {pair \in Nat \X Nat : pair[1] < pair[2]}
<1>1. IsWellFoundedOn(less, Nat)
    BY NatLessThanWellFounded DEF OpToRel
<1>2. Rest = {}
  <2> SUFFICES ASSUME Rest # {}
               PROVE  FALSE
      OBVIOUS
  <2>1. PICK x \in Rest : \A y \in Rest : ~ (<<y, x>> \in less)
      <3> HIDE DEF less
      <3> QED  BY <1>1, WFMin, Rest \subseteq Nat
  <2>2. x # 0 /\ x - 1 \in Nat /\ <<x - 1, x>> \in less
      OBVIOUS
  <2>3. x - 1 \in S
      BY <2>1, <2>2
  <2> QED
      BY <2>2, <2>3
<1> QED
    BY <1>2

-----------------------------------------------------------------------------
(* Joining sequences.                                                      *)

\* The recursive function of FlattenSeq, and that there is one.
IsJoin(f, seqs) ==
    f = [i \in 1..Len(seqs) |-> IF i = 1 THEN seqs[i] ELSE f[i - 1] \o seqs[i]]

LEMMA JoinExists ==
    ASSUME NEW T, NEW seqs \in Seq(Seq(T))
    PROVE  \E f : IsJoin(f, seqs)
<1> DEFINE upto(n) ==
             \E f : f = [i \in 1..n |-> IF i = 1 THEN seqs[i] ELSE f[i - 1] \o seqs[i]]
           good == {n \in Nat : upto(n)}
<1>1. upto(0)
  <2>1. << >> = [i \in 1..0 |-> IF i = 1 THEN seqs[i] ELSE << >>[i - 1] \o seqs[i]]
      OBVIOUS
  <2> QED  BY <2>1
<1>2. ASSUME NEW n \in Nat, upto(n)
      PROVE  upto(n + 1)
  <2>1. PICK f : f = [i \in 1..n |-> IF i = 1 THEN seqs[i] ELSE f[i - 1] \o seqs[i]]
      BY <1>2
  <2> DEFINE g == [i \in 1..n + 1 |-> IF i <= n THEN f[i]
                                     ELSE IF i = 1 THEN seqs[i] ELSE f[i - 1] \o seqs[i]]
             h == [i \in 1..n + 1 |-> IF i = 1 THEN seqs[i] ELSE g[i - 1] \o seqs[i]]
  <2>2. ASSUME NEW i \in 1..n + 1
        PROVE  g[i] = h[i]
    <3>1. CASE i <= n
      <4> DEFINE fi == IF i = 1 THEN seqs[i] ELSE f[i - 1] \o seqs[i]
      <4>0. i \in 1..n
          BY <3>1
      <4>3. f[i] = fi
        <5> HIDE DEF g, h
        <5> QED  BY <2>1, <4>0, Zenon
      <4>1. g[i] = f[i] /\ f[i] = fi
          BY <4>3, <3>1
      <4>2. i # 1 => i - 1 \in 1..n + 1 /\ g[i - 1] = f[i - 1]
          BY <3>1
      <4> QED  BY <4>1, <4>2
    <3>2. CASE i = n + 1
      <4>1. g[i] = IF i = 1 THEN seqs[i] ELSE f[i - 1] \o seqs[i]
          BY <3>2
      <4>2. i # 1 => i - 1 \in 1..n + 1 /\ g[i - 1] = f[i - 1]
          BY <3>2
      <4> QED  BY <4>1, <4>2
    <3> QED  BY <3>1, <3>2
  <2>3. g = h
      BY <2>2
  <2> QED  BY <2>3
<1>3. Nat \subseteq good
  <2> SUFFICES 0 \in good /\ \A n \in Nat : n \in good => n + 1 \in good
      BY Induction
  <2> HIDE DEF upto
  <2> QED  BY <1>1, <1>2
<1>4. Len(seqs) \in Nat
    OBVIOUS
<1> QED
    BY <1>3, <1>4 DEF IsJoin

\* What FlattenSeq returns: the last value of that function.
LEMMA Joined ==
    ASSUME NEW T, NEW seqs \in Seq(Seq(T)), seqs # << >>
    PROVE  \E f : IsJoin(f, seqs) /\ FlattenSeq(seqs) = f[Len(seqs)]
<1> DEFINE F == CHOOSE f : IsJoin(f, seqs)
<1>1. IsJoin(F, seqs)
    BY JoinExists
<1>2. Len(seqs) # 0
    BY EmptySeq
<1>3. FlattenSeq(seqs) = F[Len(seqs)]
    BY <1>2 DEF FlattenSeq, IsJoin
<1> QED
    BY <1>1, <1>3

LEMMA LeastSum ==
    ASSUME NEW n \in Nat, NEW a \in Nat, NEW b \in Nat,
           a >= n, b >= 1, a + b = n + 1
    PROVE  a = n /\ b = 1
    OBVIOUS

\* Sequences that are not empty and together no longer than there are of
\* them have one element each.
LEMMA Singles ==
    ASSUME NEW T, NEW seqs \in Seq(Seq(T)),
           \A i \in DOMAIN seqs : Len(seqs[i]) >= 1,
           Len(FlattenSeq(seqs)) = Len(seqs)
    PROVE  /\ FlattenSeq(seqs) \in Seq(T)
           /\ \A i \in DOMAIN seqs :
                   Len(seqs[i]) = 1 /\ FlattenSeq(seqs)[i] = seqs[i][1]
<1> DEFINE single(f, n) ==
             \A i \in 1..n : Len(seqs[i]) = 1 /\ f[n][i] = seqs[i][1]
           upto(f, n) ==
             n \in 1..Len(seqs) =>
                /\ f[n] \in Seq(T) /\ Len(f[n]) >= n
                /\ Len(f[n]) = n => single(f, n)
<1>1. CASE seqs = << >>
    BY <1>1 DEF FlattenSeq
<1>2. CASE seqs # << >>
  <2>1. PICK f : IsJoin(f, seqs) /\ FlattenSeq(seqs) = f[Len(seqs)]
      BY <1>2, Joined
  <2>2. Len(seqs) \in Nat \ {0}
      BY <1>2, EmptySeq
  <2>3. \A i \in 1..Len(seqs) : seqs[i] \in Seq(T) /\ Len(seqs[i]) \in Nat /\ Len(seqs[i]) >= 1
      OBVIOUS
  <2>4. f[1] = seqs[1]
      BY <2>1, <2>2 DEF IsJoin
  <2>5. \A i \in 1..Len(seqs) : i # 1 => f[i] = f[i - 1] \o seqs[i]
      BY <2>1, <2>2 DEF IsJoin
  <2>6. upto(f, 1)
      BY <2>2, <2>3, <2>4
  <2>7. ASSUME NEW n \in Nat \ {0}, upto(f, n)
        PROVE  upto(f, n + 1)
    <3> SUFFICES ASSUME n + 1 \in 1..Len(seqs)
                 PROVE  /\ f[n + 1] \in Seq(T) /\ Len(f[n + 1]) >= n + 1
                        /\ Len(f[n + 1]) = n + 1 => single(f, n + 1)
        OBVIOUS
    <3> DEFINE g == f[n]
               s == seqs[n + 1]
    <3>1. g \in Seq(T) /\ Len(g) >= n /\ (Len(g) = n => single(f, n))
        BY <2>7
    <3>2. s \in Seq(T) /\ Len(s) >= 1
        BY <2>3
    <3>3. f[n + 1] = g \o s
      <4>1. n + 1 # 1 /\ (n + 1) - 1 = n
          OBVIOUS
      <4> QED  BY <2>5, <4>1
    <3>4. /\ g \o s \in Seq(T) /\ Len(g \o s) = Len(g) + Len(s)
          /\ \A i \in 1..Len(g) : (g \o s)[i] = g[i]
          /\ \A i \in 1..Len(s) : (g \o s)[Len(g) + i] = s[i]
      <4> HIDE DEF g, s
      <4> QED  BY <3>1, <3>2, ConcatProperties, SMTT(30)
    <3>5. Len(g) \in Nat /\ Len(s) \in Nat
        BY <3>1, <3>2
    <3>6. ASSUME Len(g) + Len(s) = n + 1
          PROVE  single(f, n + 1)
      <4>1. Len(g) = n /\ Len(s) = 1
        <5> HIDE DEF g, s
        <5> QED  BY <3>1, <3>2, <3>5, <3>6, LeastSum
      <4>2. \A i \in 1..n : Len(seqs[i]) = 1 /\ (g \o s)[i] = seqs[i][1]
          BY <3>1, <3>4, <4>1
      <4>3. (g \o s)[n + 1] = s[1]
        <5> HIDE DEF g, s
        <5> QED  BY <3>4, <4>1
      <4>4. ASSUME NEW i \in 1..n + 1
            PROVE  Len(seqs[i]) = 1 /\ (g \o s)[i] = seqs[i][1]
        <5>1. i \in 1..n \/ i = n + 1
            OBVIOUS
        <5> QED  BY <4>1, <4>2, <4>3, <5>1
      <4> QED  BY <3>3, <4>4
    <3> QED
      <4> HIDE DEF g, s, single
      <4> QED  BY <3>1, <3>2, <3>3, <3>4, <3>5, <3>6
  <2>8. \A n \in Nat : n >= 1 => upto(f, n)
    <3> DEFINE good == {n \in Nat : n = 0 \/ upto(f, n)}
    <3> HIDE DEF upto
    <3>1. 0 \in good
        OBVIOUS
    <3>2. ASSUME NEW n \in Nat, n \in good
          PROVE  n + 1 \in good
      <4>1. CASE n = 0
          BY <2>6, <4>1
      <4>2. CASE n # 0
          BY <2>7, <3>2, <4>2
      <4> QED  BY <4>1, <4>2
    <3>3. Nat \subseteq good
      <4> HIDE DEF good
      <4> QED  BY <3>1, <3>2, Induction
    <3> QED  BY <3>3
  <2>9. upto(f, Len(seqs))
    <3> HIDE DEF upto
    <3> QED  BY <2>2, <2>8
  <2> QED
      BY <2>1, <2>2, <2>9
<1> QED
    BY <1>1, <1>2

-----------------------------------------------------------------------------
(* The inductive invariant.                                                *)

\* Numbers are no larger than the changes there were.
UpTo(n) == [declaration : 0..n, source : 0..n]
WorldUpTo(n) == [tree : [Consumers -> UpTo(n)], head : [Consumers -> UpTo(n)],
                 producer : 0..n, tools : 0..n]

\* The revision of a checkout with some content, and of a consumer in a world.
RevisionOf(c, content) ==
    IF c \in Tracked THEN content
    ELSE [declaration |-> content.declaration, source |-> None]
RevisionIn(w, c) == IF c \in Tracked THEN w.head[c]
                    ELSE [declaration |-> w.tree[c].declaration, source |-> None]

\* Nothing that changes in a world goes back.
NotAfter(a, b) == a.declaration <= b.declaration /\ a.source <= b.source
Earlier(v, w) ==
    /\ \A c \in Consumers : NotAfter(v.tree[c], w.tree[c]) /\ NotAfter(v.head[c], w.head[c])
    /\ v.producer <= w.producer /\ v.tools <= w.tools

SelectedEdge == [consumer : Consumers, contract : Nat, batches : Nat \ {0},
                 runner : {"mncs-test", "declaration"}]
Run == [content : Content, producer : Number, tools : Number, steady : BOOLEAN]
EvidenceSet ==
    [edge : [edge : SelectedEdge, declaration : Number], verdict : Verdict,
     native : Seq(Verdict), revision : Revision, producer : Number,
     tools : Number \cup {None}, ran : Run \cup {None}]
RecordSet == [evidence : EvidenceSet, status : {"generated", "reused"}]
ProofSet == [status : Verdict, plan : Plan, records : Seq(RecordSet),
             files : [Consumers -> EvidenceSet \cup {None}], call : Call,
             steady : BOOLEAN]

\* Evidence of an undisturbed check names what the check ran on.
Honest(e) ==
    e.verdict = "PASS" /\ e.ran.steady =>
        /\ e.revision = RevisionOf(e.edge.edge.consumer, e.ran.content)
        /\ e.producer = e.ran.producer
        /\ e.edge.edge.runner = "mncs-test" => e.tools = e.ran.tools

\* The evidence a call records at a place is of the edge there, and of the
\* producer and the tools the call bound.
Fits(i, e, c) ==
    /\ e.edge = [edge |-> c.plan.edges[i],
                 declaration |-> c.plan.graph[c.plan.edges[i].consumer]]
    /\ e.producer = c.producer
    /\ e.edge.edge.runner = "mncs-test" => e.tools = c.tools

\* The evidence names the revision its consumer has in a world.
Names(e, w) == e.revision = RevisionIn(w, e.edge.edge.consumer)

Bind(c) == c \in Call /\ c.producer = c.world.producer /\ c.tools = c.world.tools

WorldInv ==
    /\ moves \in Number /\ world \in WorldUpTo(moves)
    /\ \A c \in Consumers : NotAfter(world.head[c], world.tree[c])
    /\ graph \in Graph /\ plan \in Plan
    /\ pc \in {"idle", "visit", "decide", "run", "died"}

RecordsInv ==
    /\ records \in Seq(RecordSet)
    /\ \A i \in DOMAIN records : IsEvidence(records[i].evidence) /\ Honest(records[i].evidence)
    /\ files \in [Consumers -> EvidenceSet \cup {None}]
    /\ \A c \in Consumers :
            LET own == RecordsOf(records, c)
            IN  files[c] = IF own = {} THEN None ELSE records[Max(own)].evidence

CallInv ==
    IF Busy
    THEN /\ Bind(call) /\ call.prior \in 0..Len(proofs)
         /\ Earlier(call.world, world)
         /\ Len(records) <= Len(Edges)
         /\ \A i \in DOMAIN records :
                /\ Fits(i, records[i].evidence, call)
                /\ world = call.world => Names(records[i].evidence, world)
    ELSE call = None /\ records = << >>

\* What was read of the consumer that is visited.
Read(r) == r \in Revision /\ (world = call.world => r = RevisionIn(world, Consumer))
VisitInv ==
    pc \in {"decide", "run"} =>
        /\ Here <= Len(Edges)
        /\ revision = [visited |-> revision.visited, checked |-> revision.checked]
        /\ Read(revision.visited)
        /\ pc = "run" => Read(revision.checked)

\* A composite proof.
Earned(p) ==
    p.status = "PASS" =>
        /\ Len(p.records) = Len(p.plan.edges)
        /\ \A i \in DOMAIN p.records :
                /\ p.records[i].evidence.verdict = "PASS"
                /\ p.call.native => p.records[i].evidence.native = <<"PASS">>
Composite(p) ==
    /\ p.plan = p.call.plan /\ Bind(p.call)
    /\ \A i \in DOMAIN p.records :
            /\ IsEvidence(p.records[i].evidence) /\ Honest(p.records[i].evidence)
            /\ Fits(i, p.records[i].evidence, p.call)
            /\ p.steady => Names(p.records[i].evidence, p.call.world)
    /\ Earned(p)
ProofsInv == proofs \in Seq(ProofSet) /\ \A n \in DOMAIN proofs : Composite(proofs[n])

IInv == WorldInv /\ RecordsInv /\ CallInv /\ VisitInv /\ ProofsInv

-----------------------------------------------------------------------------
(* What the invariant's parts are made of.                                 *)

LEMMA SelectedEdges ==
    ASSUME NEW edges \in Selections
    PROVE  /\ edges \in Seq(SelectedEdge) /\ edges # << >>
           /\ Len(edges) \in Nat \ {0}
           /\ \A i \in 1..Len(edges) : edges[i] \in SelectedEdge
<1>1. edges \in Seq(SelectedEdge) /\ edges # << >>
    BY ConstantsAssumption DEF SelectedEdge
<1>2. Len(edges) \in Nat \ {0}
    BY <1>1, EmptySeq
<1> QED
    BY <1>1, <1>2

LEMMA WorldsAreWorlds ==
    ASSUME NEW n \in Number
    PROVE  /\ UpTo(n) \subseteq Content
           /\ WorldUpTo(n) \subseteq World
           /\ n + 1 \in Number => WorldUpTo(n) \subseteq WorldUpTo(n + 1)
<1>1. 0..n \subseteq Number /\ 0..n \subseteq 0..n + 1
    BY ConstantsAssumption DEF Number
<1>2. UpTo(n) \subseteq Content /\ UpTo(n) \subseteq UpTo(n + 1)
    BY <1>1 DEF UpTo, Content
<1>3. WorldUpTo(n) \subseteq World
    BY <1>1, <1>2 DEF WorldUpTo, World
<1>4. WorldUpTo(n) \subseteq WorldUpTo(n + 1)
    BY <1>1, <1>2 DEF WorldUpTo
<1> QED
    BY <1>2, <1>3, <1>4

LEMMA NumbersAreNumbers == Number \subseteq Nat
    BY ConstantsAssumption DEF Number

LEMMA EarlierItself ==
    ASSUME NEW w \in World
    PROVE  Earlier(w, w)
<1>1. \A x \in Content : x.declaration \in Nat /\ x.source \in Nat
    BY NumbersAreNumbers DEF Content
<1>2. \A x \in Content : NotAfter(x, x)
    BY <1>1 DEF NotAfter
<1>3. w.producer \in Nat /\ w.tools \in Nat
    BY NumbersAreNumbers DEF World
<1>4. \A c \in Consumers : w.tree[c] \in Content /\ w.head[c] \in Content
    BY DEF World
<1> QED
    BY <1>2, <1>3, <1>4 DEF Earlier

\* Worlds only grow, and never come back to an earlier one.
LEMMA EarlierIsPartial ==
    ASSUME NEW u \in World, NEW v \in World, NEW w \in World,
           Earlier(u, v), Earlier(v, w)
    PROVE  /\ Earlier(u, u)
           /\ Earlier(u, w)
           /\ w = u => v = u
<1> USE NumbersAreNumbers
<1>1. \A x \in World : /\ x.producer \in Nat /\ x.tools \in Nat
                       /\ \A c \in Consumers : /\ x.tree[c] \in Content
                                               /\ x.head[c] \in Content
    BY DEF World
<1>2. \A x \in Content : x.declaration \in Nat /\ x.source \in Nat
    BY DEF Content
<1>3. \A x \in Content : NotAfter(x, x)
    BY <1>2 DEF NotAfter
<1>4. \A x, y, z \in Content : NotAfter(x, y) /\ NotAfter(y, z) => NotAfter(x, z)
    BY <1>2 DEF NotAfter
<1>5. \A x, y \in Content : NotAfter(x, y) /\ NotAfter(y, x) => x = y
  <2> SUFFICES ASSUME NEW x \in Content, NEW y \in Content,
                      NotAfter(x, y), NotAfter(y, x)
               PROVE  x = y
      OBVIOUS
  <2>1. x.declaration = y.declaration /\ x.source = y.source
      BY <1>2 DEF NotAfter
  <2> QED  BY <2>1 DEF Content
<1>6. Earlier(u, u)
    BY <1>1, <1>3 DEF Earlier
<1>7. Earlier(u, w)
  <2>1. u.producer <= w.producer /\ u.tools <= w.tools
      BY <1>1 DEF Earlier
  <2>2. ASSUME NEW c \in Consumers
        PROVE  NotAfter(u.tree[c], w.tree[c]) /\ NotAfter(u.head[c], w.head[c])
      BY <1>1, <1>4 DEF Earlier
  <2> QED  BY <2>1, <2>2 DEF Earlier
<1>8. ASSUME w = u PROVE v = u
  <2>1. u.producer = v.producer /\ u.tools = v.tools
      BY <1>1, <1>8 DEF Earlier
  <2>2. ASSUME NEW c \in Consumers
        PROVE  u.tree[c] = v.tree[c] /\ u.head[c] = v.head[c]
      BY <1>1, <1>5, <1>8 DEF Earlier
  <2>3. u.tree = v.tree /\ u.head = v.head
      BY <2>2 DEF World
  <2> QED  BY <2>1, <2>3 DEF World
<1> QED
    BY <1>6, <1>7, <1>8

LEMMA DominantVerdict ==
    ASSUME NEW verdicts
    PROVE  /\ Dominant(verdicts) \in Verdict
           /\ Dominant(verdicts) = "PASS" /\ verdicts \subseteq Verdict
                => \A v \in verdicts : v = "PASS"
    BY DEF Dominant, Verdict

LEMMA LeastIsThere ==
    ASSUME NEW S \in SUBSET Nat, S # {}
    PROVE  Min(S) \in S /\ \A i \in S : Min(S) <= i
<1> DEFINE less == {pair \in Nat \X Nat : pair[1] < pair[2]}
<1>1. IsWellFoundedOn(less, Nat)
    BY NatLessThanWellFounded DEF OpToRel
<1>2. PICK x \in S : \A y \in S : ~ (<<y, x>> \in less)
  <2> HIDE DEF less
  <2> QED  BY <1>1, WFMin
<1>3. ASSUME NEW y \in S
      PROVE  x <= y
  <2>1. x \in Nat /\ y \in Nat /\ ~ (y < x)
      BY <1>2
  <2> QED  BY <2>1
<1> QED
    BY <1>3 DEF Min

LEMMA LargestIsThere ==
    ASSUME NEW S \in SUBSET Nat, NEW n \in S, \A i \in S : i <= n
    PROVE  Max(S) = n
<1>1. n \in Nat /\ \A i \in S : i \in Nat /\ n >= i
    OBVIOUS
<1>2. Max(S) \in S /\ \A i \in S : Max(S) >= i
    BY <1>1 DEF Max
<1>3. Max(S) \in Nat /\ n >= Max(S) /\ Max(S) >= n
    BY <1>1, <1>2
<1> QED
    BY <1>1, <1>3

LEMMA GreatestIsThere ==
    ASSUME NEW n \in Nat, NEW S \in SUBSET 1..n, S # {}
    PROVE  Max(S) \in S
<1> DEFINE T == {k \in 0..n : n - k \in S}
<1>1. T \in SUBSET Nat /\ T # {}
  <2>1. PICK i \in S : TRUE
      OBVIOUS
  <2>2. i \in Nat /\ n - i \in T
    <3>1. i \in 1..n /\ n - i \in 0..n /\ n - (n - i) = i
        OBVIOUS
    <3> QED  BY <3>1
  <2>3. T \subseteq Nat
      OBVIOUS
  <2> HIDE DEF T
  <2> QED  BY <2>2, <2>3
<1>2. PICK k \in T : \A l \in T : k <= l
  <2> HIDE DEF T
  <2>1. Min(T) \in T /\ \A l \in T : Min(T) <= l
      BY <1>1, LeastIsThere
  <2> QED  BY <2>1
<1>3. n - k \in S /\ k \in Nat
    OBVIOUS
<1>4. ASSUME NEW i \in S
      PROVE  n - k >= i
  <2>1. i \in Nat /\ n - i \in T
      OBVIOUS
  <2>2. k <= n - i
      BY <1>2, <2>1
  <2> QED  BY <1>3, <2>1, <2>2
<1> QED
    BY <1>3, <1>4 DEF Max

-----------------------------------------------------------------------------
(* The evidence a call may record where it is.                             *)

Good(e) ==
    /\ e \in EvidenceSet /\ IsEvidence(e) /\ Honest(e)
    /\ Fits(Here, e, call)
    /\ world = call.world => Names(e, world)

LEMMA Visiting ==
    ASSUME WorldInv, RecordsInv, CallInv, VisitInv, pc \in {"decide", "run"}
    PROVE  /\ Busy /\ Bind(call)
           /\ Edges \in Selections /\ Here \in 1..Len(Edges)
           /\ Edges[Here] \in SelectedEdge /\ Consumer \in Consumers
           /\ PlanEdge(Here) \in [edge : SelectedEdge, declaration : Number]
           /\ PlanEdge(Here).edge = Edges[Here]
           /\ world \in World /\ call.world \in World
           /\ Read(revision.visited)
           /\ pc = "run" => Read(revision.checked)
<1>1. Busy /\ Bind(call) /\ call \in Call
    BY DEF Busy, CallInv, Bind
<1>2. call.plan \in Plan /\ call.world \in World
    BY <1>1 DEF Call
<1>3. Edges \in Selections /\ call.plan.graph \in Graph
    BY <1>2 DEF Edges, Plan
<1>4. Here \in 1..Len(Edges)
  <2>1. Len(records) \in Nat
      BY DEF RecordsInv
  <2> QED  BY <1>3, <2>1, SelectedEdges DEF VisitInv, Here
<1>5. Edges[Here] \in SelectedEdge
    BY <1>3, <1>4, SelectedEdges
<1>6. Consumer \in Consumers
    BY <1>5 DEF Consumer, SelectedEdge
<1>7. PlanEdge(Here) = [edge |-> Edges[Here], declaration |-> call.plan.graph[Consumer]]
    BY DEF PlanEdge, Consumer
<1>8. call.plan.graph[Consumer] \in Number
    BY <1>3, <1>6 DEF Graph
<1>9. world \in World
    BY WorldsAreWorlds DEF WorldInv
<1> QED
    BY <1>1, <1>2, <1>3, <1>4, <1>5, <1>6, <1>7, <1>8, <1>9 DEF VisitInv

\* What a check leaves is good, if the revision it names was read.
LEMMA EvidenceIsGood ==
    ASSUME WorldInv, RecordsInv, CallInv, VisitInv, pc \in {"decide", "run"},
           NEW verdict \in Verdict, NEW native \in Seq(Verdict),
           \/ native = << >>
           \/ /\ DOMAIN native = 1..Edges[Here].batches
              /\ verdict = Dominant(Verdicts(native)),
           NEW bound, Read(bound)
    PROVE  Good(Evidence(verdict, native, bound))
<1> DEFINE e == Evidence(verdict, native, bound)
           ran == [content |-> world.tree[Consumer], producer |-> world.producer,
                   tools |-> world.tools, steady |-> world = call.world /\ Clean(Consumer)]
           tools == IF Edges[Here].runner = "mncs-test" THEN call.tools ELSE None
           made == IF verdict = "PASS" THEN ran ELSE None
<1>1. /\ e.edge = PlanEdge(Here) /\ e.verdict = verdict /\ e.native = native
      /\ e.revision = bound /\ e.producer = call.producer /\ e.tools = tools
      /\ e.ran = made
      /\ e = [edge |-> PlanEdge(Here), verdict |-> verdict, native |-> native,
              revision |-> bound, producer |-> call.producer, tools |-> tools,
              ran |-> made]
    BY DEF Evidence
<1>2. /\ Edges \in Selections /\ Here \in 1..Len(Edges)
      /\ Edges[Here] \in SelectedEdge /\ Consumer \in Consumers
      /\ PlanEdge(Here) \in [edge : SelectedEdge, declaration : Number]
      /\ PlanEdge(Here).edge = Edges[Here]
      /\ world \in World /\ call.world \in World /\ Bind(call)
    BY Visiting
<1>3. call.producer \in Number /\ call.tools \in Number /\ bound \in Revision
    BY <1>2 DEF Bind, Call, Read
<1>4. ran \in Run /\ ran # None
  <2>1. world.tree[Consumer] \in Content /\ world.producer \in Number /\ world.tools \in Number
      BY <1>2 DEF World
  <2>2. (world = call.world /\ Clean(Consumer)) \in BOOLEAN
      BY DEF Clean
  <2>3. ran \in Run
      BY <2>1, <2>2 DEF Run
  <2> QED  BY <2>3, ConstantsAssumption DEF Run
<1>5. e \in EvidenceSet
  <2>1. made \in Run \cup {None}
      BY <1>4
  <2>2. tools \in Number \cup {None}
      BY <1>3
  <2> HIDE DEF e, made, tools
  <2> QED  BY <1>1, <1>2, <1>3, <2>1, <2>2 DEF EvidenceSet
<1>6. IsEvidence(e)
  <2>1. Edges[Here] \in Verdicts(Edges)
    <3>1. DOMAIN Edges = 1..Len(Edges)
        BY <1>2, SelectedEdges
    <3> QED  BY <1>2, <3>1 DEF Verdicts
  <2>2. \E edges \in Selections : e.edge.edge \in Verdicts(edges)
      BY <1>1, <1>2, <2>1
  <2>3. verdict = "PASS" <=> made # None
      BY <1>4
  <2>4. tools \in Number \cup {None}
      BY <1>3
  <2> HIDE DEF e, made, tools
  <2> QED  BY <1>1, <1>2, <1>3, <2>2, <2>3, <2>4 DEF IsEvidence
<1>7. Honest(e)
  <2> SUFFICES ASSUME verdict = "PASS", world = call.world, Clean(Consumer)
               PROVE  /\ bound = RevisionOf(Consumer, world.tree[Consumer])
                      /\ call.producer = world.producer
                      /\ Edges[Here].runner = "mncs-test" => call.tools = world.tools
    <3>1. Consumer = e.edge.edge.consumer
        BY <1>1, <1>2 DEF Consumer
    <3>2. verdict = "PASS" => e.ran = ran
        BY <1>1
    <3>3. /\ ran.content = world.tree[Consumer] /\ ran.producer = world.producer
          /\ ran.tools = world.tools
          /\ ran.steady <=> world = call.world /\ Clean(Consumer)
        OBVIOUS
    <3>4. e.edge.edge = Edges[Here]
        BY <1>1, <1>2
    <3>5. Edges[Here].runner = "mncs-test" => e.tools = call.tools
        BY <1>1
    <3> HIDE DEF e, ran, tools, made
    <3> QED  BY <1>1, <3>1, <3>2, <3>3, <3>4, <3>5 DEF Honest
  <2>1. bound = RevisionIn(world, Consumer)
      BY DEF Read
  <2> QED  BY <1>2, <2>1 DEF Bind, RevisionIn, RevisionOf, Clean
<1>8. Fits(Here, e, call) /\ (world = call.world => Names(e, world))
  <2>1. Consumer = e.edge.edge.consumer
      BY <1>1, <1>2 DEF Consumer
  <2>2. e.edge = [edge |-> call.plan.edges[Here],
                  declaration |-> call.plan.graph[call.plan.edges[Here].consumer]]
      BY <1>1 DEF PlanEdge, Edges
  <2>3. e.edge.edge.runner = "mncs-test" => e.tools = call.tools
      BY <1>1, <1>2
  <2> HIDE DEF e
  <2> QED  BY <1>1, <2>1, <2>2, <2>3 DEF Fits, Names, Read
<1> QED
    BY <1>5, <1>6, <1>7, <1>8 DEF Good

\* What is found in a prior proof is good, if it is reusable.
LEMMA FoundIsGood ==
    ASSUME WorldInv, RecordsInv, CallInv, VisitInv, ProofsInv, pc = "decide",
           Reusable
    PROVE  Good(Found)
<1> DEFINE n == call.prior
           proof == proofs[n]
           own == RecordsOf(proof.records, Consumer)
<1>1. Busy /\ Read(revision.visited) /\ PlanEdge(Here).edge = Edges[Here]
    BY Visiting
<1>2. n \in DOMAIN proofs
    BY <1>1 DEF CallInv, ProofsInv, Reusable
<1>3. proof \in ProofSet /\ Composite(proof)
    BY <1>2 DEF ProofsInv
<1>4. proof.records \in Seq(RecordSet)
    BY <1>3 DEF ProofSet
<1>5. own # {} /\ own \subseteq DOMAIN proof.records /\ own \in SUBSET Nat
  <2>1. own # {}
      BY DEF Reusable, Prior
  <2>2. DOMAIN proof.records \in SUBSET Nat
      BY <1>4
  <2> QED  BY <2>1, <2>2 DEF RecordsOf
<1>6. Min(own) \in DOMAIN proof.records
    BY <1>5, LeastIsThere, SMTT(30)
<1>7. Found = proof.records[Min(own)].evidence
    BY <1>5 DEF Found, Prior
<1>8. Found \in EvidenceSet /\ IsEvidence(Found) /\ Honest(Found)
  <2>1. proof.records[Min(own)] \in RecordSet
      BY <1>4, <1>6
  <2> HIDE DEF own, proof
  <2> QED  BY <1>3, <1>6, <1>7, <2>1 DEF RecordSet, Composite
<1>9. Matches(Found)
    BY DEF Reusable, Found
<1>10. Fits(Here, Found, call)
    BY <1>9 DEF Matches, Fits, PlanEdge, Edges
<1>11. world = call.world => Names(Found, world)
    BY <1>1, <1>9 DEF Matches, Names, Read, Consumer
<1> QED
    BY <1>8, <1>10, <1>11 DEF Good

\* Recording good evidence keeps the invariant.
LEMMA RecordingIsKept ==
    ASSUME WorldInv, RecordsInv, CallInv, VisitInv, pc \in {"decide", "run"},
           NEW e, Good(e), NEW status \in {"generated", "reused"},
           Record(e, status), UNCHANGED <<surroundings, call, proofs>>
    PROVE  WorldInv' /\ RecordsInv' /\ CallInv' /\ VisitInv'
<1> DEFINE r == [evidence |-> e, status |-> status]
<1>1. /\ records' = Append(records, r) /\ files' = [files EXCEPT ![Consumer] = e]
      /\ pc' = "visit"
      /\ world' = world /\ graph' = graph /\ plan' = plan /\ moves' = moves
      /\ call' = call /\ proofs' = proofs
    BY DEF Record, surroundings
<1>2. r \in RecordSet /\ r.evidence = e
    BY DEF RecordSet, Good
<1>3. /\ records \in Seq(RecordSet) /\ Len(records) \in Nat
      /\ DOMAIN records = 1..Len(records)
    BY DEF RecordsInv
<1>4. /\ records' \in Seq(RecordSet) /\ Len(records') = Here
      /\ DOMAIN records' = 1..Here /\ records'[Here] = r
      /\ \A i \in DOMAIN records : records'[i] = records[i]
  <2> HIDE DEF r
  <2> QED  BY <1>1, <1>2, <1>3, AppendProperties DEF Here
<1>5. \A i \in DOMAIN records' : i \in DOMAIN records \/ i = Here
    BY <1>3, <1>4 DEF Here
<1>6. /\ Busy /\ Bind(call) /\ Edges \in Selections /\ Here \in 1..Len(Edges)
      /\ Consumer \in Consumers
    BY Visiting
<1>7. Consumer = e.edge.edge.consumer
    BY DEF Good, Fits, Consumer, Edges
<1>8. WorldInv'
    BY <1>1 DEF WorldInv
<1>9. RecordsInv'
  <2>1. ASSUME NEW i \in DOMAIN records'
        PROVE  IsEvidence(records'[i].evidence) /\ Honest(records'[i].evidence)
    <3>1. CASE i = Here
        BY <1>2, <1>4, <3>1 DEF Good
    <3>2. CASE i \in DOMAIN records
        BY <1>4, <3>2 DEF RecordsInv
    <3> QED  BY <1>5, <3>1, <3>2
  <2>2. files' \in [Consumers -> EvidenceSet \cup {None}]
      BY <1>1, <1>6 DEF RecordsInv, Good
  <2>3. ASSUME NEW c \in Consumers
        PROVE  files'[c] = IF RecordsOf(records', c) = {} THEN None
                           ELSE records'[Max(RecordsOf(records', c))].evidence
    <3>1. CASE c # Consumer
      <4>1. files'[c] = files[c]
          BY <1>1, <3>1 DEF RecordsInv
      <4>2. RecordsOf(records', c) = RecordsOf(records, c)
        <5>1. Here \notin RecordsOf(records', c)
            BY <1>2, <1>4, <1>7, <3>1 DEF RecordsOf
        <5>2. DOMAIN records \subseteq DOMAIN records'
            BY <1>3, <1>4 DEF Here
        <5> QED  BY <1>4, <1>5, <5>1, <5>2 DEF RecordsOf
      <4>3. CASE RecordsOf(records, c) = {}
          BY <4>1, <4>2, <4>3 DEF RecordsInv
      <4>4. CASE RecordsOf(records, c) # {}
        <5>1. Max(RecordsOf(records, c)) \in DOMAIN records
            BY <1>3, <4>4, GreatestIsThere DEF RecordsOf
        <5> QED  BY <1>4, <4>1, <4>2, <4>4, <5>1 DEF RecordsInv
      <4> QED  BY <4>3, <4>4
    <3>2. CASE c = Consumer
      <4>1. files'[c] = e
          BY <1>1, <1>6, <3>2 DEF RecordsInv
      <4>2. Here \in RecordsOf(records', c) /\ Here \in Nat
          BY <1>2, <1>3, <1>4, <1>7, <3>2 DEF RecordsOf, Here
      <4>3. RecordsOf(records', c) \in SUBSET Nat /\ \A i \in RecordsOf(records', c) : i <= Here
          BY <1>4, <4>2 DEF RecordsOf
      <4>4. Max(RecordsOf(records', c)) = Here
          BY <4>2, <4>3, LargestIsThere
      <4> QED  BY <1>2, <1>4, <4>1, <4>2, <4>4
    <3> QED  BY <3>1, <3>2
  <2> QED  BY <1>4, <2>1, <2>2, <2>3 DEF RecordsInv
<1>10. CallInv'
  <2>1. Busy'
      BY <1>1 DEF Busy
  <2>2. Len(records') <= Len(Edges)'
      BY <1>1, <1>4, <1>6 DEF Edges
  <2>3. ASSUME NEW i \in DOMAIN records'
        PROVE  /\ Fits(i, records'[i].evidence, call)
               /\ world = call.world => Names(records'[i].evidence, world)
    <3>1. CASE i = Here
        BY <1>2, <1>4, <3>1 DEF Good
    <3>2. CASE i \in DOMAIN records
        BY <1>4, <1>6, <3>2 DEF CallInv
    <3> QED  BY <1>5, <3>1, <3>2
  <2>4. Bind(call) /\ call.prior \in 0..Len(proofs) /\ Earlier(call.world, world)
      BY <1>6 DEF CallInv
  <2> QED  BY <1>1, <2>1, <2>2, <2>3, <2>4 DEF CallInv
<1>11. VisitInv'
    BY <1>1 DEF VisitInv
<1> QED
    BY <1>8, <1>9, <1>10, <1>11

-----------------------------------------------------------------------------
(* The steps around a call.                                                *)

\* A step that leaves the call alone and lets the world grow keeps what is
\* known of it: if the world is still that of the call, it has not changed.
LEMMA GrowingIsKept ==
    ASSUME WorldInv, WorldInv', RecordsInv, CallInv, VisitInv, ProofsInv,
           Earlier(world, world'),
           UNCHANGED <<call, pc, revision, records, files, proofs>>
    PROVE  RecordsInv' /\ CallInv' /\ VisitInv' /\ ProofsInv'
<1>1. world \in World /\ world' \in World
    BY WorldsAreWorlds DEF WorldInv
<1>2. RecordsInv'
    BY DEF RecordsInv
<1>3. ProofsInv'
    BY DEF ProofsInv
<1>4. Busy' <=> Busy
    BY DEF Busy
<1>5. Busy => /\ call.world \in World /\ Earlier(call.world, world')
              /\ world' = call.world => world' = world
  <2> SUFFICES ASSUME Busy
               PROVE  /\ call.world \in World /\ Earlier(call.world, world')
                      /\ world' = call.world => world' = world
      OBVIOUS
  <2>1. call.world \in World /\ Earlier(call.world, world)
      BY DEF CallInv, Bind, Call
  <2> QED  BY <1>1, <2>1, EarlierIsPartial
<1>6. CallInv'
    BY <1>4, <1>5 DEF CallInv, Edges
<1>7. VisitInv'
  <2>1. pc \in {"decide", "run"} => Busy
      BY DEF Busy
  <2>2. Here' = Here /\ Edges' = Edges /\ Consumer' = Consumer
      BY DEF Here, Edges, Consumer
  <2>3. ASSUME NEW r, Busy, Read(r)
        PROVE  Read(r)'
      BY <1>5, <2>2, <2>3 DEF Read
  <2> QED  BY <2>1, <2>2, <2>3 DEF VisitInv
<1> QED
    BY <1>2, <1>3, <1>6, <1>7

LEMMA MovesAreKept ==
    ASSUME WorldInv, RecordsInv, CallInv, VisitInv, ProofsInv,
           \/ \E c \in Consumers : EditSource(c) \/ EditDeclaration(c) \/ Commit(c)
           \/ MoveProducer \/ ReplaceTools \/ RegenerateGraph \/ Replan
    PROVE  WorldInv' /\ RecordsInv' /\ CallInv' /\ VisitInv' /\ ProofsInv'
<1> USE NumbersAreNumbers
<1>1. Move
    BY DEF EditSource, EditDeclaration, Commit, MoveProducer, ReplaceTools,
           RegenerateGraph, Replan
<1>2. /\ moves' = moves + 1 /\ moves \in Nat /\ moves' \in Number
      /\ UNCHANGED <<call, pc, revision, records, files, proofs>>
    BY <1>1, ConstantsAssumption DEF Move, WorldInv, Number
<1>3. world \in WorldUpTo(moves + 1) /\ world \in World
    BY <1>2, WorldsAreWorlds DEF WorldInv
<1>4. Earlier(world, world)
    BY <1>3, EarlierItself
<1>5. \A c \in Consumers : world.tree[c] \in UpTo(moves) /\ world.head[c] \in UpTo(moves)
    BY DEF WorldInv, WorldUpTo
<1>6. \A x \in UpTo(moves) :
          /\ x \in UpTo(moves + 1)
          /\ x.declaration \in 0..moves /\ x.source \in 0..moves
          /\ [x EXCEPT !.source = @ + 1] \in UpTo(moves + 1)
          /\ [x EXCEPT !.declaration = @ + 1] \in UpTo(moves + 1)
          /\ NotAfter(x, [x EXCEPT !.source = @ + 1])
          /\ NotAfter(x, [x EXCEPT !.declaration = @ + 1])
    BY <1>2 DEF UpTo, NotAfter
<1> DEFINE Grown == /\ \A c \in Consumers : NotAfter(world'.head[c], world'.tree[c])
                    /\ world' \in WorldUpTo(moves + 1) /\ Earlier(world, world')
                    /\ graph' \in Graph /\ plan' \in Plan
<1>7. Grown
  <2>1. ASSUME NEW c \in Consumers, NEW x \in UpTo(moves + 1), NotAfter(world.tree[c], x),
               world' = [world EXCEPT !.tree[c] = x], UNCHANGED <<graph, plan>>
        PROVE  Grown
    <3>1. \A d \in Consumers : NotAfter(world'.head[d], world'.tree[d])
      <4>1. \A d \in Consumers : world'.head[d] = world.head[d]
          BY <1>3, <2>1 DEF WorldUpTo
      <4>2. \A d \in Consumers : d # c => world'.tree[d] = world.tree[d]
          BY <1>3, <2>1 DEF WorldUpTo
      <4>3. NotAfter(world.head[c], x)
        <5>1. /\ world.head[c].declaration \in Nat /\ world.head[c].source \in Nat
              /\ world.tree[c].declaration \in Nat /\ world.tree[c].source \in Nat
              /\ x.declaration \in Nat /\ x.source \in Nat
            BY <1>5, <2>1 DEF UpTo
        <5>2. NotAfter(world.head[c], world.tree[c])
            BY DEF WorldInv
        <5> QED  BY <2>1, <5>1, <5>2 DEF NotAfter
      <4>4. world'.tree[c] = x
          BY <1>3, <2>1 DEF WorldUpTo
      <4> QED  BY <4>1, <4>2, <4>3, <4>4 DEF WorldInv
    <3> QED  BY <1>3, <1>4, <2>1, <3>1 DEF WorldUpTo, Earlier, WorldInv
  <2> HIDE DEF Grown
  <2>2. ASSUME NEW c \in Consumers, EditSource(c)
        PROVE  Grown
    <3> DEFINE x == [world.tree[c] EXCEPT !.source = @ + 1]
    <3>1. x \in UpTo(moves + 1) /\ NotAfter(world.tree[c], x)
        BY <1>5, <1>6
    <3>2. world' = [world EXCEPT !.tree[c] = x] /\ UNCHANGED <<graph, plan>>
        BY <2>2 DEF EditSource
    <3> HIDE DEF x
    <3> QED  BY <2>1, <3>1, <3>2
  <2>3. ASSUME NEW c \in Consumers, EditDeclaration(c)
        PROVE  Grown
    <3> DEFINE x == [world.tree[c] EXCEPT !.declaration = @ + 1]
    <3>1. x \in UpTo(moves + 1) /\ NotAfter(world.tree[c], x)
        BY <1>5, <1>6
    <3>2. world' = [world EXCEPT !.tree[c] = x] /\ UNCHANGED <<graph, plan>>
        BY <2>3 DEF EditDeclaration
    <3> HIDE DEF x
    <3> QED  BY <2>1, <3>1, <3>2
  <2>4. ASSUME NEW c \in Consumers, Commit(c)
        PROVE  Grown
    <3>1. world' = [world EXCEPT !.head[c] = world.tree[c]] /\ UNCHANGED <<graph, plan>>
        BY <2>4 DEF Commit
    <3>2. /\ world'.tree = world.tree /\ world'.head = [world.head EXCEPT ![c] = world.tree[c]]
          /\ world'.producer = world.producer /\ world'.tools = world.tools
        BY <1>3, <3>1 DEF WorldUpTo
    <3>3. world' \in WorldUpTo(moves + 1)
        BY <1>3, <3>1 DEF WorldUpTo
    <3>4. \A d \in Consumers : NotAfter(world.head[d], world'.head[d])
        BY <1>3, <1>4, <3>2 DEF WorldUpTo, Earlier, WorldInv
    <3>5. \A d \in Consumers : NotAfter(world'.head[d], world'.tree[d])
        BY <1>3, <1>4, <3>2 DEF WorldUpTo, Earlier, WorldInv
    <3> QED  BY <1>4, <3>1, <3>2, <3>3, <3>4, <3>5 DEF Grown, Earlier, WorldInv
  <2>5. ASSUME MoveProducer \/ ReplaceTools
        PROVE  Grown
    <3>1. CASE MoveProducer
      <4>1. world.producer \in 0..moves /\ world.producer + 1 \in 0..moves + 1
          BY <1>2 DEF WorldInv, WorldUpTo
      <4>2. world' = [world EXCEPT !.producer = @ + 1] /\ UNCHANGED <<graph, plan>>
          BY <3>1 DEF MoveProducer
      <4> QED  BY <1>2, <1>3, <1>4, <4>1, <4>2, NumbersAreNumbers DEF Grown, WorldUpTo, World, Earlier, WorldInv
    <3>2. CASE ReplaceTools
      <4>1. world.tools \in 0..moves /\ world.tools + 1 \in 0..moves + 1
          BY <1>2 DEF WorldInv, WorldUpTo
      <4>2. world' = [world EXCEPT !.tools = @ + 1] /\ UNCHANGED <<graph, plan>>
          BY <3>2 DEF ReplaceTools
      <4> QED  BY <1>2, <1>3, <1>4, <4>1, <4>2, NumbersAreNumbers DEF Grown, WorldUpTo, World, Earlier, WorldInv
    <3> QED  BY <2>5, <3>1, <3>2
  <2>6. ASSUME RegenerateGraph
        PROVE  Grown
    <3>1. Declared \in Graph
        BY <1>3 DEF Declared, Graph, World, Content
    <3> QED  BY <1>3, <1>4, <2>6, <3>1 DEF Grown, RegenerateGraph, WorldInv
  <2>7. ASSUME Replan
        PROVE  Grown
    <3>1. world.producer \in Number
        BY <1>3 DEF World
    <3> QED  BY <1>3, <1>4, <2>7, <3>1 DEF Grown, Replan, WorldInv, Plan
  <2> QED  BY <2>2, <2>3, <2>4, <2>5, <2>6, <2>7
<1>8. WorldInv'
    BY <1>2, <1>7 DEF WorldInv
<1> QED
    BY <1>2, <1>7, <1>8, GrowingIsKept

-----------------------------------------------------------------------------
(* The steps of a call.                                                    *)

LEMMA InitHolds == Init => IInv
<1> SUFFICES ASSUME Init PROVE IInv
    OBVIOUS
<1> DEFINE zero == [c \in Consumers |-> [declaration |-> 0, source |-> 0]]
<1>1. 0 \in Number /\ 0..0 = {0} /\ Declared = [c \in Consumers |-> 0]
    BY ConstantsAssumption DEF Number, Declared, Init
<1>2. WorldInv
  <2>1. world \in WorldUpTo(0)
      BY <1>1 DEF Init, WorldUpTo, UpTo
  <2>2. \A c \in Consumers : NotAfter(world.head[c], world.tree[c])
      BY DEF Init, NotAfter
  <2>3. graph \in Graph
      BY <1>1 DEF Init, Graph
  <2>4. plan \in Plan
      BY <1>1, <2>3 DEF Init, Plan
  <2> QED  BY <1>1, <2>1, <2>2, <2>3, <2>4 DEF WorldInv, Init
<1>3. RecordsInv
    BY DEF Init, RecordsInv, RecordsOf
<1>4. CallInv /\ VisitInv /\ ProofsInv
    BY DEF Init, CallInv, VisitInv, ProofsInv, Busy
<1> QED
    BY <1>2, <1>3, <1>4 DEF IInv

LEMMA BeginIsKept ==
    ASSUME IInv, NEW native \in BOOLEAN, NEW prior \in 0..Len(proofs),
           Begin(native, prior)
    PROVE  IInv'
<1>1. world \in World /\ plan \in Plan /\ world.producer \in Number /\ world.tools \in Number
    BY WorldsAreWorlds DEF IInv, WorldInv, World
<1>2. Len(proofs) \in Nat
    BY DEF IInv, ProofsInv
<1>3. call' \in Call /\ Bind(call')
    BY <1>1, <1>2 DEF Begin, Call, Bind, ProducerBinding, RuntimeBindings
<1>4. /\ call'.prior = prior /\ call'.world = world /\ call'.plan = plan
      /\ records = << >> /\ pc' = "visit"
      /\ UNCHANGED <<world, graph, plan, moves, revision, records, files, proofs>>
    BY DEF Begin, surroundings, IInv, CallInv
<1>5. WorldInv' /\ RecordsInv' /\ ProofsInv'
    BY <1>4 DEF IInv, WorldInv, RecordsInv, ProofsInv
<1>6. CallInv'
  <2>1. Len(records') <= Len(Edges)'
    <3>1. plan.edges \in Selections
        BY <1>1 DEF Plan
    <3> QED  BY <1>4, <3>1, SelectedEdges DEF Edges
  <2> QED  BY <1>1, <1>3, <1>4, <2>1, EarlierItself DEF CallInv, Busy
<1> QED
    BY <1>4, <1>5, <1>6 DEF IInv, VisitInv

LEMMA RevisionsAreRevisions ==
    ASSUME WorldInv, NEW c \in Consumers
    PROVE  /\ RepositoryRevision(c) = RevisionIn(world, c)
           /\ RepositoryRevision(c) \in Revision
<1>1. world.head[c] \in Content /\ world.tree[c] \in Content
    BY WorldsAreWorlds DEF WorldInv, World
<1> QED
    BY <1>1 DEF RepositoryRevision, RevisionIn, Revision, Content

LEMMA VisitIsKept ==
    ASSUME IInv, Visit
    PROVE  IInv'
<1>1. /\ revision' = [visited |-> RepositoryRevision(Consumer), checked |-> None]
      /\ pc = "visit" /\ pc' = "decide" /\ Here <= Len(Edges)
      /\ UNCHANGED <<world, graph, plan, moves, call, records, files, proofs>>
    BY DEF Visit, surroundings
<1>2. Here' = Here /\ Edges' = Edges /\ Consumer' = Consumer
    BY <1>1 DEF Here, Edges, Consumer
<1>3. Consumer \in Consumers
  <2>1. call \in Call
      BY <1>1 DEF IInv, CallInv, Busy, Bind
  <2>2. Edges \in Selections
      BY <2>1 DEF Call, Plan, Edges
  <2>3. Here \in 1..Len(Edges)
    <3>1. Len(records) \in Nat
        BY DEF IInv, RecordsInv
    <3> QED  BY <1>1, <2>2, <3>1, SelectedEdges DEF Here
  <2> QED  BY <2>2, <2>3, SelectedEdges DEF Consumer, SelectedEdge
<1>4. VisitInv'
  <2>1. RepositoryRevision(Consumer) \in Revision
        /\ RepositoryRevision(Consumer) = RevisionIn(world, Consumer)
      BY <1>3, RevisionsAreRevisions DEF IInv
  <2> QED  BY <1>1, <1>2, <2>1 DEF VisitInv, Read
<1>5. CallInv'
    BY <1>1, <1>2 DEF IInv, CallInv, Busy
<1>6. WorldInv' /\ RecordsInv' /\ ProofsInv'
    BY <1>1 DEF IInv, WorldInv, RecordsInv, ProofsInv
<1> QED
    BY <1>4, <1>5, <1>6 DEF IInv

\* A step that only records keeps the invariant; so does one that starts a
\* check, and one that a check ends with.
LEMMA CheckingIsKept ==
    ASSUME IInv, Reuse \/ StartCheck \/ RunBatches \/ RunOracle \/ RunFails
    PROVE  IInv'
<1> USE DEF IInv
<1>1. ASSUME NEW e, NEW status \in {"generated", "reused"}, Good(e), Record(e, status),
             pc \in {"decide", "run"}, UNCHANGED <<surroundings, call, proofs>>
      PROVE  IInv'
    BY <1>1, RecordingIsKept DEF ProofsInv
<1>2. << >> \in Seq(Verdict) /\ {"PASS", "FAIL", "UNKNOWN"} = Verdict
    BY DEF Verdict
<1>3. ASSUME Reuse PROVE IInv'
    BY <1>1, <1>3, FoundIsGood DEF Reuse
<1>4. ASSUME StartCheck PROVE IInv'
  <2> DEFINE now == RepositoryRevision(Consumer)
  <2>1. pc = "decide" /\ UNCHANGED <<surroundings, call, proofs>>
      BY <1>4 DEF StartCheck
  <2>2. Consumer \in Consumers /\ Busy /\ Here <= Len(Edges) /\ Read(revision.visited)
      BY <2>1, Visiting DEF VisitInv
  <2>3. Read(now)
      BY <2>2, RevisionsAreRevisions DEF Read
  <2>4. CASE world.tree[Consumer].declaration # PlanEdge(Here).declaration
    <3> DEFINE verdict == IF Edges[Here].runner = "mncs-test" THEN "UNKNOWN" ELSE "FAIL"
    <3>1. Record(Evidence(verdict, << >>, revision.visited), "generated")
        BY <1>4, <2>4 DEF StartCheck
    <3>2. verdict \in Verdict
        BY <1>2
    <3>3. Good(Evidence(verdict, << >>, revision.visited))
        BY <1>2, <2>1, <2>2, <3>2, EvidenceIsGood
    <3> HIDE DEF verdict
    <3> QED  BY <1>1, <2>1, <3>1, <3>3
  <2>5. CASE /\ world.tree[Consumer].declaration = PlanEdge(Here).declaration
             /\ Edges[Here].runner = "declaration"
    <3>1. revision' = [revision EXCEPT !.checked = now]
        BY <1>4, <2>5 DEF StartCheck
    <3>2. revision'.checked = now
        BY <2>1, <3>1 DEF VisitInv
    <3>3. Record(Evidence("PASS", << >>, revision'.checked), "generated")
        BY <1>4, <2>5 DEF StartCheck
    <3>4. Good(Evidence("PASS", << >>, now))
        BY <1>2, <2>1, <2>3, EvidenceIsGood
    <3> HIDE DEF now
    <3> QED  BY <1>1, <2>1, <3>2, <3>3, <3>4
  <2>6. CASE /\ world.tree[Consumer].declaration = PlanEdge(Here).declaration
             /\ Edges[Here].runner # "declaration"
    <3>1. /\ revision' = [revision EXCEPT !.checked = now] /\ pc' = "run"
          /\ UNCHANGED <<world, graph, plan, moves, call, proofs, records, files>>
        BY <1>4, <2>1, <2>6 DEF StartCheck, surroundings
    <3>2. revision' = [visited |-> revision.visited, checked |-> now]
        BY <2>1, <3>1 DEF VisitInv
    <3>3. Here' = Here /\ Edges' = Edges /\ Consumer' = Consumer
        BY <3>1 DEF Here, Edges, Consumer
    <3>4. VisitInv'
      <4> HIDE DEF now
      <4> QED  BY <2>2, <2>3, <3>1, <3>2, <3>3 DEF VisitInv, Read
    <3>5. CallInv'
        BY <2>2, <3>1, <3>3 DEF CallInv, Busy
    <3>6. WorldInv' /\ RecordsInv' /\ ProofsInv'
        BY <3>1 DEF WorldInv, RecordsInv, ProofsInv
    <3> QED  BY <3>4, <3>5, <3>6
  <2> QED  BY <2>4, <2>5, <2>6
<1>5. ASSUME RunBatches PROVE IInv'
  <2>1. PICK results \in [1..Edges[Here].batches -> Verdict] :
            Record(Evidence(Dominant(Verdicts(results)), results, revision.checked), "generated")
      BY <1>5 DEF RunBatches
  <2>2. pc = "run" /\ UNCHANGED <<surroundings, call, proofs>>
      BY <1>5 DEF RunBatches
  <2>3. Read(revision.checked) /\ Edges[Here].batches \in Nat
      BY <2>2, Visiting DEF SelectedEdge
  <2>4. results \in Seq(Verdict) /\ DOMAIN results = 1..Edges[Here].batches
      BY <2>3
  <2>5. Dominant(Verdicts(results)) \in Verdict
      BY DominantVerdict
  <2>6. Good(Evidence(Dominant(Verdicts(results)), results, revision.checked))
      BY <2>2, <2>3, <2>4, <2>5, EvidenceIsGood
  <2> QED  BY <1>1, <2>1, <2>2, <2>6
<1>6. ASSUME RunOracle PROVE IInv'
  <2>1. PICK verdict \in Verdict :
            Record(Evidence(verdict, << >>, revision.checked), "generated")
      BY <1>6 DEF RunOracle
  <2>2. pc = "run" /\ UNCHANGED <<surroundings, call, proofs>>
      BY <1>6 DEF RunOracle
  <2>3. Good(Evidence(verdict, << >>, revision.checked))
      BY <1>2, <2>2, Visiting, EvidenceIsGood
  <2> QED  BY <1>1, <2>1, <2>2, <2>3
<1>7. ASSUME RunFails PROVE IInv'
  <2>1. /\ Record(Evidence("UNKNOWN", << >>, revision.visited), "generated")
        /\ pc = "run" /\ UNCHANGED <<surroundings, call, proofs>>
      BY <1>7 DEF RunFails
  <2>2. Good(Evidence("UNKNOWN", << >>, revision.visited))
      BY <1>2, <2>1, Visiting, EvidenceIsGood
  <2> QED  BY <1>1, <2>1, <2>2
<1> QED
    BY <1>3, <1>4, <1>5, <1>6, <1>7

\* What is recorded is evidence, with a status.
LEMMA RecordsAreRecords ==
    ASSUME RecordsInv, NEW i \in DOMAIN records
    PROVE  /\ records[i].evidence \in EvidenceSet
           /\ records[i].status \in {"generated", "reused"}
           /\ records[i].evidence.verdict \in Verdict
           /\ records[i].evidence.native \in Seq(Verdict)
           /\ records[i].evidence.edge.edge \in SelectedEdge
<1>1. records[i] \in RecordSet
    BY ElementOfSeq, LenProperties DEF RecordsInv
<1>2. records[i].evidence \in EvidenceSet /\ records[i].status \in {"generated", "reused"}
    BY <1>1 DEF RecordSet
<1> QED
    BY <1>2 DEF EvidenceSet

\* A call that is over leaves its proof, or nothing.
LEMMA EndIsKept ==
    ASSUME IInv, NEW how \in {"idle", "died"}, Over(how), UNCHANGED surroundings,
           ProofsInv'
    PROVE  IInv'
<1>1. /\ pc' = how /\ call' = None /\ records' = << >>
      /\ files' = [c \in Consumers |-> None]
      /\ UNCHANGED <<world, graph, plan, moves>>
    BY DEF Over, surroundings
<1>2. WorldInv'
    BY <1>1 DEF IInv, WorldInv
<1>3. RecordsInv'
    BY <1>1 DEF RecordsInv, RecordsOf
<1>4. CallInv' /\ VisitInv'
    BY <1>1 DEF CallInv, VisitInv, Busy
<1> QED
    BY <1>2, <1>3, <1>4 DEF IInv

\* A traversal that passes saw one native PASS of every consumer.
LEMMA TraversalIsEarned ==
    ASSUME IInv, Busy, Traversal = "PASS", Len(records) = Len(Edges),
           \A i \in DOMAIN records : records[i].evidence.native # << >>
    PROVE  \A i \in DOMAIN records :
               /\ records[i].evidence.verdict = "PASS"
               /\ records[i].evidence.native = <<"PASS">>
<1> DEFINE T == [edge : SelectedEdge, verdict : Verdict]
           native(i) == records[i].evidence.native
           part(i) == [j \in DOMAIN native(i) |->
                          [edge |-> records[i].evidence.edge.edge, verdict |-> native(i)[j]]]
           parts == [i \in DOMAIN records |-> part(i)]
<1>1. /\ records \in Seq(RecordSet) /\ Len(records) \in Nat
      /\ DOMAIN records = 1..Len(records)
    BY DEF IInv, RecordsInv
<1>2. ASSUME NEW i \in DOMAIN records
      PROVE  /\ native(i) \in Seq(Verdict) /\ Len(native(i)) \in Nat \ {0}
             /\ DOMAIN native(i) = 1..Len(native(i))
             /\ records[i].evidence.edge.edge \in SelectedEdge
  <2>1. native(i) \in Seq(Verdict) /\ native(i) # << >>
      BY RecordsAreRecords DEF IInv
  <2>2. records[i].evidence.edge.edge \in SelectedEdge
      BY RecordsAreRecords DEF IInv
  <2> HIDE DEF native
  <2> QED  BY <2>1, <2>2, EmptySeq, LenProperties
<1>3. ASSUME NEW i \in DOMAIN records
      PROVE  part(i) \in Seq(T) /\ Len(part(i)) = Len(native(i))
  <2> DEFINE observed(j) == [edge |-> records[i].evidence.edge.edge, verdict |-> native(i)[j]]
             n == Len(native(i))
  <2>1. n \in Nat /\ DOMAIN native(i) = 1..n
      BY <1>2
  <2>2. \A j \in 1..n : native(i)[j] \in Verdict
    <3> HIDE DEF native
    <3> QED  BY <1>2, ElementOfSeq
  <2>3. \A j \in 1..n : observed(j) \in T
    <3> HIDE DEF native, n
    <3> QED  BY <1>2, <2>2
  <2>4. part(i) = [j \in 1..n |-> observed(j)]
    <3> HIDE DEF native, n
    <3> QED  BY <2>1
  <2>5. [j \in 1..n |-> observed(j)] \in Seq(T)
    <3> HIDE DEF T, observed, n
    <3> QED  BY <2>1, <2>3, IsASeq
  <2>6. DOMAIN part(i) = 1..n
    <3> HIDE DEF observed, n, part
    <3> QED  BY <2>4
  <2> HIDE DEF T, observed, n, part
  <2> QED  BY <2>1, <2>4, <2>5, <2>6, LenProperties DEF n
<1>4. parts \in Seq(Seq(T)) /\ Len(parts) = Len(records) /\ DOMAIN parts = DOMAIN records
  <2> HIDE DEF part, T
  <2> QED  BY <1>1, <1>3
<1>5. Observations = FlattenSeq(parts)
    BY DEF Observations
<1>6. /\ Len(Observations) = Len(Edges)
      /\ Dominant({Observations[i].verdict : i \in DOMAIN Observations}) = "PASS"
    BY DEF Traversal
<1>7. /\ Observations \in Seq(T)
      /\ \A i \in DOMAIN records :
            Len(part(i)) = 1 /\ Observations[i] = part(i)[1]
  <2>1. \A i \in DOMAIN parts : parts[i] = part(i) /\ Len(parts[i]) >= 1
      BY <1>2, <1>3, <1>4
  <2> HIDE DEF parts, part, T, native
  <2> QED  BY <1>4, <1>5, <1>6, <2>1, Singles
<1>8. \A i \in DOMAIN Observations : Observations[i].verdict = "PASS"
  <2>1. \A i \in DOMAIN Observations : Observations[i] \in T
    <3> HIDE DEF T
    <3> QED  BY <1>7, ElementOfSeq, LenProperties
  <2>2. {Observations[i].verdict : i \in DOMAIN Observations} \subseteq Verdict
      BY <2>1
  <2> QED  BY <1>6, <2>2, DominantVerdict
<1>9. ASSUME NEW i \in DOMAIN records
      PROVE  records[i].evidence.verdict = "PASS" /\ native(i) = <<"PASS">>
  <2>1. i \in DOMAIN Observations /\ Len(native(i)) = 1
    <3>1. DOMAIN Observations = 1..Len(Observations)
      <4> HIDE DEF T
      <4> QED  BY <1>7, LenProperties
    <3> HIDE DEF part, native
    <3> QED  BY <1>1, <1>3, <1>6, <1>7, <3>1
  <2>2. native(i)[1] = "PASS"
    <3>1. Observations[i] = part(i)[1] /\ 1 \in DOMAIN native(i)
        BY <1>2, <1>7, <2>1
    <3>2. part(i)[1].verdict = native(i)[1]
        BY <3>1
    <3> QED  BY <1>8, <2>1, <3>1, <3>2
  <2>3. native(i) = <<"PASS">>
      BY <1>2, <2>1, <2>2
  <2>4. records[i].evidence.verdict = Dominant(Verdicts(<<"PASS">>))
      BY <2>3 DEF IInv, RecordsInv, IsEvidence
  <2>5. Verdicts(<<"PASS">>) = {"PASS"}
      BY DEF Verdicts
  <2> QED  BY <2>3, <2>4, <2>5 DEF Dominant
<1> QED
    BY <1>9

LEMMA FinishIsKept ==
    ASSUME IInv, Finish
    PROVE  IInv'
<1> USE DEF IInv
<1> DEFINE p == [status |-> Status, plan |-> call.plan, records |-> records,
                 files |-> files, call |-> call, steady |-> world = call.world]
<1>1. /\ Busy /\ Here > Len(Edges) /\ MayReduce
      /\ proofs' = Append(proofs, p) /\ Over("idle") /\ UNCHANGED surroundings
    BY DEF Finish, Busy
<1>2. /\ Bind(call) /\ call \in Call /\ call.plan \in Plan /\ Edges \in Selections
      /\ call.native \in BOOLEAN
    BY <1>1 DEF CallInv, Bind, Call, Plan, Edges
<1>3. /\ records \in Seq(RecordSet) /\ Len(records) = Len(Edges)
  <2>1. records \in Seq(RecordSet) /\ Len(records) \in Nat /\ Len(records) <= Len(Edges)
      BY <1>1 DEF RecordsInv, CallInv
  <2> QED  BY <1>1, <1>2, <2>1, SelectedEdges DEF Here
<1>4. Status \in Verdict
    BY DominantVerdict DEF Status, Traversal, Verdict
<1>5. p \in ProofSet
  <2>1. files \in [Consumers -> EvidenceSet \cup {None}]
      BY DEF RecordsInv
  <2> QED  BY <1>2, <1>3, <1>4, <2>1 DEF ProofSet
<1>6. Earned(p)
  <2> SUFFICES ASSUME Status = "PASS"
               PROVE  \A i \in DOMAIN records :
                          /\ records[i].evidence.verdict = "PASS"
                          /\ call.native => records[i].evidence.native = <<"PASS">>
      BY <1>3 DEF Earned, Edges
  <2>1. CASE call.native
    <3>1. Traversal = "PASS" /\ \A i \in DOMAIN records : records[i].evidence.native # << >>
        BY <1>1, <2>1 DEF Status, MayReduce
    <3> QED  BY <1>1, <1>3, <3>1, TraversalIsEarned
  <2>2. CASE ~call.native
    <3>1. Dominant(RecordVerdicts) = "PASS"
        BY <2>2 DEF Status
    <3>2. RecordVerdicts \subseteq Verdict
      <4>1. \A i \in DOMAIN records : records[i].evidence.verdict \in Verdict
          BY RecordsAreRecords
      <4> QED  BY <4>1 DEF RecordVerdicts
    <3> QED  BY <2>2, <3>1, <3>2, DominantVerdict DEF RecordVerdicts
  <2> QED  BY <2>1, <2>2
<1>7. Composite(p)
    BY <1>1, <1>2, <1>6 DEF Composite, CallInv, RecordsInv
<1>8. ProofsInv'
  <2>1. proofs \in Seq(ProofSet) /\ DOMAIN proofs = 1..Len(proofs) /\ Len(proofs) \in Nat
      BY DEF ProofsInv
  <2>2. /\ proofs' \in Seq(ProofSet) /\ DOMAIN proofs' = 1..Len(proofs) + 1
        /\ proofs'[Len(proofs) + 1] = p
        /\ \A n \in 1..Len(proofs) : proofs'[n] = proofs[n]
    <3> HIDE DEF p
    <3> QED  BY <1>1, <1>5, <2>1, AppendProperties
  <2>3. ASSUME NEW n \in DOMAIN proofs'
        PROVE  Composite(proofs'[n])
    <3>1. n \in DOMAIN proofs \/ n = Len(proofs) + 1
        BY <2>1, <2>2
    <3> HIDE DEF p
    <3> QED  BY <1>7, <2>1, <2>2, <3>1 DEF ProofsInv
  <2> QED  BY <2>2, <2>3 DEF ProofsInv
<1> QED
    BY <1>1, <1>8, EndIsKept

-----------------------------------------------------------------------------
(* The theorems.                                                           *)

LEMMA Inductive == IInv /\ [Next]_vars => IInv'
<1> SUFFICES ASSUME IInv, [Next]_vars
             PROVE  IInv'
    OBVIOUS
<1>1. ASSUME NEW native \in BOOLEAN, NEW prior \in 0..Len(proofs), Begin(native, prior)
      PROVE  IInv'
    BY <1>1, BeginIsKept
<1>2. ASSUME Visit PROVE IInv'
    BY <1>2, VisitIsKept
<1>3. ASSUME Reuse \/ StartCheck \/ RunBatches \/ RunOracle \/ RunFails PROVE IInv'
    BY <1>3, CheckingIsKept
<1>4. ASSUME Finish PROVE IInv'
    BY <1>4, FinishIsKept
<1>5. ASSUME Refuse \/ Die \/ Abandon PROVE IInv'
  <2>1. PICK how \in {"idle", "died"} : End(how)
      BY <1>5 DEF Refuse, Die, Abandon
  <2>2. Over(how) /\ UNCHANGED surroundings /\ UNCHANGED proofs
      BY <2>1 DEF End, surroundings
  <2>3. ProofsInv'
      BY <2>2 DEF IInv, ProofsInv
  <2> QED  BY <2>2, <2>3, EndIsKept
<1>6. ASSUME \/ \E c \in Consumers : EditSource(c) \/ EditDeclaration(c) \/ Commit(c)
             \/ MoveProducer \/ ReplaceTools \/ RegenerateGraph \/ Replan
      PROVE  IInv'
    BY <1>6, MovesAreKept DEF IInv
<1>7. ASSUME UNCHANGED vars PROVE IInv'
  <2>1. UNCHANGED <<world, graph, plan, moves, call, pc, revision, records, files, proofs>>
      BY <1>7 DEF vars
  <2>2. WorldInv'
      BY <2>1 DEF IInv, WorldInv
  <2>3. Earlier(world, world')
      BY <2>1, EarlierItself, WorldsAreWorlds DEF IInv, WorldInv
  <2> QED  BY <2>1, <2>2, <2>3, GrowingIsKept DEF IInv
<1> QED
    BY <1>1, <1>2, <1>3, <1>4, <1>5, <1>6, <1>7 DEF Next

\* The inductive invariant holds for any consumers and selections, any number
\* of calls and of changes around them (build_selective_proof).
THEOREM InvariantHolds == Spec => []IInv
<1>1. Init => IInv
    BY InitHolds
<1>2. IInv /\ [Next]_vars => IInv'
    BY Inductive
<1> QED
    BY <1>1, <1>2, PTL DEF Spec

\* Every document is of its kind, and what a consumer's directory holds is the
\* evidence that its last record names (_write_consumer_evidence).
THEOREM TypeCorrect == Spec => []TypeOK
<1>1. IInv => TypeOK
  <2> SUFFICES ASSUME IInv PROVE TypeOK
      OBVIOUS
  <2>1. world \in World /\ graph \in Graph /\ plan \in Plan /\ moves \in Number
      BY WorldsAreWorlds DEF IInv, WorldInv
  <2>2. pc \in {"idle", "visit", "decide", "run", "died"}
      BY DEF IInv, WorldInv
  <2>3. ~Busy <=> call = None
      BY ConstantsAssumption DEF IInv, CallInv, Bind
  <2>4. Busy => /\ call.plan \in Plan /\ call.prior \in 0..Len(proofs)
                /\ Len(records) <= Len(Edges)
      BY DEF IInv, CallInv, Bind, Call
  <2>5. \A i \in DOMAIN records : /\ IsEvidence(records[i].evidence)
                                  /\ records[i].status \in {"generated", "reused"}
      BY RecordsAreRecords DEF IInv, RecordsInv
  <2> QED  BY <2>1, <2>2, <2>3, <2>4, <2>5 DEF TypeOK, IInv, RecordsInv
<1> QED
    BY <1>1, InvariantHolds, PTL

\* A composite PASS is a PASS of every edge its plan selects, under that plan,
\* at the producer its call bound and, where tests were run, with the tools it
\* bound (build_selective_proof, family_traverse).
THEOREM PassesAreEarned == Spec => []PassIsEarned
<1>1. IInv => PassIsEarned
  <2> SUFFICES ASSUME IInv, NEW n \in DOMAIN proofs, proofs[n].status = "PASS"
               PROVE  /\ Len(proofs[n].records) = Len(proofs[n].plan.edges)
                      /\ \A i \in DOMAIN proofs[n].records :
                            LET p == proofs[n]
                                e == p.records[i].evidence IN
                            /\ e.verdict = "PASS"
                            /\ e.edge.edge = p.plan.edges[i]
                            /\ e.edge.declaration = p.plan.graph[e.edge.edge.consumer]
                            /\ e.producer = p.call.producer
                            /\ e.edge.edge.runner = "mncs-test"
                                    => e.tools = p.call.tools
                            /\ p.call.native => e.native = <<"PASS">>
      BY DEF PassIsEarned
  <2> DEFINE p == proofs[n]
  <2>1. Composite(p) /\ p.plan = p.call.plan /\ p.status = "PASS"
      BY DEF IInv, ProofsInv, Composite
  <2>2. Len(p.records) = Len(p.plan.edges)
      BY <2>1 DEF Composite, Earned
  <2>3. ASSUME NEW i \in DOMAIN p.records
        PROVE  LET e == p.records[i].evidence IN
               /\ e.verdict = "PASS"
               /\ e.edge.edge = p.plan.edges[i]
               /\ e.edge.declaration = p.plan.graph[e.edge.edge.consumer]
               /\ e.producer = p.call.producer
               /\ e.edge.edge.runner = "mncs-test" => e.tools = p.call.tools
               /\ p.call.native => e.native = <<"PASS">>
    <3> DEFINE e == p.records[i].evidence
    <3>1. Fits(i, e, p.call)
        BY <2>1 DEF Composite
    <3>2. e.verdict = "PASS" /\ (p.call.native => e.native = <<"PASS">>)
        BY <2>1 DEF Composite, Earned
    <3> HIDE DEF p, e
    <3>3. /\ e.edge = [edge |-> p.plan.edges[i],
                       declaration |-> p.plan.graph[p.plan.edges[i].consumer]]
          /\ e.producer = p.call.producer
          /\ e.edge.edge.runner = "mncs-test" => e.tools = p.call.tools
        BY <2>1, <3>1 DEF Fits
    <3>4. e.edge.edge = p.plan.edges[i] /\ e.edge.declaration = p.plan.graph[e.edge.edge.consumer]
        BY <3>3
    <3> QED  BY <3>2, <3>3, <3>4 DEF e
  <2> QED  BY <2>2, <2>3
<1> QED
    BY <1>1, InvariantHolds, PTL

\* Evidence that is generated or reused in an undisturbed call is what a check
\* would establish then, however many proofs it came through (_reuse_consumer).
THEOREM ReuseStaysCurrent == Spec => []ReuseIsCurrent
<1>1. IInv => ReuseIsCurrent
  <2> SUFFICES ASSUME IInv, NEW n \in DOMAIN proofs, NEW i \in DOMAIN proofs[n].records,
                      proofs[n].records[i].evidence.verdict = "PASS",
                      proofs[n].steady, proofs[n].records[i].evidence.ran.steady,
                      LET now == proofs[n].call.world
                          c == proofs[n].records[i].evidence.edge.edge.consumer
                      IN  c \in Tracked => now.tree[c] = now.head[c]
               PROVE  LET now == proofs[n].call.world
                          e == proofs[n].records[i].evidence
                          c == e.edge.edge.consumer
                      IN  /\ Bound(c, e.ran.content) = Bound(c, now.tree[c])
                          /\ e.ran.producer = now.producer
                          /\ e.edge.edge.runner = "mncs-test" => e.ran.tools = now.tools
      BY DEF ReuseIsCurrent
  <2> DEFINE p == proofs[n]
             now == p.call.world
             e == p.records[i].evidence
             c == e.edge.edge.consumer
  <2>1. Composite(p)
      BY DEF IInv, ProofsInv
  <2>2. Bind(p.call) /\ Honest(e) /\ Fits(i, e, p.call) /\ Names(e, now)
      BY <2>1 DEF Composite
  <2>3. e.revision = RevisionOf(c, e.ran.content) /\ e.revision = RevisionIn(now, c)
      BY <2>2 DEF Honest, Names
  <2>4. Bound(c, e.ran.content) = Bound(c, now.tree[c])
    <3>1. CASE c \in Tracked
        BY <2>3, <3>1 DEF RevisionOf, RevisionIn, Bound
    <3>2. CASE c \notin Tracked
      <4>1. [declaration |-> e.ran.content.declaration, source |-> None]
              = [declaration |-> now.tree[c].declaration, source |-> None]
          BY <2>3, <3>2 DEF RevisionOf, RevisionIn
      <4>2. e.ran.content.declaration = now.tree[c].declaration
          BY <4>1
      <4> QED  BY <3>2, <4>2 DEF Bound
    <3> QED  BY <3>1, <3>2
  <2>5. e.ran.producer = now.producer
      BY <2>2 DEF Honest, Fits, Bind
  <2>6. e.edge.edge.runner = "mncs-test" => e.ran.tools = now.tools
      BY <2>2 DEF Honest, Fits, Bind
  <2> QED  BY <2>4, <2>5, <2>6
<1> QED
    BY <1>1, InvariantHolds, PTL
=============================================================================
