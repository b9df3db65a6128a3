------------------------ MODULE DispatchLedgerProofs ------------------------
(***************************************************************************)
(* Proofs about DispatchLedger, for any set of sessions, any TTL longer    *)
(* than one invocation and any number of calls.                            *)
(***************************************************************************)
EXTENDS DispatchLedger, TLAPS

(***************************************************************************)
(* Type correctness.                                                       *)
(***************************************************************************)

\* Every step keeps every variable in its type.
LEMMA TypeStep ==
    ASSUME TypeOK, [Next]_vars
    PROVE  TypeOK'
<1> USE LedgerAssumption DEF TypeOK, Labels, Breaches, LedgerFiles,
        Unreadable, Entry, RunRecords, OtherRecords, RunIds, NoRun, Goto, Answer
<1>1. ASSUME NEW s \in Sessions, Begin(s) PROVE TypeOK'
  BY <1>1 DEF Begin
<1>2. ASSUME NEW s \in Sessions, CreateLedger(s) PROVE TypeOK'
  BY <1>2 DEF CreateLedger
<1>3. ASSUME NEW s \in Sessions, WriteClaim(s) PROVE TypeOK'
  BY <1>3 DEF WriteClaim, WriteAtStart
<1>4. ASSUME NEW s \in Sessions, ClaimHeld(s) PROVE TypeOK'
  BY <1>4 DEF ClaimHeld
<1>5. ASSUME NEW s \in Sessions, ReportHeld(s) PROVE TypeOK'
  BY <1>5 DEF ReportHeld
<1>6. ASSUME NEW s \in Sessions, Supersede(s) PROVE TypeOK'
  BY <1>6 DEF Supersede
<1>7. ASSUME NEW s \in Sessions, TruncateClaim(s) PROVE TypeOK'
  BY <1>7 DEF TruncateClaim
<1>8. ASSUME NEW s \in Sessions, LedgerUnavailable(s) PROVE TypeOK'
  BY <1>8 DEF LedgerUnavailable
<1>9. ASSUME NEW s \in Sessions, ResolveWorkflow(s) PROVE TypeOK'
  BY <1>9 DEF ResolveWorkflow
<1>10. ASSUME NEW s \in Sessions, DispatchRefused(s) PROVE TypeOK'
  BY <1>10 DEF DispatchRefused
<1>11. ASSUME NEW s \in Sessions, DispatchAccepted(s) PROVE TypeOK'
  <2>1. PICK head \in Heads : NewRun(s, head)
    BY <1>11 DEF DispatchAccepted
  <2>2. runs' \in Seq(RunRecords)
    BY <2>1 DEF NewRun
  <2>3. QED
    BY <1>11, <2>2 DEF DispatchAccepted
<1>12. ASSUME NEW s \in Sessions, DispatchUnheard(s) PROVE TypeOK'
  <2>1. PICK head \in Heads : NewRun(s, head)
    BY <1>12 DEF DispatchUnheard
  <2>2. runs' \in Seq(RunRecords)
    BY <2>1 DEF NewRun
  <2>3. QED
    BY <1>12, <2>2 DEF DispatchUnheard
<1>13. ASSUME NEW s \in Sessions, ResolveRun(s) PROVE TypeOK'
  <2>1. PICK id \in Created \cup {NoRun} :
           resolved' = [resolved EXCEPT ![s] = id]
    BY <1>13 DEF ResolveRun
  <2>2. id \in RunIds
    BY <2>1 DEF Created
  <2>3. QED
    BY <1>13, <2>1, <2>2 DEF ResolveRun
<1>14. ASSUME NEW s \in Sessions, TruncateFinal(s) PROVE TypeOK'
  BY <1>14 DEF TruncateFinal
<1>15. ASSUME NEW s \in Sessions, WriteFinal(s) PROVE TypeOK'
  BY <1>15 DEF WriteFinal, WriteAtStart
<1>16. ASSUME NEW s \in Sessions, FinalWriteFails(s) PROVE TypeOK'
  BY <1>16 DEF FinalWriteFails
<1>17. ASSUME NEW s \in Sessions, Crash(s) PROVE TypeOK'
  BY <1>17 DEF Crash
<1>18. ASSUME OtherRun PROVE TypeOK'
  <2>1. others' \in Seq(OtherRecords)
    BY <1>18 DEF OtherRun
  <2>2. UNCHANGED <<ledger, pc, now, since, resolved, calls, runs, zone,
                    clock, claims, breach>>
    BY <1>18 DEF OtherRun, callVars
  <2>3. QED
    BY <2>1, <2>2
<1>19. ASSUME Tick PROVE TypeOK'
  <2>1. clock' \in Nat
    BY <1>19 DEF Tick
  <2>2. UNCHANGED <<ledger, pc, now, since, resolved, calls, runs, others,
                    zone, claims, breach>>
    BY <1>19 DEF Tick, callVars
  <2>3. QED
    BY <2>1, <2>2
<1>20. ASSUME UNCHANGED vars PROVE TypeOK'
  BY <1>20 DEF vars, callVars
<1>21. QED
  BY <1>1, <1>2, <1>3, <1>4, <1>5, <1>6, <1>7, <1>8, <1>9, <1>10, <1>11,
     <1>12, <1>13, <1>14, <1>15, <1>16, <1>17, <1>18, <1>19,
     <1>20 DEF Next, Step

\* The initial state is well typed.
LEMMA TypeInit == Init => TypeOK
<1> SUFFICES ASSUME Init PROVE TypeOK
  OBVIOUS
<1>1. runs \in Seq(RunRecords) /\ others \in Seq(OtherRecords)
  BY DEF Init
<1>2. ledger \in LedgerFiles
  BY DEF Init, LedgerFiles
<1>3. resolved \in [Sessions -> RunIds]
  BY DEF Init, RunIds, NoRun
<1>4. QED
  BY <1>1, <1>2, <1>3, LedgerAssumption DEF Init, TypeOK, Labels, Breaches

\* Every variable of the ledger protocol keeps its type, and the ledger file
\* only ever holds one of the forms _claim_ledger distinguishes.
THEOREM TypeCorrect == Spec => []TypeOK
<1>1. Init => TypeOK
  BY TypeInit
<1>2. TypeOK /\ [Next]_vars => TypeOK'
  BY TypeStep
<1>3. QED
  BY <1>1, <1>2, PTL DEF Spec

(***************************************************************************)
(* The shape of a step.                                                    *)
(***************************************************************************)

\* The invocation is over and nothing but its locals has changed.
Ends(s) ==
    /\ Answer(s)
    /\ UNCHANGED <<ledger, runs, others, zone, clock, claims, breach>>

\* The five ways an invocation ends without touching the ledger, a crash
\* among them, are one kind of step for every proof below.
LEMMA StepCases ==
    ASSUME [Next]_vars
    PROVE  \/ \E s \in Sessions :
                 \/ Begin(s) \/ CreateLedger(s) \/ WriteClaim(s)
                 \/ ClaimHeld(s) \/ Supersede(s) \/ TruncateClaim(s)
                 \/ ResolveWorkflow(s) \/ DispatchAccepted(s)
                 \/ DispatchUnheard(s) \/ ResolveRun(s) \/ TruncateFinal(s)
                 \/ WriteFinal(s) \/ Ends(s)
           \/ OtherRun
           \/ Tick
           \/ UNCHANGED vars
<1>1. ASSUME NEW s \in Sessions,
             \/ ReportHeld(s) \/ LedgerUnavailable(s) \/ DispatchRefused(s)
             \/ FinalWriteFails(s) \/ Crash(s)
      PROVE  Ends(s)
  BY <1>1 DEF ReportHeld, LedgerUnavailable, DispatchRefused,
     FinalWriteFails, Crash, Ends
<1>2. QED
  BY <1>1 DEF Next, Step

(***************************************************************************)
(* Time: no invocation outlives its timeouts, so none outlives its claim.  *)
(***************************************************************************)

Clocks ==
    /\ clock >= TTL
    /\ \A c \in claims : c.at <= clock
    /\ \A s \in Sessions :
          /\ TTL <= now[s] /\ now[s] <= clock
          /\ pc[s] # "idle" => clock - now[s] <= MaxRun

\* Every step keeps the clock readings of the invocations under way within
\* MaxRun of the clock.
LEMMA ClocksStep ==
    ASSUME TypeOK, TypeOK', Clocks, [Next]_vars
    PROVE  Clocks'
<1> USE LedgerAssumption DEF TypeOK, Clocks, Goto
<1>1. ASSUME NEW s \in Sessions, Begin(s) PROVE Clocks'
  BY <1>1 DEF Begin
<1>2. ASSUME NEW s \in Sessions, CreateLedger(s) PROVE Clocks'
  BY <1>2 DEF CreateLedger, Unreadable
<1>3. ASSUME NEW s \in Sessions, WriteClaim(s) PROVE Clocks'
  BY <1>3 DEF WriteClaim, WriteAtStart, Entry, Unreadable
<1>4. ASSUME NEW s \in Sessions, ClaimHeld(s) PROVE Clocks'
  BY <1>4 DEF ClaimHeld
<1>5. ASSUME NEW s \in Sessions, Supersede(s) PROVE Clocks'
  BY <1>5 DEF Supersede
<1>6. ASSUME NEW s \in Sessions, TruncateClaim(s) PROVE Clocks'
  BY <1>6 DEF TruncateClaim, Unreadable
<1>7. ASSUME NEW s \in Sessions, ResolveWorkflow(s) PROVE Clocks'
  BY <1>7 DEF ResolveWorkflow
<1>8. ASSUME NEW s \in Sessions, DispatchAccepted(s) PROVE Clocks'
  BY <1>8 DEF DispatchAccepted, NewRun
<1>9. ASSUME NEW s \in Sessions, DispatchUnheard(s) PROVE Clocks'
  BY <1>9 DEF DispatchUnheard, NewRun, Answer
<1>10. ASSUME NEW s \in Sessions, ResolveRun(s) PROVE Clocks'
  BY <1>10 DEF ResolveRun
<1>11. ASSUME NEW s \in Sessions, TruncateFinal(s) PROVE Clocks'
  BY <1>11 DEF TruncateFinal, Unreadable
<1>12. ASSUME NEW s \in Sessions, WriteFinal(s) PROVE Clocks'
  BY <1>12 DEF WriteFinal, Answer, WriteAtStart, Entry, Unreadable
<1>13. ASSUME NEW s \in Sessions, Ends(s) PROVE Clocks'
  BY <1>13 DEF Ends, Answer
<1>14. ASSUME OtherRun PROVE Clocks'
  BY <1>14 DEF OtherRun, callVars
<1>15. ASSUME Tick PROVE Clocks'
  BY <1>15 DEF Tick, callVars
<1>16. ASSUME UNCHANGED vars PROVE Clocks'
  BY <1>16 DEF vars, callVars
<1>17. QED
  BY <1>1, <1>2, <1>3, <1>4, <1>5, <1>6, <1>7,
     <1>8, <1>9, <1>10, <1>11, <1>12, <1>13, <1>14, <1>15,
     <1>16, StepCases

(***************************************************************************)
(* Claims: what the file and the sessions know is what was written.        *)
(***************************************************************************)

Recorded ==
    /\ ledger.form = "entry" => \E c \in claims : c.at = ledger.claimedAt
    /\ ledger.form # "entry" => ledger.claimedAt = 0
    /\ \A s \in Sessions : Holding(s) => [by |-> s, at |-> now[s]] \in claims
    /\ HeldMeansRecentClaim

\* Every step keeps the file and the holders backed by a written claim.
LEMMA RecordedStep ==
    ASSUME TypeOK, TypeOK', Clocks, Recorded, [Next]_vars
    PROVE  Recorded'
<1> USE LedgerAssumption DEF TypeOK, Clocks, Recorded, Holding,
        HeldMeansRecentClaim, Goto
<1>1. ASSUME NEW s \in Sessions, Begin(s) PROVE Recorded'
  BY <1>1 DEF Begin
<1>2. ASSUME NEW s \in Sessions, CreateLedger(s) PROVE Recorded'
  BY <1>2 DEF CreateLedger, Unreadable
<1>3. ASSUME NEW s \in Sessions, WriteClaim(s) PROVE Recorded'
  BY <1>3 DEF WriteClaim, WriteAtStart, Entry, Unreadable
<1>4. ASSUME NEW s \in Sessions, ClaimHeld(s) PROVE Recorded'
  BY <1>4 DEF ClaimHeld, Live
<1>5. ASSUME NEW s \in Sessions, Supersede(s) PROVE Recorded'
  BY <1>5 DEF Supersede
<1>6. ASSUME NEW s \in Sessions, TruncateClaim(s) PROVE Recorded'
  BY <1>6 DEF TruncateClaim, Unreadable
<1>7. ASSUME NEW s \in Sessions, ResolveWorkflow(s) PROVE Recorded'
  BY <1>7 DEF ResolveWorkflow
<1>8. ASSUME NEW s \in Sessions, DispatchAccepted(s) PROVE Recorded'
  BY <1>8 DEF DispatchAccepted, NewRun
<1>9. ASSUME NEW s \in Sessions, DispatchUnheard(s) PROVE Recorded'
  BY <1>9 DEF DispatchUnheard, NewRun, Answer
<1>10. ASSUME NEW s \in Sessions, ResolveRun(s) PROVE Recorded'
  BY <1>10 DEF ResolveRun
<1>11. ASSUME NEW s \in Sessions, TruncateFinal(s) PROVE Recorded'
  BY <1>11 DEF TruncateFinal, Unreadable
<1>12. ASSUME NEW s \in Sessions, WriteFinal(s) PROVE Recorded'
  <2>1. /\ ledger'.form = "entry" => ledger'.claimedAt = now[s]
        /\ ledger'.form # "entry" => ledger'.claimedAt = 0
    <3> HIDE DEF TypeOK, Clocks, Recorded
    <3> QED  BY <1>12 DEF WriteFinal, WriteAtStart, Entry, Unreadable
  <2>2. [by |-> s, at |-> now[s]] \in claims'
    BY <1>12 DEF WriteFinal
  <2>3. [by |-> s, at |-> now[s]].at = now[s]
    OBVIOUS
  <2>4. HeldMeansRecentClaim'
    BY <1>12 DEF WriteFinal, Answer
  <2>5. \A q \in Sessions :
           Holding(q)' => [by |-> q, at |-> now'[q]] \in claims'
    BY <1>12 DEF WriteFinal, Answer
  <2>6. QED
    BY <2>1, <2>2, <2>3, <2>4, <2>5
<1>13. ASSUME NEW s \in Sessions, Ends(s) PROVE Recorded'
  BY <1>13 DEF Ends, Answer
<1>14. ASSUME OtherRun PROVE Recorded'
  BY <1>14 DEF OtherRun, callVars
<1>15. ASSUME Tick PROVE Recorded'
  BY <1>15 DEF Tick, callVars
<1>16. ASSUME UNCHANGED vars PROVE Recorded'
  BY <1>16 DEF vars, callVars
<1>17. QED
  BY <1>1, <1>2, <1>3, <1>4, <1>5, <1>6, <1>7,
     <1>8, <1>9, <1>10, <1>11, <1>12, <1>13, <1>14, <1>15,
     <1>16, StepCases

(***************************************************************************)
(* Runs: what an entry names is hardly older than the claim it records.    *)
(***************************************************************************)

\* Run id exists and is, in the local reading of its time, at most Slack
\* older than time t.
Follows(id, t) == id \in Created /\ Stamp(id) >= t - Slack

RunsFollow ==
    /\ \A i \in DOMAIN runs : runs[i].at - runs[i].claimedAt <= MaxRun
    /\ \A s \in Sessions :
          /\ pc[s] \in {"dispatch", "resolve"} => since[s] >= now[s]
          /\ pc[s] \in {"reopen", "finish"} /\ resolved[s] # NoRun =>
                Follows(resolved[s], now[s])
    /\ ledger.form = "entry" /\ ledger.run # NoRun =>
          Follows(ledger.run, ledger.claimedAt)

\* The times of a run are times.
LEMMA RunsTyped ==
    ASSUME TypeOK
    PROVE  \A i \in DOMAIN runs : runs[i].at \in Nat /\ runs[i].claimedAt \in Nat
<1>1. runs \in Seq(RunRecords)
  BY DEF TypeOK
<1>2. \A i \in DOMAIN runs : runs[i] \in RunRecords
  BY <1>1
<1>3. QED
  BY <1>2 DEF RunRecords

\* So are those of every run there is, in local time.
LEMMA CreatedTyped ==
    ASSUME TypeOK, NEW id \in Created
    PROVE  RunOf(id).at \in Nat /\ Stamp(id) \in Int
<1>1. others \in Seq(OtherRecords) /\ zone \in Int
  BY DEF TypeOK
<1>2. \A i \in DOMAIN others : others[i].at \in Nat
  <2>1. \A i \in DOMAIN others : others[i] \in OtherRecords
    BY <1>1
  <2>2. QED
    BY <2>1 DEF OtherRecords
<1>3. RunOf(id).at \in Nat
  BY <1>2, RunsTyped DEF Created, RunOf
<1>4. QED
  BY <1>1, <1>3 DEF Stamp

\* Creating a run leaves the runs there are as they are.
LEMMA NewRunKeeps ==
    ASSUME TypeOK, NEW s \in Sessions, NEW head \in Heads, NewRun(s, head)
    PROVE  /\ \A i \in DOMAIN runs : i \in DOMAIN runs' /\ runs'[i] = runs[i]
           /\ DOMAIN runs' = DOMAIN runs \cup {Len(runs) + 1}
           /\ runs'[Len(runs) + 1].claimedAt = now[s]
           /\ runs'[Len(runs) + 1].at = clock
<1>1. runs \in Seq(RunRecords)
  BY DEF TypeOK
<1>2. [claimedAt |-> now[s], at |-> clock, head |-> head] \in RunRecords
  BY DEF TypeOK, RunRecords
<1>3. QED
  BY <1>1, <1>2 DEF NewRun

\* Only a dispatch adds a run of the identity, and only OtherRun another one;
\* the runs there are stay as they are.
LEMMA RunsGrow ==
    ASSUME TypeOK, [Next]_vars
    PROVE  /\ zone' = zone
           /\ \A i \in DOMAIN runs : i \in DOMAIN runs' /\ runs'[i] = runs[i]
           /\ \A i \in DOMAIN others :
                 i \in DOMAIN others' /\ others'[i] = others[i]
           /\ \/ runs' = runs
              \/ \E s \in Sessions :
                    /\ pc[s] = "dispatch"
                    /\ DOMAIN runs' = DOMAIN runs \cup {Len(runs) + 1}
                    /\ runs'[Len(runs) + 1].claimedAt = now[s]
                    /\ runs'[Len(runs) + 1].at = clock
<1> DEFINE Dispatched(s) == /\ pc[s] = "dispatch" /\ others' = others
                            /\ \E head \in Heads : NewRun(s, head)
<1>1. /\ zone' = zone
      /\ \/ OtherRun
         \/ runs' = runs /\ others' = others
         \/ \E s \in Sessions : Dispatched(s)
  BY StepCases DEF Begin, CreateLedger, WriteClaim, ClaimHeld, Supersede,
     TruncateClaim, ResolveWorkflow, DispatchAccepted, DispatchUnheard,
     ResolveRun, TruncateFinal, WriteFinal, Ends, OtherRun, Tick, vars
<1>2. CASE runs' = runs /\ others' = others
  BY <1>1, <1>2
<1>3. CASE OtherRun
  <2>1. others \in Seq(OtherRecords) /\ clock \in Nat
    BY DEF TypeOK
  <2>2. PICK head \in Heads :
           others' = Append(others, [at |-> clock, head |-> head])
    BY <1>3 DEF OtherRun
  <2>3. [at |-> clock, head |-> head] \in OtherRecords
    BY <2>1 DEF OtherRecords
  <2>4. \A i \in DOMAIN others :
           i \in DOMAIN others' /\ others'[i] = others[i]
    BY <2>1, <2>2, <2>3
  <2>5. QED
    BY <1>1, <1>3, <2>4 DEF OtherRun
<1>4. ASSUME NEW s \in Sessions, Dispatched(s)
      PROVE  /\ \A i \in DOMAIN runs : i \in DOMAIN runs' /\ runs'[i] = runs[i]
             /\ DOMAIN runs' = DOMAIN runs \cup {Len(runs) + 1}
             /\ runs'[Len(runs) + 1].claimedAt = now[s]
             /\ runs'[Len(runs) + 1].at = clock
  BY <1>4, NewRunKeeps
<1>5. QED
  BY <1>1, <1>2, <1>3, <1>4

\* A run that follows a time goes on to follow it.
LEMMA FollowsOn ==
    ASSUME TypeOK, [Next]_vars, NEW id, NEW t, Follows(id, t)
    PROVE  /\ id \in ({"own"} \X DOMAIN runs') \cup ({"other"} \X DOMAIN others')
           /\ (IF id[1] = "own" THEN runs'[id[2]] ELSE others'[id[2]]).at - zone'
                  >= t - Slack
<1>1. id \in Created /\ Stamp(id) >= t - Slack
  BY DEF Follows
<1>2. \/ id[1] = "own" /\ id[2] \in DOMAIN runs
      \/ id[1] = "other" /\ id[2] \in DOMAIN others
  BY <1>1 DEF Created
<1>3. (IF id[1] = "own" THEN runs'[id[2]] ELSE others'[id[2]]) = RunOf(id)
  BY <1>2, RunsGrow DEF RunOf
<1>4. id \in ({"own"} \X DOMAIN runs') \cup ({"other"} \X DOMAIN others')
  BY <1>1, RunsGrow DEF Created
<1>5. QED
  BY <1>1, <1>3, <1>4, RunsGrow DEF Stamp

\* What _resolve_run returns follows the claim it is resolved under.
LEMMA ResolvedFollows ==
    ASSUME TypeOK, RunsFollow, NEW s \in Sessions, ResolveRun(s),
           resolved'[s] # NoRun
    PROVE  Follows(resolved'[s], now[s])
<1>1. \E recent :
         /\ \A id \in recent : Stamp(id) >= since[s] - Slack
         /\ \E id \in Created \cup {NoRun} :
               /\ Newest(id, recent)
               /\ resolved' = [resolved EXCEPT ![s] = id]
  BY DEF ResolveRun
<1>2. PICK id \in Created \cup {NoRun} :
         /\ id # NoRun => Stamp(id) >= since[s] - Slack
         /\ resolved' = [resolved EXCEPT ![s] = id]
  BY <1>1 DEF Newest
<1>3. resolved'[s] = id
  BY <1>2 DEF TypeOK
<1>4. since[s] >= now[s] /\ since[s] \in Nat /\ now[s] \in Nat
  BY DEF ResolveRun, RunsFollow, TypeOK
<1>5. id \in Created /\ Stamp(id) >= since[s] - Slack
  BY <1>2, <1>3
<1>6. Stamp(id) \in Int
  BY <1>5, CreatedTyped
<1>7. Stamp(id) >= now[s] - Slack
  BY <1>4, <1>5, <1>6, LedgerAssumption
<1>8. QED
  BY <1>3, <1>5, <1>7 DEF Follows

\* Where the locals of a session that has got as far come from.
LEMMA LocalsStep ==
    ASSUME TypeOK, [Next]_vars, NEW q \in Sessions
    PROVE  /\ pc'[q] \in {"dispatch", "resolve"} =>
                 \/ /\ since'[q] = since[q] /\ now'[q] = now[q]
                    /\ pc[q] \in {"dispatch", "resolve"}
                 \/ since'[q] = clock /\ now'[q] = now[q]
           /\ pc'[q] \in {"reopen", "finish"} =>
                 /\ now'[q] = now[q]
                 /\ \/ resolved'[q] = resolved[q] /\ pc[q] \in {"reopen", "finish"}
                    \/ ResolveRun(q)
<1> DEFINE Goal ==
      /\ pc'[q] \in {"dispatch", "resolve"} =>
            \/ /\ since'[q] = since[q] /\ now'[q] = now[q]
               /\ pc[q] \in {"dispatch", "resolve"}
            \/ since'[q] = clock /\ now'[q] = now[q]
      /\ pc'[q] \in {"reopen", "finish"} =>
            /\ now'[q] = now[q]
            /\ \/ resolved'[q] = resolved[q] /\ pc[q] \in {"reopen", "finish"}
               \/ ResolveRun(q)
<1> USE DEF TypeOK, Goto, Answer
<1>1. ASSUME NEW s \in Sessions, Begin(s) PROVE Goal
  BY <1>1 DEF Begin
<1>2. ASSUME NEW s \in Sessions, CreateLedger(s) \/ WriteClaim(s) PROVE Goal
  BY <1>2 DEF CreateLedger, WriteClaim
<1>3. ASSUME NEW s \in Sessions,
             ClaimHeld(s) \/ Supersede(s) \/ TruncateClaim(s)
      PROVE  Goal
  BY <1>3 DEF ClaimHeld, Supersede, TruncateClaim
<1>4. ASSUME NEW s \in Sessions, ResolveWorkflow(s) \/ DispatchAccepted(s)
      PROVE  Goal
  BY <1>4 DEF ResolveWorkflow, DispatchAccepted
<1>5. ASSUME NEW s \in Sessions, Answer(s) PROVE Goal
  BY <1>5
<1>6. ASSUME NEW s \in Sessions, ResolveRun(s) PROVE Goal
  <2>1. /\ pc' = [pc EXCEPT ![s] = "reopen"] /\ UNCHANGED <<now, since>>
        /\ \E id : resolved' = [resolved EXCEPT ![s] = id]
    BY <1>6 DEF ResolveRun
  <2>2. CASE q = s
    BY <1>6, <2>1, <2>2
  <2>3. CASE q # s
    BY <2>1, <2>3
  <2>4. QED
    BY <2>2, <2>3
<1>7. ASSUME NEW s \in Sessions, TruncateFinal(s) PROVE Goal
  BY <1>7 DEF TruncateFinal
<1>8. ASSUME OtherRun \/ Tick \/ UNCHANGED vars PROVE Goal
  <2>1. UNCHANGED <<pc, now, since, resolved>>
    BY <1>8 DEF OtherRun, Tick, vars, callVars
  <2>2. QED
    BY <2>1
<1>9. ASSUME NEW s \in Sessions, DispatchUnheard(s) \/ WriteFinal(s) \/ Ends(s)
      PROVE  Goal
  <2>1. Answer(s)
    BY <1>9 DEF DispatchUnheard, WriteFinal, Ends
  <2> HIDE DEF Goal, TypeOK, Goto, Answer
  <2>2. QED
    BY <1>5, <2>1
<1> HIDE DEF Goal, TypeOK, Goto, Answer
<1>10. Goal
  BY <1>1, <1>2, <1>3, <1>4, <1>6, <1>7, <1>8, <1>9, StepCases
<1>11. QED
  BY <1>10 DEF Goal

\* Where an entry that names a run comes from: it was there, or a closing
\* write made it.
LEMMA EntryFrom ==
    ASSUME [Next]_vars, ledger'.form = "entry", ledger'.run # NoRun
    PROVE  \/ ledger' = ledger
           \/ \E s \in Sessions : /\ pc[s] = "finish"
                                  /\ ledger'.run = resolved[s]
                                  /\ ledger'.claimedAt = now[s]
<1>1. ASSUME NEW s \in Sessions,
             CreateLedger(s) \/ TruncateClaim(s) \/ TruncateFinal(s)
      PROVE  FALSE
  BY <1>1 DEF CreateLedger, TruncateClaim, TruncateFinal, Unreadable
<1>2. ASSUME NEW s \in Sessions, WriteClaim(s) PROVE FALSE
  BY <1>2 DEF WriteClaim, WriteAtStart, Entry, Unreadable
<1>3. ASSUME NEW s \in Sessions, WriteFinal(s)
      PROVE  /\ pc[s] = "finish" /\ ledger'.run = resolved[s]
             /\ ledger'.claimedAt = now[s]
  BY <1>3 DEF WriteFinal, WriteAtStart, Entry, Unreadable
<1>4. QED
  BY <1>1, <1>2, <1>3, StepCases DEF Begin, ClaimHeld, Supersede,
     ResolveWorkflow, DispatchAccepted, DispatchUnheard, ResolveRun,
     Ends, OtherRun, Tick, vars

\* Every step keeps the resolved runs hardly older than the claims they are
\* resolved under, as local time reads them, and every run within MaxRun of
\* its claim.
LEMMA RunsFollowStep ==
    ASSUME TypeOK, TypeOK', Clocks, RunsFollow, [Next]_vars
    PROVE  RunsFollow'
<1>1. \A i \in DOMAIN runs' : runs'[i].at - runs'[i].claimedAt <= MaxRun
  <2>1. \A i \in DOMAIN runs : runs[i].at - runs[i].claimedAt <= MaxRun
    BY DEF RunsFollow
  <2>2. \A s \in Sessions : pc[s] = "dispatch" => clock - now[s] <= MaxRun
    BY DEF Clocks
  <2>3. QED
    BY <2>1, <2>2, RunsGrow
<1>2. ASSUME NEW q \in Sessions, pc'[q] \in {"dispatch", "resolve"}
      PROVE  since'[q] >= now'[q]
  <2>1. pc[q] \in {"dispatch", "resolve"} => since[q] >= now[q]
    BY DEF RunsFollow
  <2>2. now[q] <= clock /\ now[q] \in Nat /\ clock \in Nat /\ since[q] \in Nat
    BY DEF Clocks, TypeOK
  <2>3. \/ /\ since'[q] = since[q] /\ now'[q] = now[q]
           /\ pc[q] \in {"dispatch", "resolve"}
        \/ since'[q] = clock /\ now'[q] = now[q]
    BY <1>2, LocalsStep
  <2>4. QED
    BY <2>1, <2>2, <2>3
<1>3. ASSUME NEW q \in Sessions, pc'[q] \in {"reopen", "finish"},
             resolved'[q] # NoRun
      PROVE  Follows(resolved[q], now[q])'
  <2>1. now'[q] = now[q]
    BY <1>3, LocalsStep
  <2>2. PICK id : id = resolved'[q]
    OBVIOUS
  <2>3. Follows(id, now[q])
    <3>1. CASE resolved'[q] = resolved[q] /\ pc[q] \in {"reopen", "finish"}
      BY <1>3, <2>2, <3>1 DEF RunsFollow
    <3>2. CASE ResolveRun(q)
      BY <1>3, <2>2, <3>2, ResolvedFollows
    <3>3. QED
      BY <1>3, <3>1, <3>2, LocalsStep
  <2>4. QED
    BY <2>1, <2>2, <2>3, FollowsOn DEF Follows, Created, Stamp, RunOf
<1>4. ASSUME ledger'.form = "entry", ledger'.run # NoRun
      PROVE  Follows(ledger.run, ledger.claimedAt)'
  <2>1. PICK id, t : id = ledger'.run /\ t = ledger'.claimedAt
    OBVIOUS
  <2>2. Follows(id, t)
    <3>1. CASE ledger' = ledger
      BY <1>4, <2>1, <3>1 DEF RunsFollow
    <3>2. ASSUME NEW s \in Sessions, id = resolved[s], t = now[s],
                 pc[s] = "finish"
          PROVE  Follows(id, t)
      BY <1>4, <2>1, <3>2 DEF RunsFollow
    <3>3. QED
      BY <1>4, <2>1, <3>1, <3>2, EntryFrom
  <2>3. QED
    BY <2>1, <2>2, FollowsOn DEF Follows, Created, Stamp, RunOf
<1>5. QED
  BY <1>1, <1>2, <1>3, <1>4 DEF RunsFollow

(***************************************************************************)
(* The claim discipline.                                                   *)
(***************************************************************************)

\* While no window was hit, a session that holds a claim is alone: nobody
\* else holds one, supersedes, or fills the first one in.
LEMMA Alone ==
    ASSUME TypeOK, Clocks, Recorded, ClaimDiscipline, ~Raced,
           NEW s \in Sessions, Holding(s), NEW q \in Sessions \ {s}
    PROVE  ~Holding(q) /\ ~Superseding(q) /\ pc[q] # "fill"
<1> DEFINE mine == [by |-> s, at |-> now[s]]
           other == [by |-> q, at |-> now[q]]
<1>1. mine \in claims /\ pc[s] # "idle"
  BY DEF Recorded, Holding
<1>2. /\ clock - now[s] <= MaxRun /\ now[s] <= clock /\ now[s] \in Nat
      /\ now[q] \in Nat /\ now[q] <= clock
      /\ pc[q] # "idle" => clock - now[q] <= MaxRun
  BY <1>1 DEF Clocks, TypeOK
<1>3. clock \in Nat /\ TTL \in Nat /\ MaxRun \in Nat /\ MaxRun < TTL
  BY LedgerAssumption DEF TypeOK
<1>4. ~Holding(q)
  <2>1. SUFFICES ASSUME Holding(q) PROVE FALSE
    OBVIOUS
  <2>2. other \in claims /\ pc[q] # "idle"
    BY <2>1 DEF Recorded, Holding
  <2>3. mine # other
    OBVIOUS
  <2>4. now[s] - now[q] >= TTL \/ now[q] - now[s] >= TTL
    BY <1>1, <2>2, <2>3 DEF ClaimDiscipline, FileDisciplined
  <2>5. QED
    BY <1>2, <1>3, <2>2, <2>4
<1>5. ~Superseding(q)
  <2>1. SUFFICES ASSUME Superseding(q) PROVE FALSE
    OBVIOUS
  <2>2. now[q] - now[s] >= TTL
    BY <1>1, <2>1 DEF ClaimDiscipline, Disciplined
  <2>3. QED
    BY <1>2, <1>3, <2>2
<1>6. pc[q] # "fill"
  BY DEF ClaimDiscipline, Disciplined, Holding
<1>7. QED
  BY <1>4, <1>5, <1>6

\* A window, once hit, stays hit.
LEMMA Calm ==
    ASSUME [Next]_vars, ~Raced'
    PROVE  ~Raced
<1>1. breach \subseteq breach'
  BY StepCases DEF Begin, CreateLedger, WriteClaim, ClaimHeld, Supersede,
     TruncateClaim, ResolveWorkflow, DispatchAccepted, DispatchUnheard,
     ResolveRun, TruncateFinal, WriteFinal, Ends, OtherRun,
     Tick, vars
<1>2. QED
  BY <1>1 DEF Raced


\* The time a file shows is a time.
LEMMA EntryTyped ==
    ASSUME TypeOK
    PROVE  /\ ledger.claimedAt \in Nat
           /\ \A c \in claims : c.at \in Nat
           /\ \A s \in Sessions : now[s] \in Nat
           /\ TTL \in Nat
BY LedgerAssumption DEF TypeOK, LedgerFiles, Unreadable

\* Every step keeps the claim discipline.
LEMMA DisciplineStep ==
    ASSUME TypeOK, TypeOK', Clocks, Clocks', Recorded, Recorded',
           ClaimDiscipline, [Next]_vars
    PROVE  ClaimDiscipline'
<1> SUFFICES ASSUME ~Raced, ~Raced' PROVE ClaimDiscipline'
  BY Calm DEF ClaimDiscipline
<1>0. FileDisciplined /\ \A q \in Sessions : Disciplined(q)
  BY DEF ClaimDiscipline
<1> USE LedgerAssumption DEF TypeOK, Holding, Superseding, Goto
<1>1. ASSUME NEW s \in Sessions, Begin(s) PROVE ClaimDiscipline'
  <2>1. FileDisciplined'
    BY <1>1, <1>0 DEF Begin, FileDisciplined, Disciplined
  <2>2. Disciplined(s)'
    BY <1>1, <1>0 DEF Begin, FileDisciplined, Disciplined
  <2>3. ASSUME NEW q \in Sessions \ {s} PROVE Disciplined(q)'
    BY <1>1, <1>0, Alone DEF Begin, Disciplined
  <2>4. QED
    BY <2>1, <2>2, <2>3 DEF ClaimDiscipline
<1>2. ASSUME NEW s \in Sessions, CreateLedger(s) PROVE ClaimDiscipline'
  <2>1. FileDisciplined'
    BY <1>2, <1>0 DEF CreateLedger, Unreadable, FileDisciplined, Disciplined
  <2>2. Disciplined(s)'
    BY <1>2, <1>0 DEF CreateLedger, Unreadable, FileDisciplined, Disciplined
  <2>3. ASSUME NEW q \in Sessions \ {s} PROVE Disciplined(q)'
    BY <1>2, <1>0 DEF CreateLedger, FileDisciplined, Disciplined
  <2>4. QED
    BY <2>1, <2>2, <2>3 DEF ClaimDiscipline
<1>3. ASSUME NEW s \in Sessions, WriteClaim(s) PROVE ClaimDiscipline'
  <2> DEFINE mine == [by |-> s, at |-> now[s]]
  <2>a. /\ claims' = claims \cup {mine} /\ UNCHANGED <<runs, breach>>
        /\ pc' = [pc EXCEPT ![s] = "claimed"]
        /\ ledger' = Entry(s, now[s], "claimed", NoRun)
    BY <1>3, <1>0 DEF WriteClaim, WriteAtStart, FileDisciplined, Disciplined,
       Unreadable
  <2>b. \A c \in claims : mine.at - c.at >= TTL /\ c.at \in Nat
    BY <1>3, <1>0 DEF WriteClaim, Disciplined
  <2>c. \A c, d \in claims' : c # d => c.at - d.at >= TTL \/ d.at - c.at >= TTL
    BY <2>a, <2>b, <1>0 DEF FileDisciplined
  <2>d. \A c \in claims' : c.at <= now[s]
    <3>1. mine.at = now[s] /\ now[s] \in Nat
      OBVIOUS
    <3> HIDE DEF mine
    <3>2. QED
      BY <2>a, <2>b, <3>1
  <2>1. FileDisciplined'
    BY <2>a, <2>c, <2>d, <1>0 DEF Entry, FileDisciplined
  <2>2. Disciplined(s)'
    BY <1>3, <1>0 DEF WriteClaim, WriteAtStart, Entry, Unreadable, FileDisciplined, Disciplined
  <2>3. ASSUME NEW q \in Sessions \ {s} PROVE Disciplined(q)'
    BY <1>3, <1>0, Alone DEF WriteClaim, WriteAtStart, Entry, Unreadable, Disciplined
  <2>4. QED
    BY <2>1, <2>2, <2>3 DEF ClaimDiscipline
<1>4. ASSUME NEW s \in Sessions, ClaimHeld(s) PROVE ClaimDiscipline'
  <2>1. FileDisciplined'
    BY <1>4, <1>0 DEF ClaimHeld, Live, FileDisciplined, Disciplined
  <2>2. Disciplined(s)'
    BY <1>4, <1>0 DEF ClaimHeld, Live, FileDisciplined, Disciplined
  <2>3. ASSUME NEW q \in Sessions \ {s} PROVE Disciplined(q)'
    <3>1. pc[q] # "fill"
      BY <1>4, <1>0 DEF ClaimHeld, Live, Disciplined, Clocks, Unreadable
    <3>2. QED
      BY <1>4, <1>0, <3>1 DEF ClaimHeld, Disciplined
  <2>4. QED
    BY <2>1, <2>2, <2>3 DEF ClaimDiscipline
<1>5. ASSUME NEW s \in Sessions, Supersede(s) PROVE ClaimDiscipline'
  <2>1. FileDisciplined'
    BY <1>5, <1>0 DEF Supersede, Live, FileDisciplined, Disciplined
  <2>a. /\ ledger.form = "entry"
        /\ \A q \in Sessions \ {s} : ~Superseding(q)
    BY <1>5 DEF Supersede, Raced
  <2>b. \A c \in claims : now[s] - c.at >= TTL
    <3>1. \A c \in claims : c.at <= ledger.claimedAt
      BY <1>0, <2>a DEF FileDisciplined
    <3>2. now[s] - ledger.claimedAt >= TTL
      BY <1>5, EntryTyped DEF Supersede, Live
    <3> HIDE DEF TypeOK
    <3>3. QED
      BY <3>1, <3>2, EntryTyped
  <2>2. Disciplined(s)'
    BY <1>5, <2>a, <2>b DEF Supersede, Disciplined
  <2>3. ASSUME NEW q \in Sessions \ {s} PROVE Disciplined(q)'
    BY <1>5, <1>0, <2>a DEF Supersede, Disciplined, Unreadable
  <2>4. QED
    BY <2>1, <2>2, <2>3 DEF ClaimDiscipline
<1>6. ASSUME NEW s \in Sessions, TruncateClaim(s) PROVE ClaimDiscipline'
  <2>1. FileDisciplined'
    BY <1>6, <1>0 DEF TruncateClaim, Unreadable, FileDisciplined, Disciplined
  <2>2. Disciplined(s)'
    BY <1>6, <1>0 DEF TruncateClaim, Unreadable, FileDisciplined, Disciplined
  <2>3. ASSUME NEW q \in Sessions \ {s} PROVE Disciplined(q)'
    BY <1>6, <1>0, Alone DEF TruncateClaim, Unreadable, Disciplined
  <2>4. QED
    BY <2>1, <2>2, <2>3 DEF ClaimDiscipline
<1>7. ASSUME NEW s \in Sessions, ResolveWorkflow(s) PROVE ClaimDiscipline'
  <2>1. FileDisciplined'
    BY <1>7, <1>0 DEF ResolveWorkflow, FileDisciplined, Disciplined
  <2>2. Disciplined(s)'
    BY <1>7, <1>0 DEF ResolveWorkflow, FileDisciplined, Disciplined
  <2>3. ASSUME NEW q \in Sessions \ {s} PROVE Disciplined(q)'
    BY <1>7, <1>0, Alone DEF ResolveWorkflow, Disciplined
  <2>4. QED
    BY <2>1, <2>2, <2>3 DEF ClaimDiscipline
<1>8. ASSUME NEW s \in Sessions, DispatchAccepted(s) PROVE ClaimDiscipline'
  <2>1. FileDisciplined'
    <3>1. PICK head \in Heads : NewRun(s, head)
      BY <1>8 DEF DispatchAccepted
    <3>2. \A i \in DOMAIN runs' :
             \/ runs'[i].claimedAt = now[s]
             \/ i \in DOMAIN runs /\ runs'[i] = runs[i]
      <4>1. UNCHANGED zone
        BY <1>8 DEF DispatchAccepted
      <4> HIDE DEF TypeOK
      <4>2. QED
        BY <3>1, <4>1, NewRunKeeps
    <3>3. [by |-> s, at |-> now[s]] \in claims
      BY <1>8 DEF DispatchAccepted, Recorded
    <3>4. \A i \in DOMAIN runs' : \E c \in claims : c.at = runs'[i].claimedAt
      BY <1>0, <3>2, <3>3 DEF FileDisciplined
    <3>5. QED
      BY <1>8, <1>0, <3>4 DEF DispatchAccepted, FileDisciplined
  <2>2. Disciplined(s)'
    BY <1>8, <1>0 DEF DispatchAccepted, NewRun, FileDisciplined, Disciplined
  <2>3. ASSUME NEW q \in Sessions \ {s} PROVE Disciplined(q)'
    BY <1>8, <1>0, Alone DEF DispatchAccepted, NewRun, Disciplined
  <2>4. QED
    BY <2>1, <2>2, <2>3 DEF ClaimDiscipline
<1>9. ASSUME NEW s \in Sessions, DispatchUnheard(s) PROVE ClaimDiscipline'
  <2>1. FileDisciplined'
    <3>1. PICK head \in Heads : NewRun(s, head)
      BY <1>9 DEF DispatchUnheard
    <3>2. \A i \in DOMAIN runs' :
             \/ runs'[i].claimedAt = now[s]
             \/ i \in DOMAIN runs /\ runs'[i] = runs[i]
      <4>1. UNCHANGED zone
        BY <1>9 DEF DispatchUnheard
      <4> HIDE DEF TypeOK
      <4>2. QED
        BY <3>1, <4>1, NewRunKeeps
    <3>3. [by |-> s, at |-> now[s]] \in claims
      BY <1>9 DEF DispatchUnheard, Recorded
    <3>4. \A i \in DOMAIN runs' : \E c \in claims : c.at = runs'[i].claimedAt
      BY <1>0, <3>2, <3>3 DEF FileDisciplined
    <3>5. QED
      BY <1>9, <1>0, <3>4 DEF DispatchUnheard, Answer, FileDisciplined
  <2>2. Disciplined(s)'
    BY <1>9, <1>0 DEF DispatchUnheard, NewRun, Answer, FileDisciplined, Disciplined
  <2>3. ASSUME NEW q \in Sessions \ {s} PROVE Disciplined(q)'
    BY <1>9, <1>0, Alone DEF DispatchUnheard, NewRun, Answer, Disciplined
  <2>4. QED
    BY <2>1, <2>2, <2>3 DEF ClaimDiscipline
<1>10. ASSUME NEW s \in Sessions, ResolveRun(s) PROVE ClaimDiscipline'
  <2>1. FileDisciplined'
    BY <1>10, <1>0 DEF ResolveRun, FileDisciplined, Disciplined
  <2>2. Disciplined(s)'
    BY <1>10, <1>0 DEF ResolveRun, FileDisciplined, Disciplined
  <2>3. ASSUME NEW q \in Sessions \ {s} PROVE Disciplined(q)'
    BY <1>10, <1>0, Alone DEF ResolveRun, Disciplined
  <2>4. QED
    BY <2>1, <2>2, <2>3 DEF ClaimDiscipline
<1>11. ASSUME NEW s \in Sessions, TruncateFinal(s) PROVE ClaimDiscipline'
  <2>1. FileDisciplined'
    BY <1>11, <1>0 DEF TruncateFinal, Unreadable, FileDisciplined, Disciplined
  <2>2. Disciplined(s)'
    BY <1>11, <1>0 DEF TruncateFinal, Unreadable, FileDisciplined, Disciplined
  <2>3. ASSUME NEW q \in Sessions \ {s} PROVE Disciplined(q)'
    BY <1>11, <1>0, Alone DEF TruncateFinal, Unreadable, Disciplined
  <2>4. QED
    BY <2>1, <2>2, <2>3 DEF ClaimDiscipline
<1>12. ASSUME NEW s \in Sessions, WriteFinal(s) PROVE ClaimDiscipline'
  <2>1. FileDisciplined'
    <3>1. ledger'.form = "entry" /\ ledger'.claimedAt = now[s]
      BY <1>12, <1>0 DEF WriteFinal, WriteAtStart, Entry, Unreadable, Disciplined
    <3>2. ASSUME NEW c \in claims PROVE c.at <= now[s]
      <4> DEFINE mine == [by |-> s, at |-> now[s]]
      <4>1. mine \in claims
        BY <1>12 DEF WriteFinal, Recorded
      <4>2. clock - now[s] <= MaxRun /\ c.at <= clock
        BY <1>12 DEF WriteFinal, Clocks
      <4>3. mine.at = now[s]
        OBVIOUS
      <4>4. CASE c = mine
        BY <4>3, <4>4, EntryTyped
      <4>5. CASE c # mine
        <5>1. c.at - now[s] >= TTL \/ now[s] - c.at >= TTL
          BY <1>0, <4>1, <4>3, <4>5 DEF FileDisciplined
        <5>2. clock \in Nat
          OBVIOUS
        <5> HIDE DEF TypeOK, mine
        <5>3. QED
          BY <4>2, <5>1, <5>2, EntryTyped
      <4>6. QED
        BY <4>4, <4>5
    <3>3. "late_write" \notin breach'
      BY <1>12, <1>0 DEF WriteFinal, Unreadable, FileDisciplined, Disciplined
    <3>4. QED
      BY <1>12, <1>0, <3>1, <3>2, <3>3 DEF WriteFinal, Answer, FileDisciplined
  <2>2. Disciplined(s)'
    BY <1>12, <1>0 DEF WriteFinal, Answer, WriteAtStart, Entry, Unreadable, FileDisciplined, Disciplined
  <2>3. ASSUME NEW q \in Sessions \ {s} PROVE Disciplined(q)'
    BY <1>12, <1>0, Alone DEF WriteFinal, Answer, WriteAtStart, Entry, Unreadable, Disciplined
  <2>4. QED
    BY <2>1, <2>2, <2>3 DEF ClaimDiscipline
<1>13. ASSUME NEW s \in Sessions, Ends(s) PROVE ClaimDiscipline'
  <2>1. FileDisciplined'
    BY <1>13, <1>0 DEF Ends, Answer, FileDisciplined, Disciplined
  <2>2. Disciplined(s)'
    BY <1>13, <1>0 DEF Ends, Answer, FileDisciplined, Disciplined
  <2>3. ASSUME NEW q \in Sessions \ {s} PROVE Disciplined(q)'
    BY <1>13, <1>0, Alone DEF Ends, Answer, Disciplined
  <2>4. QED
    BY <2>1, <2>2, <2>3 DEF ClaimDiscipline
<1>14. ASSUME OtherRun PROVE ClaimDiscipline'
  BY <1>14, <1>0 DEF OtherRun, callVars, ClaimDiscipline, FileDisciplined, Disciplined
<1>15. ASSUME Tick PROVE ClaimDiscipline'
  BY <1>15, <1>0 DEF Tick, callVars, ClaimDiscipline, FileDisciplined, Disciplined
<1>16. ASSUME UNCHANGED vars PROVE ClaimDiscipline'
  BY <1>16, <1>0 DEF vars, callVars, ClaimDiscipline, FileDisciplined, Disciplined
<1>17. QED
  BY <1>1, <1>2, <1>3, <1>4, <1>5, <1>6, <1>7,
     <1>8, <1>9, <1>10, <1>11, <1>12, <1>13, <1>14, <1>15,
     <1>16, StepCases

(***************************************************************************)
(* The invariant, and what follows from it.                                *)
(***************************************************************************)

\* A dispatch adds a run under a claim that has no other, so the runs stay
\* spaced like the claims.
LEMMA SpacedStep ==
    ASSUME TypeOK, TypeOK', Recorded, ClaimDiscipline, RunsSpaced, [Next]_vars
    PROVE  RunsSpaced'
<1> SUFFICES ASSUME ~Raced' PROVE RunsSpaced'
  BY DEF RunsSpaced
<1>1. ~Raced
  BY Calm
<1>2. CASE UNCHANGED runs
  BY <1>1, <1>2 DEF RunsSpaced
<1>3. ASSUME NEW s \in Sessions, pc[s] = "dispatch", UNCHANGED zone,
             NEW head \in Heads, NewRun(s, head)
      PROVE  RunsSpaced'
  <2> DEFINE mine == [by |-> s, at |-> now[s]]
             Far(t, u) == t - u >= TTL \/ u - t >= TTL
  <2>1. mine \in claims /\ mine.at = now[s]
    BY <1>3 DEF Recorded, Holding
  <2>2. \A i \in DOMAIN runs : Far(runs[i].claimedAt, now[s])
    <3>1. SUFFICES ASSUME NEW i \in DOMAIN runs
                   PROVE  Far(runs[i].claimedAt, now[s])
      OBVIOUS
    <3>2. runs[i].claimedAt # now[s]
      BY <1>1, <1>3 DEF ClaimDiscipline, Disciplined
    <3>3. PICK c \in claims : c.at = runs[i].claimedAt
      BY <1>1 DEF ClaimDiscipline, FileDisciplined
    <3>4. c # mine
      BY <2>1, <3>2, <3>3
    <3>5. Far(c.at, mine.at)
      BY <1>1, <2>1, <3>4 DEF ClaimDiscipline, FileDisciplined
    <3>6. QED
      BY <2>1, <3>3, <3>5
  <2>3. \A i, j \in DOMAIN runs :
           i # j => Far(runs[i].claimedAt, runs[j].claimedAt)
    BY <1>1 DEF RunsSpaced
  <2>4. /\ \A i \in DOMAIN runs : runs'[i] = runs[i]
        /\ DOMAIN runs' = DOMAIN runs \cup {Len(runs) + 1}
        /\ runs'[Len(runs) + 1].claimedAt = now[s]
    BY <1>3, NewRunKeeps
  <2>5. ASSUME NEW i \in DOMAIN runs', NEW j \in DOMAIN runs', i # j
        PROVE  Far(runs'[i].claimedAt, runs'[j].claimedAt)
    <3>1. CASE i \in DOMAIN runs /\ j \in DOMAIN runs
      BY <2>3, <2>4, <2>5, <3>1
    <3>2. CASE i \in DOMAIN runs /\ j = Len(runs) + 1
      BY <2>2, <2>4, <3>2
    <3>3. CASE i = Len(runs) + 1 /\ j \in DOMAIN runs
      BY <2>2, <2>4, <3>3
    <3>4. QED
      BY <2>4, <2>5, <3>1, <3>2, <3>3
  <2>6. QED
    BY <2>5 DEF RunsSpaced
<1>4. \/ UNCHANGED runs
      \/ \E s \in Sessions : /\ pc[s] = "dispatch" /\ UNCHANGED zone
                             /\ \E head \in Heads :
                                   NewRun(s, head)
  BY StepCases DEF Begin, CreateLedger, WriteClaim, ClaimHeld, Supersede,
     TruncateClaim, ResolveWorkflow, DispatchAccepted, DispatchUnheard,
     ResolveRun, TruncateFinal, WriteFinal, Ends, OtherRun,
     Tick, vars
<1>5. QED
  BY <1>2, <1>3, <1>4

(***************************************************************************)
(* No entry names the run of an earlier claim.                             *)
(***************************************************************************)

\* Run id is not of this identity, or was dispatched under the claim of
\* time t.
OwnUnder(id, t) == id[1] = "own" => runs[id[2]].claimedAt = t

OwnRuns ==
    zone >= 0 /\ ~Raced =>
        /\ \A s \in Sessions :
              pc[s] \in {"reopen", "finish"} /\ resolved[s] # NoRun =>
                  OwnUnder(resolved[s], now[s])
        /\ ledger.form = "entry" /\ ledger.run # NoRun =>
              OwnUnder(ledger.run, ledger.claimedAt)

\* A run that is hardly older than a claim a session holds was dispatched
\* under it: the claims before ran out TTL earlier, and no dispatch lasts
\* longer than MaxRun.
LEMMA FollowingIsOwn ==
    ASSUME TypeOK, Clocks, Recorded, RunsFollow, ClaimDiscipline, ~Raced,
           zone >= 0, NEW s \in Sessions, Holding(s),
           NEW id, Follows(id, now[s])
    PROVE  OwnUnder(id, now[s])
<1> SUFFICES ASSUME id[1] = "own" PROVE runs[id[2]].claimedAt = now[s]
  BY DEF OwnUnder
<1> DEFINE mine == [by |-> s, at |-> now[s]]
           at == runs[id[2]].at
           from == runs[id[2]].claimedAt
<1>1. id[2] \in DOMAIN runs /\ at - zone >= now[s] - Slack
  BY DEF Follows, Created, Stamp, RunOf
<1>2. at \in Nat /\ from \in Nat /\ at - from <= MaxRun
  BY <1>1, RunsTyped DEF RunsFollow
<1>3. PICK c \in claims : c.at = from
  BY <1>1 DEF ClaimDiscipline, FileDisciplined
<1>4. mine \in claims /\ mine.at = now[s]
  BY DEF Recorded, Holding
<1>5. c = mine \/ from - now[s] >= TTL \/ now[s] - from >= TTL
  BY <1>3, <1>4 DEF ClaimDiscipline, FileDisciplined
<1>6. from <= clock /\ clock - now[s] <= MaxRun
  BY <1>3 DEF Clocks, Holding
<1>7. clock \in Nat /\ now[s] \in Nat /\ zone \in Int
  BY DEF TypeOK
<1>8. CASE c = mine
  BY <1>3, <1>4, <1>8
<1>9. CASE c # mine
  <2> HIDE DEF mine, at, from
  <2>1. TTL \in Nat /\ MaxRun \in Nat /\ Slack \in Nat /\ MaxRun + Slack < TTL
    BY LedgerAssumption
  <2>2. FALSE
    BY <1>1, <1>2, <1>5, <1>6, <1>7, <1>9, <2>1
  <2>3. QED
    BY <2>2
<1>10. QED
  BY <1>8, <1>9

\* Every step keeps the runs that are named the runs of their own claims.
LEMMA OwnRunsStep ==
    ASSUME TypeOK, Clocks, Recorded, RunsFollow, ClaimDiscipline, OwnRuns,
           [Next]_vars
    PROVE  OwnRuns'
<1> SUFFICES ASSUME zone' >= 0, ~Raced' PROVE OwnRuns'
  BY DEF OwnRuns
<1>1. zone >= 0 /\ ~Raced
  BY Calm, RunsGrow
<1>2. ASSUME NEW id, NEW t, id \in Created, OwnUnder(id, t)
      PROVE  id[1] = "own" => runs'[id[2]].claimedAt = t
  BY <1>2, RunsGrow DEF OwnUnder, Created
<1>3. ASSUME NEW q \in Sessions, pc'[q] \in {"reopen", "finish"},
             resolved'[q] # NoRun
      PROVE  OwnUnder(resolved[q], now[q])'
  <2>1. PICK id : id = resolved'[q]
    OBVIOUS
  <2>2. now'[q] = now[q]
    BY <1>3, LocalsStep
  <2>3. id \in Created /\ OwnUnder(id, now[q])
    <3>1. CASE resolved'[q] = resolved[q] /\ pc[q] \in {"reopen", "finish"}
      BY <1>1, <1>3, <2>1, <3>1 DEF OwnRuns, RunsFollow, Follows
    <3>2. CASE ResolveRun(q)
      <4>1. Follows(id, now[q])
        BY <1>3, <2>1, <3>2, ResolvedFollows
      <4>2. Holding(q)
        BY <3>2 DEF ResolveRun, Holding
      <4>3. QED
        BY <1>1, <4>1, <4>2, FollowingIsOwn DEF Follows
    <3>3. QED
      BY <1>3, <3>1, <3>2, LocalsStep
  <2>4. id[1] = "own" => runs'[id[2]].claimedAt = now[q]
    BY <1>2, <2>3
  <2>5. QED
    BY <2>1, <2>2, <2>4 DEF OwnUnder
<1>4. ASSUME ledger'.form = "entry", ledger'.run # NoRun
      PROVE  OwnUnder(ledger.run, ledger.claimedAt)'
  <2>1. PICK id, t : id = ledger'.run /\ t = ledger'.claimedAt
    OBVIOUS
  <2>2. id \in Created /\ OwnUnder(id, t)
    <3>1. CASE ledger' = ledger
      BY <1>1, <1>4, <2>1, <3>1 DEF OwnRuns, RunsFollow, Follows
    <3>2. ASSUME NEW s \in Sessions, id = resolved[s], t = now[s],
                 pc[s] = "finish"
          PROVE  id \in Created /\ OwnUnder(id, t)
      BY <1>1, <1>4, <2>1, <3>2 DEF OwnRuns, RunsFollow, Follows
    <3>3. QED
      BY <1>4, <2>1, <3>1, <3>2, EntryFrom
  <2>3. id[1] = "own" => runs'[id[2]].claimedAt = t
    BY <1>2, <2>2
  <2>4. QED
    BY <2>1, <2>3 DEF OwnUnder
<1>5. QED
  BY <1>3, <1>4 DEF OwnRuns

IInv == /\ TypeOK /\ Clocks /\ Recorded /\ RunsFollow
        /\ ClaimDiscipline /\ RunsSpaced /\ OwnRuns

\* The invariant is inductive.
THEOREM Inductive == Spec => []IInv
<1>1. Init => IInv
  <2> SUFFICES ASSUME Init PROVE IInv
    OBVIOUS
  <2> USE LedgerAssumption DEF Init, Unreadable
  <2>1. TypeOK
    BY TypeInit
  <2>2. Clocks /\ Recorded /\ RunsFollow /\ OwnRuns
    BY DEF Clocks, Recorded, RunsFollow, OwnRuns, Holding, HeldMeansRecentClaim
  <2>3. ClaimDiscipline
    BY DEF ClaimDiscipline, FileDisciplined, Disciplined, Holding,
       Superseding
  <2>4. RunsSpaced
    BY DEF RunsSpaced
  <2>5. QED
    BY <2>1, <2>2, <2>3, <2>4 DEF IInv
<1>2. IInv /\ [Next]_vars => IInv'
  <2> SUFFICES ASSUME IInv, [Next]_vars PROVE IInv'
    OBVIOUS
  <2>1. TypeOK'
    BY TypeStep DEF IInv
  <2>2. Clocks' /\ RunsFollow'
    BY <2>1, ClocksStep, RunsFollowStep DEF IInv
  <2>3. Recorded'
    BY <2>1, RecordedStep DEF IInv
  <2>4. ClaimDiscipline'
    BY <2>1, <2>2, <2>3, DisciplineStep DEF IInv
  <2>5. RunsSpaced'
    BY <2>1, SpacedStep DEF IInv
  <2>6. OwnRuns'
    BY OwnRunsStep DEF IInv
  <2>7. QED
    BY <2>1, <2>2, <2>3, <2>4, <2>5, <2>6 DEF IInv
<1>3. QED
  BY <1>1, <1>2, PTL DEF Spec

\* While no window is hit, at most one session is past claiming, it alone
\* touches the file, and it finds its own claim there.
THEOREM DisciplineHolds == Spec => []ClaimDiscipline
<1>1. IInv => ClaimDiscipline
  BY DEF IInv
<1>2. QED
  BY <1>1, Inductive, PTL

\* Claim-once: any two runs of a dispatch identity were dispatched under
\* claims at least LEDGER_TTL_SECONDS apart, unless one of the two unlocked
\* windows of _claim_ledger was hit.
THEOREM ClaimsSpaceRuns == Spec => []RunsSpaced
<1>1. IInv => RunsSpaced
  BY DEF IInv
<1>2. QED
  BY <1>1, Inductive, PTL

\* The closing write of cmd_dispatch never replaces a successor's claim
\* unless the claim itself had been raced.
THEOREM LateWritesAreRaces == Spec => []LateWriteOnlyAfterRace
<1>1. IInv => LateWriteOnlyAfterRace
  BY DEF IInv, ClaimDiscipline, FileDisciplined, LateWriteOnlyAfterRace
<1>2. QED
  BY <1>1, Inductive, PTL

\* claim_held is answered only while a claim really written is younger than
\* the TTL, through races, crashes and failed dispatches.
THEOREM HeldIsRecent == Spec => []HeldMeansRecentClaim
<1>1. IInv => HeldMeansRecentClaim
  BY DEF IInv, Recorded
<1>2. QED
  BY <1>1, Inductive, PTL

\* On a machine at or east of UTC the run an entry names is at most Slack
\* older than the claim it records, and unless a window was hit it is the run
\* of that claim or one somebody else started.
THEOREM EntryNamesItsRun == Spec => []RecordedRunFollowsClaim
<1>1. ASSUME IInv PROVE RecordedRunFollowsClaim
  <2> SUFFICES ASSUME zone >= 0, ledger.form = "entry", ledger.run # NoRun
               PROVE  /\ ledger.run \in Created
                      /\ RunOf(ledger.run).at >= ledger.claimedAt - Slack
                      /\ ~Raced /\ ledger.run[1] = "own" =>
                            runs[ledger.run[2]].claimedAt = ledger.claimedAt
    BY DEF RecordedRunFollowsClaim
  <2>1. Follows(ledger.run, ledger.claimedAt)
    BY <1>1 DEF IInv, RunsFollow
  <2>2. ledger.run \in Created
    BY <2>1 DEF Follows
  <2>3. RunOf(ledger.run).at \in Nat /\ ledger.claimedAt \in Nat /\ zone \in Int
    BY <1>1, <2>2, CreatedTyped, EntryTyped DEF IInv, TypeOK
  <2>4. RunOf(ledger.run).at - zone >= ledger.claimedAt - Slack
    BY <2>1 DEF Follows, Stamp
  <2>5. RunOf(ledger.run).at >= ledger.claimedAt - Slack
    BY <2>3, <2>4, LedgerAssumption
  <2>6. ~Raced /\ ledger.run[1] = "own" =>
           runs[ledger.run[2]].claimedAt = ledger.claimedAt
    BY <1>1 DEF IInv, OwnRuns, OwnUnder
  <2>7. QED
    BY <2>2, <2>5, <2>6
<1>2. QED
  BY <1>1, Inductive, PTL

(***************************************************************************)
(* The ledger implements the lease.                                        *)
(***************************************************************************)

\* A dispatch appends the time of its claim to the launches.
LEMMA LaunchAppends ==
    ASSUME TypeOK, NEW s \in Sessions,
           NEW head \in Heads, NewRun(s, head)
    PROVE  [i \in DOMAIN runs' |-> runs'[i].claimedAt]
               = Append([i \in DOMAIN runs |-> runs[i].claimedAt], now[s])
<1> DEFINE run == [claimedAt |-> now[s], at |-> clock, head |-> head]
           times == [i \in DOMAIN runs |-> runs[i].claimedAt]
<1>1. runs \in Seq(RunRecords) /\ run \in RunRecords /\ now[s] \in Nat
  BY DEF TypeOK, RunRecords
<1>2. times \in Seq(Nat) /\ Len(times) = Len(runs)
  <2>1. DOMAIN runs = 1 .. Len(runs) /\ Len(runs) \in Nat
    BY <1>1
  <2>2. \A i \in DOMAIN runs : runs[i].claimedAt \in Nat
    BY RunsTyped
  <2>3. times \in [1 .. Len(runs) -> Nat]
    BY <2>1, <2>2
  <2>4. QED
    BY <2>1, <2>3
<1>3. /\ runs' = Append(runs, run) /\ DOMAIN runs' = 1 .. Len(runs) + 1
      /\ \A i \in 1 .. Len(runs) : runs'[i] = runs[i]
      /\ runs'[Len(runs) + 1] = run
  BY <1>1 DEF NewRun
<1>4. /\ Append(times, now[s]) \in Seq(Nat)
      /\ DOMAIN Append(times, now[s]) = 1 .. Len(runs) + 1
      /\ \A i \in 1 .. Len(runs) : Append(times, now[s])[i] = times[i]
      /\ Append(times, now[s])[Len(runs) + 1] = now[s]
  <2>1. now[s] \in Nat
    BY <1>1
  <2> HIDE DEF times
  <2>2. QED
    BY <1>2, <2>1
<1> DEFINE new == [i \in DOMAIN runs' |-> runs'[i].claimedAt]
<1>5. \A i \in 1 .. Len(runs) + 1 : new[i] = Append(times, now[s])[i]
  BY <1>1, <1>3, <1>4
<1>6. QED
  BY <1>3, <1>4, <1>5

\* Every step of the ledger is a step of the lease, or none.
LEMMA LeaseStep ==
    ASSUME IInv, [Next]_vars
    PROVE  [Grants!LeaseNext]_(Grants!leaseVars)
<1> SUFFICES ASSUME ~Raced' PROVE [Grants!LeaseNext]_(Grants!leaseVars)
  BY DEF Grants!LeaseNext, Grants!Lose
<1>1. ~Raced
  BY StepCases DEF Raced, Begin, CreateLedger, WriteClaim, ClaimHeld,
     Supersede, TruncateClaim, ResolveWorkflow, DispatchAccepted,
     DispatchUnheard, ResolveRun, TruncateFinal, WriteFinal, Ends, OtherRun,
     Tick, vars
<1>2. CASE UNCHANGED <<claims, runs>>
  <2>1. Raced' = Raced
    BY <1>1 DEF Raced
  <2>2. QED
    BY <1>2, <2>1 DEF Grants!leaseVars
<1>3. ASSUME NEW s \in Sessions, WriteClaim(s)
      PROVE  Grants!LeaseNext
  <2> DEFINE mine == [by |-> s, at |-> now[s]]
  <2>1. claims' = claims \cup {mine} /\ UNCHANGED runs
    BY <1>3 DEF WriteClaim
  <2>2. Disciplined(s)
    BY <1>1 DEF IInv, ClaimDiscipline
  <2>3. \A c \in claims : mine.at - c.at >= TTL
    BY <1>3, <2>2 DEF WriteClaim, Disciplined, Superseding
  <2>4. Raced' = Raced
    BY <1>1 DEF Raced
  <2>5. mine \in claims'
    BY <2>1
  <2>6. Grants!Grant(mine)
    BY <1>1, <2>1, <2>3, <2>4 DEF Grants!Grant
  <2>7. QED
    BY <2>5, <2>6 DEF Grants!LeaseNext
<1>4. ASSUME NEW s \in Sessions, pc[s] = "dispatch", UNCHANGED claims,
             NEW head \in Heads, NewRun(s, head)
      PROVE  Grants!LeaseNext
  <2>1. PICK mine \in claims : mine.at = now[s]
    BY <1>4 DEF IInv, Recorded, Holding
  <2>2. Disciplined(s)
    BY <1>1 DEF IInv, ClaimDiscipline
  <2>3. \A i \in DOMAIN runs : runs[i].claimedAt # mine.at
    BY <1>4, <2>1, <2>2 DEF Disciplined
  <2>4. [i \in DOMAIN runs' |-> runs'[i].claimedAt]
            = Append([i \in DOMAIN runs |-> runs[i].claimedAt], mine.at)
    BY <1>4, <2>1, LaunchAppends DEF IInv
  <2>5. Raced' = Raced
    BY <1>1 DEF Raced
  <2>6. Grants!Launch(mine)
    BY <1>1, <1>4, <2>3, <2>4, <2>5 DEF Grants!Launch
  <2>7. QED
    BY <2>6 DEF Grants!LeaseNext
<1>5. \/ UNCHANGED <<claims, runs>>
      \/ \E s \in Sessions : WriteClaim(s)
      \/ \E s \in Sessions : /\ pc[s] = "dispatch" /\ UNCHANGED claims
                             /\ \E head \in Heads :
                                   NewRun(s, head)
  BY StepCases DEF Begin, CreateLedger, ClaimHeld, Supersede, TruncateClaim,
     ResolveWorkflow, DispatchAccepted, DispatchUnheard, ResolveRun,
     TruncateFinal, WriteFinal, Ends, OtherRun,
     Tick, vars
<1>6. QED
  BY <1>2, <1>3, <1>4, <1>5

\* The ledger file is a lease: in every behaviour of the sessions, whatever
\* fails, a claim is written only when the last one ran out and no claim
\* dispatches twice, until one of the two unlocked windows is hit.
THEOREM LedgerIsLease == Spec => ImplementsLease
<1>1. Init => Grants!LeaseInit
  BY DEF Init, Grants!LeaseInit, Raced
<1>2. IInv /\ [Next]_vars => [Grants!LeaseNext]_(Grants!leaseVars)
  BY LeaseStep
<1>3. QED
  BY <1>1, <1>2, Inductive, PTL DEF Spec, ImplementsLease, Grants!LeaseSpec
=============================================================================
