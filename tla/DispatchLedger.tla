--------------------------- MODULE DispatchLedger ---------------------------
(***************************************************************************)
(* The claim-gated dispatch of bin/mncs-actions-remote: several sessions   *)
(* on one machine run cmd_dispatch for ONE dispatch identity (repository,  *)
(* workflow, sha, inputs), hence for one ledger file.  Every system call   *)
(* on that file is a step of its own, because no lock protects it.         *)
(*                                                                         *)
(* Time is counted in ticks: LEDGER_TTL_SECONDS is TTL of them and the     *)
(* five seconds _resolve_run grants an older run are Slack.  The clock     *)
(* starts at TTL, so that a file without a readable claimed_at, which the  *)
(* code reads as claimed at epoch 0, is always expired.                    *)
(***************************************************************************)
EXTENDS Integers, Sequences, FiniteSets

CONSTANTS
    Sessions,      \* sessions that may call dispatch for this identity
    NoSession,     \* the session of a file that holds no readable entry
    TTL,           \* LEDGER_TTL_SECONDS, in ticks
    MaxRun,        \* the ticks one invocation may last: the sum of its gh
                   \* timeouts, some 400 seconds of LEDGER_TTL_SECONDS' 1800
    Slack,         \* how much older than the dispatch a run may be and still
                   \* be taken for its run: 5 seconds
    Zones,         \* possible UTC offsets of the machine, in ticks
    Heads,         \* the commits the ref may name when a run is created: the
                   \* measured one, or one it has advanced to
    ApiLag,        \* may the run listing fail, or not show a new run yet?
    MaxTime,       \* bound: the last tick
    MaxCalls,      \* bound: dispatch invocations altogether
    MaxOthers      \* bound: runs of the workflow somebody else starts

ASSUME LedgerAssumption ==
    /\ NoSession \notin Sessions
    /\ TTL \in Nat \ {0}
    /\ MaxRun \in Nat
    /\ Slack \in Nat
    /\ MaxRun + Slack < TTL
    /\ Zones \subseteq Int
    /\ Heads \subseteq {"measured", "advanced"}
    /\ ApiLag \in BOOLEAN
    /\ MaxTime \in Nat
    /\ MaxCalls \in Nat
    /\ MaxOthers \in Nat

VARIABLES
    ledger,      \* the ledger file of the identity
    pc,          \* pc[s]: where the invocation of session s stands
    now,         \* now[s]: time.time() as _claim_ledger read it
    since,       \* since[s]: time.time() just before the dispatch
    resolved,    \* resolved[s]: the run _resolve_run returned, or NoRun
    calls,       \* invocations begun, for the bound
    runs,        \* the runs GitHub has created for this identity (external)
    others,      \* the other runs of the workflow: another identity's, a
                 \* person's (external)
    zone,        \* the UTC offset of the machine
    clock,       \* wall clock of the machine
    claims,      \* history: the claims written to the ledger
    breach       \* history: the windows in which exclusion was lost

callVars == <<pc, now, since, resolved, calls>>
vars == <<ledger, callVars, runs, others, zone, clock, claims, breach>>

-----------------------------------------------------------------------------
(* Run identities: a run of this identity, another one, or none.           *)

RunIds == {"none", "own", "other"} \X Nat

NoRun == <<"none", 0>>

Created == ({"own"} \X DOMAIN runs) \cup ({"other"} \X DOMAIN others)

RunOf(id) == IF id[1] = "own" THEN runs[id[2]] ELSE others[id[2]]

-----------------------------------------------------------------------------
(* The ledger file.                                                        *)

\* A file whose bytes decode to no claim: missing, just created or
\* truncated, or two overlaid writes.
Unreadable(form) ==
    [form |-> form, session |-> NoSession, claimedAt |-> 0,
     state |-> "claimed", run |-> NoRun]

Entry(s, at, state, run) ==
    [form |-> "entry", session |-> s, claimedAt |-> at,
     state |-> state, run |-> run]

\* An entry names a run only once it says that the dispatch was made.
LedgerFiles ==
    {Unreadable(f) : f \in {"absent", "empty", "garbled"}}
        \cup [form : {"entry"}, session : Sessions, claimedAt : Nat,
              state : {"claimed"}, run : {NoRun}]
        \cup [form : {"entry"}, session : Sessions, claimedAt : Nat,
              state : {"dispatched"}, run : RunIds]

\* Writing at offset 0 of a file that was truncated (or created) before.  If
\* somebody filled it in between, a shorter entry leaves the tail of a longer
\* one behind, and the bytes are no JSON document any more.
WriteAtStart(entry) ==
    /\ ledger' \in {entry} \cup (IF ledger.form = "empty" THEN {}
                                 ELSE {Unreadable("garbled")})

\* A bug to tell apart: a claim counts as live only while a dispatch may last.
LiveWhileRunning(s) == now[s] - ledger.claimedAt < MaxRun

\* now - claimed_at < LEDGER_TTL_SECONDS, with claimed_at 0 when unreadable.
Live(s) == now[s] - ledger.claimedAt < TTL

\* Sessions that have decided to supersede but have not written yet.
Superseding(q) == pc[q] \in {"truncate", "overwrite"}

-----------------------------------------------------------------------------
Init ==
    /\ ledger = Unreadable("absent")
    /\ pc = [s \in Sessions |-> "idle"]
    /\ now = [s \in Sessions |-> TTL]
    /\ since = [s \in Sessions |-> TTL]
    /\ resolved = [s \in Sessions |-> NoRun]
    /\ calls = 0
    /\ runs = << >>
    /\ others = << >>
    /\ zone \in Zones
    /\ clock = TTL
    /\ claims = {}
    /\ breach = {}

Goto(s, label) == pc' = [pc EXCEPT ![s] = label]

\* The invocation prints its envelope and ends, and its locals go with it.
Answer(s) ==
    /\ Goto(s, "idle")
    /\ now' = [now EXCEPT ![s] = TTL]
    /\ since' = [since EXCEPT ![s] = TTL]
    /\ resolved' = [resolved EXCEPT ![s] = NoRun]
    /\ UNCHANGED calls

\* cmd_dispatch computes the identity; _claim_ledger makes the directory and
\* reads the clock, before it looks at the file.
Begin(s) ==
    /\ pc[s] = "idle"
    /\ calls < MaxCalls
    /\ Goto(s, "claim")
    /\ now' = [now EXCEPT ![s] = clock]
    /\ calls' = calls + 1
    /\ UNCHANGED <<ledger, since, resolved, runs, others, zone, clock, claims, breach>>

\* os.open(O_CREAT | O_EXCL) succeeds: the file now exists, and is empty.
CreateLedger(s) ==
    /\ pc[s] = "claim"
    /\ ledger.form = "absent"
    /\ ledger' = Unreadable("empty")
    /\ Goto(s, "fill")
    /\ UNCHANGED <<now, since, resolved, calls, runs, others, zone, clock,
                   claims, breach>>

\* The claim is on disk: the record is written through the open descriptor
\* (fill) or by write_text after it truncated the file (overwrite).
WriteClaim(s) ==
    /\ pc[s] \in {"fill", "overwrite"}
    /\ WriteAtStart(Entry(s, now[s], "claimed", NoRun))
    /\ claims' = claims \cup {[by |-> s, at |-> now[s]]}
    /\ Goto(s, "claimed")
    /\ UNCHANGED <<now, since, resolved, calls, runs, others, zone, clock,
                   breach>>

\* FileExistsError, and the entry that is read is younger than the TTL.
ClaimHeld(s) ==
    /\ pc[s] = "claim"
    /\ ledger.form # "absent"
    /\ Live(s)
    /\ Goto(s, "held")
    /\ UNCHANGED <<ledger, now, since, resolved, calls, runs, others, zone, clock,
                   claims, breach>>

\* The caller is told claim_held.
ReportHeld(s) ==
    /\ pc[s] = "held"
    /\ Answer(s)
    /\ UNCHANGED <<ledger, runs, others, zone, clock, claims, breach>>

\* FileExistsError, and the entry is expired or cannot be decoded.  The two
\* windows in which another session may be doing the same are recorded.
Supersede(s) ==
    /\ pc[s] = "claim"
    /\ ledger.form # "absent"
    /\ ~Live(s)
    /\ Goto(s, "truncate")
    /\ breach' = breach
         \cup (IF ledger.form = "entry" THEN {} ELSE {"blind_read"})
         \cup (IF \E q \in Sessions \ {s} : Superseding(q)
               THEN {"both_expired"} ELSE {})
    /\ UNCHANGED <<ledger, now, since, resolved, calls, runs, others, zone,
                   clock, claims>>

\* write_text opens the file for writing, which empties it.
TruncateClaim(s) ==
    /\ pc[s] = "truncate"
    /\ ledger' = Unreadable("empty")
    /\ Goto(s, "overwrite")
    /\ UNCHANGED <<now, since, resolved, calls, runs, others, zone, clock,
                   claims, breach>>

\* An OSError while the claim is made: "ledger unavailable".  Whatever was
\* created or truncated stays as it is.
LedgerUnavailable(s) ==
    /\ pc[s] \in {"claim", "fill", "truncate", "overwrite"}
    /\ Answer(s)
    /\ UNCHANGED <<ledger, runs, others, zone, clock,
                   claims, breach>>

-----------------------------------------------------------------------------
(* The dispatch under the claim.                                           *)

\* since = time.time(), then _resolve_workflow finds the workflow id.
ResolveWorkflow(s) ==
    /\ pc[s] = "claimed"
    /\ since' = [since EXCEPT ![s] = clock]
    /\ Goto(s, "dispatch")
    /\ UNCHANGED <<ledger, now, resolved, calls, runs, others, zone, clock,
                   claims, breach>>

\* The workflow cannot be resolved, the inputs are no JSON object, or gh
\* refuses the dispatch: an early return that leaves the claim in place.
DispatchRefused(s) ==
    /\ pc[s] \in {"claimed", "dispatch"}
    /\ Answer(s)
    /\ UNCHANGED <<ledger, runs, others, zone, clock,
                   claims, breach>>

\* GitHub creates the run, at the commit the ref names by now: the measured
\* one or, if the ref advanced meanwhile, another.
NewRun(s, head) ==
    runs' = Append(runs, [claimedAt |-> now[s], at |-> clock, head |-> head])

DispatchAccepted(s) ==
    /\ pc[s] = "dispatch"
    /\ \E head \in Heads : NewRun(s, head)
    /\ Goto(s, "resolve")
    /\ UNCHANGED <<ledger, now, since, resolved, calls, others, zone, clock,
                   claims, breach>>

\* A bug to tell apart: a dispatch that failed gives its claim back.
UnheardReleases(s) ==
    /\ pc[s] = "dispatch"
    /\ \E head \in Heads : NewRun(s, head)
    /\ ledger' = Unreadable("absent")
    /\ Answer(s)
    /\ UNCHANGED <<others, zone, clock, claims, breach>>

\* gh is killed by its timeout (or loses the connection) after GitHub took
\* the request: the answer is dispatch_failed although the run exists.
DispatchUnheard(s) ==
    /\ pc[s] = "dispatch"
    /\ \E head \in Heads : NewRun(s, head)
    /\ Answer(s)
    /\ UNCHANGED <<ledger, others, zone, clock,
                   claims, breach>>

\* time.mktime reads the UTC created_at of a run as local time.
Stamp(id) == RunOf(id).at - zone

\* Run id is one of the newest of ids by created_at, or NoRun when there is
\* none.
Newest(id, ids) ==
    \/ id = NoRun /\ ids = {}
    \/ id \in ids /\ \A other \in ids : RunOf(other).at <= RunOf(id).at

\* The runs _api_runs lists: those at the measured sha and, only if that
\* query failed, all of them.
Listed(seen, filtered) ==
    {id \in seen : filtered => RunOf(id).head = "measured"}

\* A bug to tell apart: the newest listed run is taken, however old.
ResolveAnyRun(s) ==
    /\ pc[s] = "resolve"
    /\ \E seen \in SUBSET Created, id \in Created \cup {NoRun} :
          /\ Newest(id, Listed(seen, TRUE))
          /\ resolved' = [resolved EXCEPT ![s] = id]
    /\ Goto(s, "reopen")
    /\ UNCHANGED <<ledger, now, since, calls, runs, others, zone, clock,
                   claims, breach>>

\* _resolve_run returns the newest listed run that is recent enough, whoever
\* started it.
ResolveRun(s) ==
    /\ pc[s] = "resolve"
    /\ \E seen \in (IF ApiLag THEN SUBSET Created ELSE {Created}),
          filtered \in (IF ApiLag THEN BOOLEAN ELSE {TRUE}) :
       \E id \in Created \cup {NoRun} :
          /\ Newest(id, {other \in Listed(seen, filtered) :
                            Stamp(other) >= since[s] - Slack})
          /\ resolved' = [resolved EXCEPT ![s] = id]
    /\ Goto(s, "reopen")
    /\ UNCHANGED <<ledger, now, since, calls, runs, others, zone, clock,
                   claims, breach>>

\* The closing write_text truncates whatever the file holds ...
TruncateFinal(s) ==
    /\ pc[s] = "reopen"
    /\ ledger' = Unreadable("empty")
    /\ Goto(s, "finish")
    /\ breach' = breach \cup
         (IF ledger = Entry(s, now[s], "claimed", NoRun) THEN {} ELSE {"late_write"})
    /\ UNCHANGED <<now, since, resolved, calls, runs, others, zone, clock,
                   claims>>

\* A bug to tell apart: the closing write renews the claim.
WriteFinalRenews(s) ==
    /\ pc[s] = "finish"
    /\ WriteAtStart(Entry(s, clock, "dispatched", resolved[s]))
    /\ Answer(s)
    /\ breach' = breach \cup
         (IF ledger.form = "empty" THEN {} ELSE {"late_write"})
    /\ UNCHANGED <<runs, others, zone, clock, claims>>

\* A bug to tell apart: the record still says "claimed" when it names its run.
WriteFinalAsClaimed(s) ==
    /\ pc[s] = "finish"
    /\ WriteAtStart(Entry(s, now[s], "claimed", resolved[s]))
    /\ Answer(s)
    /\ breach' = breach \cup
         (IF ledger.form = "empty" THEN {} ELSE {"late_write"})
    /\ UNCHANGED <<runs, others, zone, clock, claims>>

\* ... and writes the session's own record, with its original claimed_at.
WriteFinal(s) ==
    /\ pc[s] = "finish"
    /\ WriteAtStart(Entry(s, now[s], "dispatched", resolved[s]))
    /\ Answer(s)
    /\ breach' = breach \cup
         (IF ledger.form = "empty" THEN {} ELSE {"late_write"})
    /\ UNCHANGED <<runs, others, zone, clock, claims>>

\* An OSError of the closing write is ignored.
FinalWriteFails(s) ==
    /\ pc[s] \in {"reopen", "finish"}
    /\ Answer(s)
    /\ UNCHANGED <<ledger, runs, others, zone, clock,
                   claims, breach>>

-----------------------------------------------------------------------------
\* The process is killed; the file stays as the last system call left it.
Crash(s) ==
    /\ pc[s] # "idle"
    /\ Answer(s)
    /\ UNCHANGED <<ledger, runs, others, zone, clock,
                   claims, breach>>

\* Somebody else starts the workflow: another identity (other inputs, the same
\* ref), or a person.
OtherRun ==
    /\ Len(others) < MaxOthers
    /\ \E head \in Heads :
          others' = Append(others, [at |-> clock, head |-> head])
    /\ UNCHANGED <<ledger, callVars, runs, zone, clock, claims, breach>>

\* Time passes, but no invocation outlives its timeouts.
Tick ==
    /\ clock < MaxTime
    /\ \A s \in Sessions : pc[s] # "idle" => clock - now[s] < MaxRun
    /\ clock' = clock + 1
    /\ UNCHANGED <<ledger, callVars, runs, others, zone, claims, breach>>

\* One step of an invocation that is under way.
Step(s) ==
    \/ CreateLedger(s)
    \/ WriteClaim(s)
    \/ ClaimHeld(s)
    \/ ReportHeld(s)
    \/ Supersede(s)
    \/ TruncateClaim(s)
    \/ LedgerUnavailable(s)
    \/ ResolveWorkflow(s)
    \/ DispatchRefused(s)
    \/ DispatchAccepted(s)
    \/ DispatchUnheard(s)
    \/ ResolveRun(s)
    \/ TruncateFinal(s)
    \/ WriteFinal(s)
    \/ FinalWriteFails(s)

Next ==
    \/ \E s \in Sessions : Begin(s) \/ Step(s) \/ Crash(s)
    \/ OtherRun
    \/ Tick

Spec == Init /\ [][Next]_vars

-----------------------------------------------------------------------------
(* Properties                                                              *)

Labels == {"idle", "claim", "fill", "truncate", "overwrite", "claimed",
           "dispatch", "resolve", "reopen", "finish", "held"}

Breaches == {"blind_read", "both_expired", "late_write"}

RunRecords == [claimedAt : Nat, at : Nat, head : Heads]

OtherRecords == [at : Nat, head : Heads]

\* Every variable has its type.
TypeOK ==
    /\ ledger \in LedgerFiles
    /\ pc \in [Sessions -> Labels]
    /\ now \in [Sessions -> Nat]
    /\ since \in [Sessions -> Nat]
    /\ resolved \in [Sessions -> RunIds]
    /\ calls \in Nat
    /\ runs \in Seq(RunRecords)
    /\ others \in Seq(OtherRecords)
    /\ zone \in Int
    /\ clock \in Nat
    /\ claims \subseteq [by : Sessions, at : Nat]
    /\ breach \subseteq Breaches

\* One of the two unlocked windows was hit: a claim was read while it was
\* being written, or two sessions superseded the same expired claim.
Raced == breach \cap {"blind_read", "both_expired"} # {}

\* The sessions that hold a claim they have written.
Holding(s) == pc[s] \in {"claimed", "dispatch", "resolve", "reopen", "finish"}

\* The claims are spaced, the file shows the latest one, and every run was
\* dispatched under one of them.
FileDisciplined ==
    /\ "late_write" \notin breach
    /\ \A c, d \in claims : c # d => c.at - d.at >= TTL \/ d.at - c.at >= TTL
    /\ ledger.form # "garbled"
    /\ ledger.form = "absent" =>
          claims = {} /\ \A q \in Sessions : pc[q] \in {"idle", "claim"}
    /\ ledger.form = "entry" => \A c \in claims : c.at <= ledger.claimedAt
    /\ \A i \in DOMAIN runs : \E c \in claims : c.at = runs[i].claimedAt

\* Session s makes the first claim only when there is none, supersedes only
\* expired claims and alone, finds its own claim in the file until it is
\* done with it, and dispatches once under it.
Disciplined(s) ==
    /\ pc[s] = "fill" =>
          /\ ledger = Unreadable("empty") /\ claims = {}
          /\ \A q \in Sessions \ {s} : pc[q] \in {"idle", "claim"}
    /\ pc[s] = "truncate" => ledger.form = "entry"
    /\ pc[s] = "overwrite" => ledger = Unreadable("empty")
    /\ Superseding(s) =>
          /\ \A c \in claims : now[s] - c.at >= TTL
          /\ \A q \in Sessions \ {s} : ~Superseding(q)
    /\ Holding(s) => ledger = IF pc[s] = "finish" THEN Unreadable("empty")
                              ELSE Entry(s, now[s], "claimed", NoRun)
    /\ pc[s] \in {"claimed", "dispatch"} =>
          \A i \in DOMAIN runs : runs[i].claimedAt # now[s]

\* What the single ledger file achieves while no window was hit, and why the
\* runs are spaced: at most one session is past claiming or superseding, it
\* alone touches the file, and every run has a claim of its own.
ClaimDiscipline ==
    ~Raced => FileDisciplined /\ \A s \in Sessions : Disciplined(s)

\* Claim-once, as far as the code provides it: unless one of the unlocked
\* windows was hit, the claims under which any two runs of the identity were
\* dispatched are at least LEDGER_TTL_SECONDS apart, through failures, lost
\* answers and crashes.
RunsSpaced ==
    ~Raced =>
        \A i, j \in DOMAIN runs :
            i # j => \/ runs[i].claimedAt - runs[j].claimedAt >= TTL
                     \/ runs[j].claimedAt - runs[i].claimedAt >= TTL

\* The closing write replaces a successor's claim only if the claim itself
\* had been raced: an invocation is over before its claim can expire.
LateWriteOnlyAfterRace == "late_write" \in breach => Raced

\* The ledger is a lease as long as no window was hit: a claim is a grant, a
\* run is a launch under it, and once a claim was raced the lease is lost.
Grants == INSTANCE Lease WITH
    grants <- claims,
    launched <- [i \in DOMAIN runs |-> runs[i].claimedAt],
    lost <- Raced

\* Every step of the code - failures, lost answers, crashes and late writes
\* among them - is a step of the lease or leaves it alone: a claim is only
\* granted when the last one ran out, and no claim dispatches twice.
ImplementsLease == Grants!LeaseSpec

\* An invocation is told claim_held only while somebody's claim, really
\* written, is younger than the TTL: neither a crash nor a failed dispatch
\* nor the closing write blocks the identity for longer.
HeldMeansRecentClaim ==
    \A s \in Sessions :
        pc[s] = "held" => \E c \in claims : now[s] - c.at < TTL

\* On a machine at or east of UTC the run an entry names is at most Slack
\* older than the claim the entry records; and while no window was hit it is
\* never the run of an earlier dispatch of the same identity, although a claim
\* is superseded while that run may still be listed: it is the run of this
\* very claim, or one somebody else started.
RecordedRunFollowsClaim ==
    zone >= 0 /\ ledger.form = "entry" /\ ledger.run # NoRun =>
        /\ ledger.run \in Created
        /\ RunOf(ledger.run).at >= ledger.claimedAt - Slack
        /\ ~Raced /\ ledger.run[1] = "own" =>
              runs[ledger.run[2]].claimedAt = ledger.claimedAt
=============================================================================
