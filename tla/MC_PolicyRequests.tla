------------------------- MODULE MC_PolicyRequests -------------------------
(***************************************************************************)
(* The requests TLC enumerates: every projection of one obligation, and    *)
(* requests of up to three obligations taken from a set of typical ones    *)
(* under every budget that matters.                                        *)
(***************************************************************************)
EXTENDS PolicyRequests

Empty == [obligation |-> "", subject_digest |-> 0, run_identity |-> 0,
          verdict |-> "none", claim |-> "none", complete |-> FALSE]
NoRun == [run_identity |-> 0, subject_digest |-> 0, state |-> "none",
          conclusion |-> "none"]

\* Evidence and runs for obligation "a" at subject 1, and for others.
AnyEvidence == [obligation : {"a", "b"}, subject_digest : {1, 2},
                run_identity : {7}, verdict : {"passed"},
                claim : Claims, complete : BOOLEAN]
AnyRun == [run_identity : {8}, subject_digest : {1, 2}, state : RunStates,
           conclusion : Conclusions]

Single ==
    {[obligation |-> "a", routable_kind |-> k, has_workflow_binding |-> b,
      explicit_only |-> x, subject_state |-> s, subject_digest |-> 1,
      remote_available |-> r, attempts_exhausted |-> t,
      evidence_present |-> e # Empty, evidence |-> e,
      run_present |-> u # NoRun, run |-> u] :
        k \in BOOLEAN, b \in BOOLEAN, x \in BOOLEAN, s \in SubjectStates,
        r \in BOOLEAN, t \in BOOLEAN, e \in AnyEvidence \cup {Empty},
        u \in AnyRun \cup {NoRun}}

\* What a host usually projects: clean, routable, connected.
Plain(o) == [obligation |-> o, routable_kind |-> TRUE,
    has_workflow_binding |-> TRUE, explicit_only |-> FALSE,
    subject_state |-> "clean", subject_digest |-> 1,
    remote_available |-> TRUE, attempts_exhausted |-> FALSE,
    evidence_present |-> FALSE, evidence |-> Empty,
    run_present |-> FALSE, run |-> NoRun]

Held(o, subject) == [obligation |-> o, subject_digest |-> subject,
    run_identity |-> 7, verdict |-> "passed", claim |-> "established",
    complete |-> TRUE]
Started(state, conclusion) == [run_identity |-> 8, subject_digest |-> 1,
    state |-> state, conclusion |-> conclusion]
WithEvidence(o, e) ==
    [Plain(o) EXCEPT !.evidence_present = TRUE, !.evidence = e]
WithRun(o, u) == [Plain(o) EXCEPT !.run_present = TRUE, !.run = u]

Typical(o) ==
    {Plain(o),
     [Plain(o) EXCEPT !.subject_state = "dirty"],
     [Plain(o) EXCEPT !.explicit_only = TRUE],
     [Plain(o) EXCEPT !.attempts_exhausted = TRUE],
     WithEvidence(o, Held(o, 1)),
     WithEvidence(o, Held(o, 2)),
     WithRun(o, Started("in_progress", "none")),
     WithRun(o, Started("completed", "failure"))}

MC_Requests ==
    {[max_dispatches |-> 1, obligations |-> <<o>>] : o \in Single}
    \cup {[max_dispatches |-> m, obligations |-> <<o, p, q>>] :
              m \in 0 .. 3,
              o \in Typical("a"), p \in Typical("b"), q \in Typical("c")}

MC_Replacements == Typical("a")
=============================================================================
