----------------------- MODULE MC_DevelopmentPressure -----------------------
(***************************************************************************)
(* A small instance of DevelopmentPressure for TLC: a check that is no     *)
(* longer UNKNOWN, names two limitations or one of them twice, three       *)
(* observations and two records of an owner's own.                         *)
(***************************************************************************)
EXTENDS DevelopmentPressure

CONSTANTS language, d1, d2, s1, s2

UnknownFor(unresolved) == [verdict |-> "UNKNOWN", unresolved |-> unresolved]

SmallOutcomes ==
    {UnknownFor(<<d1, d2>>), UnknownFor(<<d2, d2>>),
     [verdict |-> "FAIL", unresolved |-> <<d1>>]}

OwnRecords ==
    {Record(<<language, d2>>, "open", FALSE, s1, FALSE),
     Record(<<language, d1>>, "rejected", TRUE, s1, TRUE)}
=============================================================================
