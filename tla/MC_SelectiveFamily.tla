------------------------- MODULE MC_SelectiveFamily -------------------------
(***************************************************************************)
(* A small instance of SelectiveFamily for TLC: a consumer in a git        *)
(* checkout and one in a source archive.                                   *)
(***************************************************************************)
EXTENDS SelectiveFamily

Edge(c, k, r, b) == [consumer |-> c, contract |-> k, runner |-> r, batches |-> b]

\* The tests of one consumer, the tests of one and the declaration of the
\* other, and the tests for two contracts of one consumer.
TwoConsumers == {"tracked", "archive"}
SomeSelections ==
    {<<Edge("archive", 1, "mncs-test", 1)>>,
     <<Edge("tracked", 1, "mncs-test", 1), Edge("archive", 1, "declaration", 1)>>,
     <<Edge("tracked", 1, "mncs-test", 1), Edge("tracked", 2, "mncs-test", 1)>>}

\* A consumer with one batch of tests, or with two.
OneBatch == {<<Edge("tracked", 1, "mncs-test", 1)>>}
TwoBatches == {<<Edge("tracked", 1, "mncs-test", 2)>>}
=============================================================================
