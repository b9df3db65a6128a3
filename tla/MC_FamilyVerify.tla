---------------------------- MODULE MC_FamilyVerify ----------------------------
(***************************************************************************)
(* A small instance of FamilyVerify for TLC: two of the five providers,    *)
(* which have the same kind of step, and one additional check.             *)
(***************************************************************************)
EXTENDS FamilyVerify

TwoProviders == << "project", "promotion" >>

\* Everything required, one or two optional checks, checks that are not
\* declared, one declared twice, and nothing required.
SomeBoundaries ==
    {[required |-> r, optional |-> o] :
        r \in {{"project", "promotion", "extra"}, {"project", "promotion"}, {"project"}},
        o \in {{}, {"extra"}}}
    \cup {[required |-> {"project"}, optional |-> {"promotion", "extra"}],
          [required |-> {}, optional |-> {"project", "promotion", "extra"}],
          [required |-> {}, optional |-> {}]}
=============================================================================
