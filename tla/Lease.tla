-------------------------------- MODULE Lease --------------------------------
(***************************************************************************)
(* What the dispatch ledger of bin/mncs-actions-remote promises, without   *)
(* the file, the calls and the clock readings: a lease that is granted to  *)
(* one claimant at a time and allows one dispatch per grant.  The code     *)
(* does not promise it for ever.  A claimant may find the ledger unlocked, *)
(* and from then on nothing is promised any more.                          *)
(*                                                                         *)
(* DispatchLedger implements this specification.                           *)
(***************************************************************************)
EXTENDS Integers, Sequences

CONSTANT TTL    \* how long a grant lasts

VARIABLES
    grants,     \* the grants so far: to whom, and when
    launched,   \* the dispatches, in order: the time of the grant of each
    lost        \* the exclusion was lost

leaseVars == <<grants, launched, lost>>

LeaseInit ==
    /\ grants = {}
    /\ launched = << >>
    /\ lost = FALSE

\* A grant is given when every earlier one has run out.
Grant(g) ==
    /\ ~ lost
    /\ \A h \in grants : g.at - h.at >= TTL
    /\ grants' = grants \cup {g}
    /\ UNCHANGED <<launched, lost>>

\* One dispatch under a grant nothing was dispatched under.
Launch(g) ==
    /\ ~ lost
    /\ \A i \in DOMAIN launched : launched[i] # g.at
    /\ launched' = Append(launched, g.at)
    /\ UNCHANGED <<grants, lost>>

\* Two claimants got in each other's way, and whatever follows may happen.
Lose == lost'

LeaseNext ==
    \/ \E g \in grants' : Grant(g)
    \/ \E g \in grants : Launch(g)
    \/ Lose

LeaseSpec == LeaseInit /\ [][LeaseNext]_leaseVars
=============================================================================
