-------------------------------- MODULE Lease --------------------------------
(***************************************************************************)
(* What registration promises to the users of a cell: a client ID, and the *)
(* block of addresses that goes with it, is leased to one callsign at a    *)
(* time, and is not taken back while its holder still relies on it.        *)
(* Registration.tla is shown to implement this.                            *)
(***************************************************************************)
CONSTANTS
  Parties,   \* who may hold a lease
  IDs,       \* what is leased
  Terms,     \* what comes with it: the block of addresses
  NoLease

VARIABLES
  lease,     \* lease[i]: the lease of ID i as its grantor knows it
  relied_on  \* the leases their holders rely on, as they know them

vars == <<lease, relied_on>>

Leases == [holder : Parties, id : IDs, terms : Terms]

Init ==
  /\ lease = [i \in IDs |-> NoLease]
  /\ relied_on = {}

\* A holder gets one ID, and an ID one holder.
Grant(l) ==
  /\ lease[l.id] = NoLease
  /\ \A i \in IDs : lease[i] # NoLease => lease[i].holder # l.holder
  /\ lease' = [lease EXCEPT ![l.id] = l]
  /\ UNCHANGED relied_on

\* Leases that nobody relies on any more may be taken back.
TakeBack(ids) ==
  /\ \A l \in relied_on : l.id \notin ids
  /\ lease' = [i \in IDs |-> IF i \in ids THEN NoLease ELSE lease[i]]
  /\ UNCHANGED relied_on

\* A holder is told of its lease.
RelyOn(l) ==
  /\ lease[l.id] = l
  /\ relied_on' = relied_on \cup {l}
  /\ UNCHANGED lease

\* Holders stop to rely on their leases: they gave them up, or cannot be sure of
\* them.
Doubt(leases) ==
  /\ relied_on' = relied_on \ leases
  /\ UNCHANGED lease

Next ==
  \/ \E l \in Leases : Grant(l) \/ RelyOn(l)
  \/ \E leases \in SUBSET relied_on : Doubt(leases)
  \/ \E ids \in SUBSET IDs : TakeBack(ids)

Spec == Init /\ [][Next]_vars
=============================================================================
