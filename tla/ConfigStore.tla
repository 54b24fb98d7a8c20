----------------------------- MODULE ConfigStore -----------------------------
(***************************************************************************)
(* What the configuration memory of a modem promises to its operator: a    *)
(* save that no power failure cuts short replaces the configuration as a   *)
(* whole; one that is cut short leaves the one before, or a torn one, which *)
(* the next start takes as it is.  Only a reset goes back to an older one.  *)
(* ConfigFlash.tla is shown to implement this.                              *)
(***************************************************************************)
CONSTANTS Configs, Default, NoConfig

VARIABLES
  kept,     \* the configuration the next start will find
  present,  \* all that memory holds, older ones too
  pending,  \* the configuration that is being saved
  losing,   \* a reset was begun and the modem not started since
  up        \* the modem runs

vars == <<kept, present, pending, losing, up>>

\* Memory may lose configurations, as long as it holds the one kept.
MakeRoom == present' \in {P \in SUBSET present : kept = NoConfig \/ kept \in P}

Init ==
  /\ kept = NoConfig /\ present = {} /\ pending = NoConfig
  /\ losing = FALSE /\ up = FALSE

\* A modem that finds nothing saves the default.
Start ==
  /\ ~up /\ up' = TRUE /\ losing' = FALSE
  /\ pending' = IF kept = NoConfig THEN Default ELSE NoConfig
  /\ UNCHANGED <<kept, present>>

Save(c) ==
  /\ up /\ ~losing /\ pending = NoConfig
  /\ pending' = c
  /\ UNCHANGED <<kept, present, losing, up>>

Erase ==
  /\ up /\ pending # NoConfig
  /\ MakeRoom
  /\ UNCHANGED <<kept, pending, losing, up>>

Tear ==
  /\ up /\ pending # NoConfig
  /\ kept' = "torn" /\ present' = present \cup {"torn"}
  /\ UNCHANGED <<pending, losing, up>>

Complete ==
  /\ up /\ pending # NoConfig /\ kept = "torn"
  /\ kept' = pending
  /\ \E P \in {present, present \ {"torn"}} : present' = P \cup {pending}
  /\ pending' = NoConfig
  /\ UNCHANGED <<losing, up>>

Reset ==
  /\ up /\ pending = NoConfig
  /\ losing' = TRUE
  /\ UNCHANGED <<kept, present, pending, up>>

\* What a reset goes back to on its way to nothing.
Lose ==
  /\ up /\ losing
  /\ present' \in SUBSET present
  /\ kept' \in IF present' = {} THEN {NoConfig} ELSE present'
  /\ up' \in BOOLEAN
  /\ UNCHANGED <<pending, losing>>

PowerFail ==
  /\ up /\ up' = FALSE
  /\ IF pending = NoConfig THEN UNCHANGED present ELSE MakeRoom
  /\ pending' = NoConfig
  /\ UNCHANGED <<kept, losing>>

Next ==
  \/ Start \/ (\E c \in Configs : Save(c))
  \/ Erase \/ Tear \/ Complete
  \/ Reset \/ Lose \/ PowerFail

Spec == Init /\ [][Next]_vars
=============================================================================
