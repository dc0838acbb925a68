------------------------------ MODULE Pipeline ------------------------------
(***************************************************************************)
(* What a decision pipeline promises: a transaction that enters leaves     *)
(* once, either delivered as a decision or discarded, and only so many are *)
(* inside at a time.  A refused transaction is discarded without entering. *)
(* Nothing is promised about order.                                        *)
(***************************************************************************)
EXTENDS Naturals, FiniteSets

CONSTANTS Txs, Room

VARIABLES inside, delivered, discarded

pipeline == <<inside, delivered, discarded>>

Known == inside \cup delivered \cup discarded

Init == inside = {} /\ delivered = {} /\ discarded = {}

Admit(t) ==
  /\ t \notin Known
  /\ Cardinality(inside) < Room
  /\ inside' = inside \cup {t}
  /\ UNCHANGED <<delivered, discarded>>

Refuse(t) ==
  /\ t \notin Known
  /\ discarded' = discarded \cup {t}
  /\ UNCHANGED <<inside, delivered>>

Deliver(t) ==
  /\ t \in inside
  /\ inside' = inside \ {t}
  /\ delivered' = delivered \cup {t}
  /\ UNCHANGED discarded

Discard(t) ==
  /\ t \in inside
  /\ inside' = inside \ {t}
  /\ discarded' = discarded \cup {t}
  /\ UNCHANGED delivered

Next == \E t \in Txs : Admit(t) \/ Refuse(t) \/ Deliver(t) \/ Discard(t)

Spec == Init /\ [][Next]_pipeline
=============================================================================
