---------------------------- MODULE DurableTrust ----------------------------
(***************************************************************************)
(* What TimeKeeper promises about the trust it keeps in flash, through     *)
(* crashes at any point: the tuple (last sync, route, UTC offset) that the *)
(* next boot recovers changes only                                         *)
(*                                                                         *)
(*   - as a whole, to the tuple of an update the clock has accepted, or    *)
(*   - to nothing, when it is cleared or damaged;                          *)
(*                                                                         *)
(* and while there is one, its route only ever moves to BLE.               *)
(***************************************************************************)
CONSTANTS Records, \* the tuples that can be trusted
          NoTrust, \* no tuple: an unconfirmed clock
          RouteOf(_)

VARIABLES trust,   \* what a boot would recover
          pending  \* the accepted tuple that is not durable yet

Init == trust \in Records \union {NoTrust} /\ pending = NoTrust

RouteMayFollow(old, new) ==
  old = NoTrust \/ RouteOf(new) = RouteOf(old) \/ RouteOf(new) = "kBle"

Accept(record) ==
  /\ pending = NoTrust
  /\ RouteMayFollow(trust, record)
  /\ pending' = record
  /\ UNCHANGED trust

Commit ==
  /\ pending # NoTrust
  /\ trust' = pending
  /\ pending' = NoTrust

\* A crash, or a flash write that fails.
Abandon ==
  /\ pending # NoTrust
  /\ pending' = NoTrust
  /\ UNCHANGED trust

Forget ==
  /\ trust' = NoTrust
  /\ pending = NoTrust
  /\ UNCHANGED pending

Next == (\E record \in Records : Accept(record)) \/ Commit \/ Abandon \/ Forget

Spec == Init /\ [][Next]_<<trust, pending>>

=============================================================================
