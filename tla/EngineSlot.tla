----------------------------- MODULE EngineSlot -----------------------------
(***************************************************************************)
(* What the Android bridge's lifecycle promises its Java caller (spec 3,  *)
(* 4.3), with no threads, temporaries or load/store halves: one engine    *)
(* slot and one pinned application context.                               *)
(*                                                                         *)
(*   - installing an engine puts a fresh one in the slot and releases the *)
(*     one it replaces in the same step, so at no instant do two engines  *)
(*     belong to the bridge;                                              *)
(*   - an installed engine is initialized once, to ready or failed;       *)
(*   - callbacks are set only on the installed engine, once it is ready;  *)
(*   - clearing the slot releases its engine;                             *)
(*   - at most one context is pinned, and a new one is pinned only after  *)
(*     the old one was released.                                          *)
(* Released objects stay released: nothing is released twice.            *)
(***************************************************************************)
CONSTANTS Engines, Refs, Kinds, NoEngine, NoRef

VARIABLES
  slot,     \* the installed engine, or NoEngine
  status,   \* lifecycle of each engine
  wired,    \* callback kinds set on each engine
  pinned,   \* the pinned context, or NoRef
  refs      \* lifecycle of each global reference

vars == <<slot, status, wired, pinned, refs>>

Release(e) == IF e = NoEngine THEN status
                              ELSE [status EXCEPT ![e] = "freed"]

Install(e) ==
  /\ status[e] = "unused"
  /\ slot' = e
  /\ status' = [Release(slot) EXCEPT ![e] = "constructed"]
  /\ UNCHANGED <<wired, pinned, refs>>

Settle(ok) ==
  /\ slot # NoEngine
  /\ status[slot] = "constructed"
  /\ status' = [status EXCEPT ![slot] = IF ok THEN "ready" ELSE "failed"]
  /\ UNCHANGED <<slot, wired, pinned, refs>>

Wire(k) ==
  /\ slot # NoEngine
  /\ status[slot] = "ready"
  /\ wired' = [wired EXCEPT ![slot] = @ \cup {k}]
  /\ UNCHANGED <<slot, status, pinned, refs>>

Clear ==
  /\ slot' = NoEngine
  /\ status' = Release(slot)
  /\ UNCHANGED <<wired, pinned, refs>>

Pin(r) ==
  /\ pinned = NoRef
  /\ refs[r] = "unused"
  /\ pinned' = r
  /\ refs' = [refs EXCEPT ![r] = "live"]
  /\ UNCHANGED <<slot, status, wired>>

Unpin ==
  /\ pinned # NoRef
  /\ pinned' = NoRef
  /\ refs' = [refs EXCEPT ![pinned] = "deleted"]
  /\ UNCHANGED <<slot, status, wired>>

Init ==
  /\ slot = NoEngine
  /\ status = [e \in Engines |-> "unused"]
  /\ wired = [e \in Engines |-> {}]
  /\ pinned = NoRef
  /\ refs = [r \in Refs |-> "unused"]

Next ==
  \/ \E e \in Engines : Install(e)
  \/ \E ok \in BOOLEAN : Settle(ok)
  \/ \E k \in Kinds : Wire(k)
  \/ Clear
  \/ \E r \in Refs : Pin(r)
  \/ Unpin

Spec == Init /\ [][Next]_vars

=============================================================================
