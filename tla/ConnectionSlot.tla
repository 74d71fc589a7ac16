--------------------------- MODULE ConnectionSlot ---------------------------
(***************************************************************************)
(* What a connection of the proxy promises (proxy::connection in           *)
(* net/tcp/proxy.hpp): it is a slot that is used for one session after     *)
(* the other.  A session begins with an accept, which opens the server     *)
(* side, and may open the client side; an open side is closed once; and    *)
(* the slot accepts again with the step that ends the last side, never     *)
(* earlier.  How many threads do it, with which locks, counters and        *)
(* timers, is not said here.                                               *)
(***************************************************************************)
CONSTANTS Server, Client    \* the two sides of a session

VARIABLES accepting,    \* is the slot waiting for the next session?
          side          \* the state of each side

slotVars == <<accepting, side>>

SlotSide == {Server, Client}

SideState == {"idle", "open", "closing"}

SlotInit ==
  /\ accepting = TRUE
  /\ side = [s \in SlotSide |-> "idle"]

\* A session begins: the client of the slot is accepted.
BeginSession ==
  /\ accepting
  /\ accepting' = FALSE
  /\ side' = [side EXCEPT ![Server] = "open"]

\* The remote host of an open session is connected.
ConnectRemote ==
  /\ side[Server] = "open"
  /\ side[Client] = "idle"
  /\ side' = [side EXCEPT ![Client] = "open"]
  /\ UNCHANGED accepting

BeginClosing(s) ==
  /\ side[s] = "open"
  /\ side' = [side EXCEPT ![s] = "closing"]
  /\ UNCHANGED accepting

\* The session is over when its last side is closed.
EndClosing(s) ==
  /\ side[s] = "closing"
  /\ side' = [side EXCEPT ![s] = "idle"]
  /\ accepting' = \A o \in SlotSide : side'[o] = "idle"

SlotNext ==
  \/ BeginSession
  \/ ConnectRemote
  \/ \E s \in SlotSide : BeginClosing(s) \/ EndClosing(s)

SlotSpec == SlotInit /\ [][SlotNext]_slotVars

=============================================================================
