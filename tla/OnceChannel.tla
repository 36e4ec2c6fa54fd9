----------------------------- MODULE OnceChannel -----------------------------
(***************************************************************************)
(* What one direction of an encrypted Miru session promises, whatever the  *)
(* transport does with the packets: a packet number is put on the wire     *)
(* once, and once more only for every two packets the channel has refused; *)
(* the plaintext of a packet number is handed to the receiver at most once *)
(* and only after it was sent.  Packets may be lost, duplicated, reordered *)
(* or damaged; the abstract channel then simply does not take its Receive  *)
(* step.                                                                   *)
(***************************************************************************)
EXTENDS Naturals

CONSTANT Nonces     \* the packet numbers a direction may use

VARIABLES
  onWire,     \* onWire[n]: packets sealed under number n
  refusals,   \* packets the channel refused to send
  received    \* received[n]: times the plaintext of number n was handed over

vars == <<onWire, refusals, received>>

Init ==
  /\ onWire = [n \in Nonces |-> 0]
  /\ refusals = 0
  /\ received = [n \in Nonces |-> 0]

\* A number is sealed: for the first time, or again after two refusals more.
Transmit(n) ==
  /\ 2 * onWire[n] <= refusals
  /\ onWire' = [onWire EXCEPT ![n] = @ + 1]
  /\ UNCHANGED <<refusals, received>>

\* The sender is told that its packet was not sent.
Refuse ==
  /\ refusals' = refusals + 1
  /\ UNCHANGED <<onWire, received>>

\* The plaintext of a packet on the wire is handed over for the first time.
Receive(n) ==
  /\ onWire[n] > 0 /\ received[n] = 0
  /\ received' = [received EXCEPT ![n] = 1]
  /\ UNCHANGED <<onWire, refusals>>

Next == Refuse \/ \E n \in Nonces : Transmit(n) \/ Receive(n)

Spec == Init /\ [][Next]_vars
=============================================================================
