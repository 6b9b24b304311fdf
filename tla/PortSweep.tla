------------------------------ MODULE PortSweep ------------------------------
(***************************************************************************)
(* How tp_manager.rs chooses the port of a child: a counter that never     *)
(* goes below the starting port, and a sweep that probes each port once.   *)
(* A probe is the answer of bind(127.0.0.1, port): busy is the set of the  *)
(* ports that some socket has.                                             *)
(***************************************************************************)
EXTENDS Integers, FiniteSets

CONSTANTS StartingPort,   \* ManagerInner.starting_port
          MaxPort         \* u16::MAX

ASSUME PortAssumption == /\ StartingPort \in Nat \ {0}
                         /\ MaxPort \in Nat
                         /\ StartingPort <= MaxPort

Ports == StartingPort..MaxPort
NoPort == 0

Advance(next) ==
  LET wrapped == (next + 1) % (MaxPort + 1)
  IN  IF wrapped < StartingPort THEN StartingPort ELSE wrapped

\* Bug: one probe too few.
AttemptsShort == MaxPort - StartingPort

Attempts == MaxPort - StartingPort + 1

\* The ports a sweep from next probes, in order, and the counter after each.
Probed(next) ==
  LET port[i \in 0..Attempts] == IF i = 0 THEN next ELSE Advance(port[i - 1])
  IN  port

\* port is NoPort when every probe failed.
Swept(next, busy) ==
  LET free == {i \in 0..(Attempts - 1) : Probed(next)[i] \notin busy}
      last == IF free = {} THEN Attempts - 1 ELSE CHOOSE i \in free : \A j \in free : i <= j
  IN  [port |-> IF free = {} THEN NoPort ELSE Probed(next)[last],
       next |-> Probed(next)[last + 1],
       probes |-> {Probed(next)[i] : i \in 0..last}]

\* Bug: each sweep begins at the starting port.
SweepAnew(next, busy) == Swept(StartingPort, busy)

\* allocate_next_port_with_probe
Sweep(next, busy) == Swept(next, busy)
=============================================================================
