------------------------------- MODULE Ticket -------------------------------
(***************************************************************************)
(* Where a scan starts: int(next.Add(1)-1) % len(backends), which          *)
(* round_robin, least_pending, cost_aware and kv_aware have in common.     *)
(* The dispenser is a uint64 and the ticket is converted to int before     *)
(* Go's remainder, which has the sign of its dividend.  Here there are     *)
(* 2 * Half tickets, in place of 2^64.                                     *)
(***************************************************************************)
EXTENDS Integers

CONSTANTS
    Half,           \* half the number of tickets: the first that is not an int
    FirstTickets    \* where the dispenser may stand at first

Tickets == 0..(2 * Half - 1)

ASSUME HalfAssumption == Half \in Nat \ {0}
ASSUME TicketsAssumption == FirstTickets \subseteq Tickets

(* The ticket drawn after t: the sum wraps. *)
TicketAfter(t) == (t + 1) % (2 * Half)

(* Mutant: the ticket is cut down to a type of half the range. *)
SignedNarrow(t) == IF t % Half < Half \div 2 THEN t % Half ELSE (t % Half) - Half

(* int(t): two's complement. *)
Signed(t) == IF t < Half THEN t ELSE t - 2 * Half

(* Go's x % n, for a positive n. *)
Rem(x, n) == IF x >= 0 THEN x % n ELSE -((-x) % n)

(* Mutant: each call starts at the first backend. *)
StartAtFirst(t, n) == 0

(* The index a scan of n backends starts at: negative, out of range, for   *)
(* most tickets that are not an int.                                       *)
StartOf(t, n) == Rem(Signed(t), n)
=============================================================================
