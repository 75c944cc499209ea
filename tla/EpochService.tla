--------------------------- MODULE EpochService -----------------------------
(***************************************************************************)
(* What the scheduler promises to virtual staking contracts, without       *)
(* heights, keys or stores: every enrolled contract owns a countdown of    *)
(* Period blocks and is called when it runs out, and it can in addition be *)
(* called in the current block on request.  A block first takes requests,  *)
(* is then closed, and the next one starts when nobody waits for a call.   *)
(*                                                                         *)
(* Scheduler implements this module: countdown[c] is the distance to the   *)
(* height of c's repeating handle_epoch task.                              *)
(***************************************************************************)
EXTENDS Integers

CONSTANTS Contracts, Period

Off == -1      \* countdown of a contract that is not enrolled

VARIABLES
  countdown,   \* blocks until the next regular call, or Off
  requested,   \* contracts to be called in the current block on request
  closed       \* the current block takes no more requests

vars == <<countdown, requested, closed>>

Enrolled(c) == countdown[c] # Off
MustCall(c) == countdown[c] = 0 \/ c \in requested

Init ==
  /\ countdown = [c \in Contracts |-> Off]
  /\ requested = {}
  /\ closed = FALSE

(* A first limit, or a limit after the contract was dismissed. *)
Enroll(c) ==
  /\ ~closed /\ ~Enrolled(c)
  /\ countdown' = [countdown EXCEPT ![c] = Period]
  /\ UNCHANGED <<requested, closed>>

(* A changed limit: call in this block, keep the countdown. *)
Request(c) ==
  /\ ~closed /\ Enrolled(c)
  /\ requested' = IF countdown[c] = 0 THEN requested ELSE requested \cup {c}
  /\ UNCHANGED <<countdown, closed>>

(* A limit of 0: one last call, then silence. *)
Dismiss(c) ==
  /\ ~closed /\ Enrolled(c)
  /\ countdown' = [countdown EXCEPT ![c] = Off]
  /\ requested' = requested \cup {c}
  /\ UNCHANGED closed

(* The end of the block has come. *)
Close ==
  /\ ~closed
  /\ closed' = TRUE
  /\ UNCHANGED <<countdown, requested>>

(* One call settles the regular and the requested one. *)
Call(c) ==
  /\ closed /\ MustCall(c)
  /\ countdown' = [countdown EXCEPT ![c] = IF @ = 0 THEN Period ELSE @]
  /\ requested' = requested \ {c}
  /\ UNCHANGED closed

(* The block is committed. *)
Tick ==
  /\ closed /\ \A c \in Contracts : ~MustCall(c)
  /\ countdown' = [c \in Contracts |-> IF Enrolled(c) THEN countdown[c] - 1 ELSE Off]
  /\ closed' = FALSE
  /\ UNCHANGED requested

Next ==
  \/ \E c \in Contracts : Enroll(c) \/ Request(c) \/ Dismiss(c) \/ Call(c)
  \/ Close
  \/ Tick

Spec == Init /\ [][Next]_vars

=============================================================================
