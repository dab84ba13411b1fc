--------------------------- MODULE IndexRegister ---------------------------
(***************************************************************************)
(* What the distribution of the index promises: each client's local index  *)
(* is, as a whole, one of the signed builds, and is only ever replaced by  *)
(* one with a later epoch.  How many files a build is spread over, and     *)
(* that they are replaced under the readers, is invisible.                 *)
(***************************************************************************)
EXTENDS Naturals

CONSTANT Client

VARIABLES
    signed, \* builds signed so far
    local   \* local index of each client

Build == [man : Nat, epoch : Nat]
Build0 == [man |-> 0, epoch |-> 0]

Init == signed = {Build0} /\ local = [c \in Client |-> Build0]

(* One more build, of a later epoch than every other. *)
Sign ==
    /\ \E b \in signed' :
          /\ b \in Build /\ \A s \in signed : s.epoch < b.epoch
          /\ signed' = signed \cup {b}
    /\ UNCHANGED local

Install(c, b) ==
    /\ b.epoch > local[c].epoch
    /\ local' = [local EXCEPT ![c] = b]
    /\ UNCHANGED signed

Next ==
    \/ Sign
    \/ \E c \in Client, b \in signed : Install(c, b)

Spec == Init /\ [][Next]_<<signed, local>>
=============================================================================
