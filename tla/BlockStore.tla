------------------------------ MODULE BlockStore ------------------------------
(***************************************************************************)
(* What an allocator promises: a block that has been handed out is handed  *)
(* out to nobody else until it is given back.  ObjectPool implements it.   *)
(***************************************************************************)
EXTENDS Naturals

CONSTANT Blocks

VARIABLE owners   \* how many callers each block has been handed out to

StoreInit == owners = [b \in Blocks |-> 0]

HandOut(b) == owners[b] = 0 /\ owners' = [owners EXCEPT ![b] = 1]

GiveBack(b) == owners[b] = 1 /\ owners' = [owners EXCEPT ![b] = 0]

StoreNext == \E b \in Blocks : HandOut(b) \/ GiveBack(b)

StoreSpec == StoreInit /\ [][StoreNext]_owners
=============================================================================
