------------------------------ MODULE QuotaBoard ------------------------------
(***************************************************************************)
(* What the resource pool promises its stores: a published name keeps its   *)
(* payload for ever, and what is published never exceeds the raw budget,    *)
(* whichever process publishes and whatever dies on the way.                *)
(***************************************************************************)
EXTENDS Naturals, FiniteSetsExt

CONSTANTS
  Name,        \* artifact names
  Payload,     \* what may be published under a name
  NoPayload,   \* nothing published yet
  Raw,         \* uncompressed size of each payload
  Limit        \* raw budget of the root

VARIABLE board

Published == {n \in Name : board[n] # NoPayload}
Total == MapThenSumSet(LAMBDA n : Raw[board[n]], Published)

Init == board = [n \in Name |-> NoPayload]

Publish(n, content) ==
  /\ board[n] = NoPayload
  /\ Total + Raw[content] <= Limit
  /\ board' = [board EXCEPT ![n] = content]

Next == \E n \in Name, content \in Payload : Publish(n, content)

Spec == Init /\ [][Next]_board

=============================================================================
