---------------------------- MODULE MCPsiPlanning ----------------------------
(* Instances of PsiPlanning for TLC: four buckets, the third of three days.  *)
EXTENDS MCPlanningInputs

Steady  == <<[order |-> 1, forecast |-> 1], [order |-> 1, forecast |-> 0],
             [order |-> 0, forecast |-> 2], [order |-> 1, forecast |-> 1]>>
Idle    == [b \in Bucket |-> [order |-> 0, forecast |-> 0]]
Late    == [Idle EXCEPT ![3] = [order |-> 4, forecast |-> 1]]

\* Caps that are absent, constant, reduced late, and raised late.
Caps == {[b \in Bucket |-> NoCap], [b \in Bucket |-> 5],
         <<6, 6, 6, 3>>, <<3, NoCap, 5, 5>>}

Policies ==
  {[b \in Bucket |-> [lead |-> l[b], multiple |-> m[1], moq |-> m[2], cap |-> c[b]]] :
     l \in {<<0, 0, 0, 0>>, <<3, 3, 3, 3>>, <<14, 8, 0, 0>>},
     m \in {<<1, 0>>, <<2, 3>>}, c \in Caps}

MCPlans ==
  {[stock |-> s, demand |-> d, receipt |-> r, policy |-> p, orderDates |-> o,
    maxOrder |-> 4, minTarget |-> 1, maxTarget |-> 4, allowed |-> a] :
     s \in {[available |-> 2, reserved |-> 1, backorder |-> 0],
            [available |-> 1, reserved |-> 0, backorder |-> 3]},
     d \in {Steady, Idle, Late},
     r \in {<<0, 0, 0, 0>>, <<0, 2, 0, 1>>, <<2, 0, 2, 0>>},
     p \in Policies,
     o \in {Bucket, {1, 3}},
     a \in {{"HOLD", "ORDER_UP_TO"}, {"HOLD", "ORDER_QTY"}}}

MCProposals ==
  {[action |-> "HOLD", quantity |-> 0]}
    \cup {[action |-> "ORDER_UP_TO", quantity |-> q] : q \in {3, 4, 5}}
    \cup {[action |-> "ORDER_QTY", quantity |-> q] : q \in {1, 3}}

=============================================================================
