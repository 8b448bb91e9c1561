--------------------------- MODULE MCSupportAgent ---------------------------
(* One thread of the user who owns o1 and o2; o3 is an order of another.  *)
EXTENDS SupportAgent, TLC

CONSTANTS c1, c2, c3, d1, d2, o1, o2, o3

Refund(o) == [intent |-> "refund", order |-> o, clarify |-> FALSE]

MCAnalyses ==
  {Refund(o1), Refund(o2),
   [intent |-> "order_query", order |-> o3, clarify |-> FALSE],
   [intent |-> "order_query", order |-> NoOrder, clarify |-> TRUE],
   [intent |-> "policy_query", order |-> NoOrder, clarify |-> FALSE]}

AtMostOneLoss == \A c, d \in Calls : lost[c] /\ lost[d] => c = d

(* Bounds on what happens together: calls that do not overlap, of which one *)
(* fails to write ...                                                       *)
OneAtATime == ~overlap /\ AtMostOneLoss

(* ... or that overlap as long as none of them does. *)
NoLossInOverlap == overlap => \A c \in Calls : ~lost[c]

TwoRefunds == {Refund(o1), Refund(o2)}

Symmetry == Permutations(ChatCalls) \cup Permutations(ResumeCalls)
=============================================================================
