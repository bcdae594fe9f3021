------------------------- MODULE MCOutboxDelivery -------------------------
(* Instance of OutboxDelivery for TLC: Workers are interchangeable.        *)
EXTENDS OutboxDelivery, TLC

MCGenerationOf == [m \in Messages |-> 1]

=============================================================================
