----------------------------- MODULE Broadcast -----------------------------
(***************************************************************************)
(* What a Feed of modules/event/v2 promises its users (the comments of     *)
(* feed.go 26-27, 68-72 and 118-119): a value is delivered to every channel*)
(* subscribed when its Send begins, once, and to no other; a channel that  *)
(* unsubscribes meanwhile may miss it; the next value waits until the last *)
(* channel has been served, so that all channels see one order.            *)
(***************************************************************************)
EXTENDS Naturals, Sequences

CONSTANTS
    Subs,    \* channels
    Values   \* values that may be sent

VARIABLES
    members,  \* the subscribed channels
    current,  \* the value being delivered, if any, and whom it still must reach
    sent      \* the values put into each channel, in order

vars == <<members, current, sent>>

\* No Send is in progress.
Quiet == [value |-> {}, left |-> {}]

TypeOK == /\ members \subseteq Subs
          /\ current \in [value : SUBSET Values, left : SUBSET Subs]
          /\ sent \in [Subs -> Seq(Values)]

Init == /\ members = {}
        /\ current = Quiet
        /\ sent = [s \in Subs |-> <<>>]

Join(s) == /\ members' = members \cup {s}
           /\ UNCHANGED <<current, sent>>

Leave(s) == /\ members' = members \ {s}
            /\ current' = [current EXCEPT !.left = @ \ {s}]
            /\ UNCHANGED sent

Begin(v) == /\ current.value = {}
            /\ current' = [value |-> {v}, left |-> members]
            /\ UNCHANGED <<members, sent>>

Deliver(s) == /\ s \in current.left
              /\ current' = [current EXCEPT !.left = @ \ {s}]
              /\ sent' = [sent EXCEPT
                            ![s] = Append(@, CHOOSE v \in current.value : TRUE)]
              /\ UNCHANGED members

End == /\ current.value # {}
       /\ current.left = {}
       /\ current' = Quiet
       /\ UNCHANGED <<members, sent>>

Next == \/ \E s \in Subs : Join(s) \/ Leave(s) \/ Deliver(s)
        \/ \E v \in Values : Begin(v)
        \/ End

Spec == Init /\ [][Next]_vars
=============================================================================
