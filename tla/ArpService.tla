----------------------------- MODULE ArpService -----------------------------
(***************************************************************************)
(* What address resolution promises about the packets to forward, whatever *)
(* its cache, its queue and its threads do: a packet the router accepted   *)
(* stays with it until it is sent, once, to an address announced for its   *)
(* destination, or given up; a packet refused, sent or given up never      *)
(* comes back.  The router may halt at any time and then does nothing.     *)
(***************************************************************************)
CONSTANTS IPs, MACs, Packets, Dst, NoMac

VARIABLES fate, sentTo, learned, up

vars == <<fate, sentTo, learned, up>>

Init ==
    /\ fate = [p \in Packets |-> "new"]
    /\ sentTo = [p \in Packets |-> NoMac]
    /\ learned = {}
    /\ up = TRUE

Become(p, old, new) == fate[p] = old /\ fate' = [fate EXCEPT ![p] = new]

Accept(p) == Become(p, "new", "held") /\ UNCHANGED <<sentTo, learned, up>>

\* An ICMP error goes back: time exceeded, or no route.
Refuse(p) ==
    /\ Become(p, "new", "exceeded") \/ Become(p, "new", "unreachable")
    /\ UNCHANGED <<sentTo, learned, up>>

Learn(ip, m) ==
    /\ learned' = learned \cup {<<ip, m>>}
    /\ UNCHANGED <<fate, sentTo, up>>

Forward(p) ==
    /\ Become(p, "held", "sent")
    /\ \E m \in MACs : <<Dst[p], m>> \in learned /\ sentTo' = [sentTo EXCEPT ![p] = m]
    /\ UNCHANGED <<learned, up>>

GiveUp(p) == Become(p, "held", "dropped") /\ UNCHANGED <<sentTo, learned, up>>

Halt == up' = FALSE /\ UNCHANGED <<fate, sentTo, learned>>

Next ==
    /\ up
    /\ \/ \E p \in Packets : Accept(p) \/ Refuse(p) \/ Forward(p) \/ GiveUp(p)
       \/ \E ip \in IPs, m \in MACs : Learn(ip, m)
       \/ Halt

Spec == Init /\ [][Next]_vars
=============================================================================
