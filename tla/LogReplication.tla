-------------------------- MODULE LogReplication --------------------------
(***************************************************************************)
(* What replication of a task log between gateways promises, without       *)
(* loops, sessions or failures.  A gateway writes entries of its own, any  *)
(* number at a time: an entry gets its cursor when its writing starts,     *)
(* above everything the gateway holds then, and is held when its writing   *)
(* is finished.  The entries of another gateway come only from that        *)
(* gateway, exactly as they were written.  Nothing that is held is changed *)
(* or lost.  PeerLogSync implements this.                                  *)
(***************************************************************************)
EXTENDS Integers, FiniteSets

CONSTANTS
    Gateways,
    Sources,     \* Sources[g]: the gateways g gets entries from
    Ids

VARIABLES
    held,        \* held[g]: the entries g has
    writing      \* writing[g]: the entries of g whose writing is not finished

Entry == [id : Ids, author : Gateways, cursor : Nat]

Init ==
    /\ held = [g \in Gateways |-> {}]
    /\ writing = [g \in Gateways |-> {}]

Fresh(id) == \A g \in Gateways : \A e \in held[g] \cup writing[g] : e.id # id

\* g starts to write entry e, with the next cursor after the highest it holds.
Start(g, e) ==
    /\ Fresh(e.id)
    /\ e.author = g
    /\ \A f \in held[g] : f.cursor < e.cursor
    /\ e.cursor = 1 \/ \E f \in held[g] : f.cursor = e.cursor - 1
    /\ writing' = [writing EXCEPT ![g] = @ \cup {e}]
    /\ UNCHANGED held

Finish(g, e) ==
    /\ writing' = [writing EXCEPT ![g] = @ \ {e}]
    /\ held' = [held EXCEPT ![g] = @ \cup {e}]

GiveUp(g, e) ==
    /\ writing' = [writing EXCEPT ![g] = @ \ {e}]
    /\ UNCHANGED held

\* An entry of h reaches g.
Deliver(g, h) ==
    /\ h \in Sources[g]
    /\ \E e \in held[h] : e.author = h /\ held' = [held EXCEPT ![g] = @ \cup {e}]
    /\ UNCHANGED writing

\* Started(g) bounds the entries that a step may start.
Started(g) == writing'[g] \ writing[g]

Next ==
    \E g \in Gateways :
        \/ \E e \in Started(g) : Start(g, e)
        \/ \E e \in writing[g] : Finish(g, e) \/ GiveUp(g, e)
        \/ \E h \in Gateways : Deliver(g, h)

Spec == Init /\ [][Next]_<<held, writing>>
=============================================================================
