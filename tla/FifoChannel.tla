---------------------------- MODULE FifoChannel ----------------------------
(***************************************************************************)
(* What an egress port promises to the rest of the simulated network: a    *)
(* packet that the port has taken in leaves it exactly once, and packets   *)
(* leave in the order in which they were taken in.  How many stages the    *)
(* packet crosses inside the port (queue, scheduler, demultiplexer, link)  *)
(* is not visible here.  HostPort and EgressPort are shown to implement    *)
(* this specification.                                                     *)
(***************************************************************************)
EXTENDS Sequences

CONSTANTS Packet,    \* everything that can travel through the channels
          Lane,      \* one FIFO channel for each class of service
          Preload    \* lane -> its content when the simulation starts

VARIABLES buf,       \* lane -> packets inside the channel, oldest first
          out        \* lane -> packets that have left the channel

chanVars == <<buf, out>>

Init == /\ buf = Preload
        /\ out = [l \in Lane |-> <<>>]

Put(l) == /\ \E p \in Packet : buf'[l] = Append(buf[l], p)
          /\ out'[l] = out[l]

Deliver(l) == /\ buf[l] # <<>>
              /\ out'[l] = Append(out[l], Head(buf[l]))
              /\ buf'[l] = Tail(buf[l])

Idle(l) == buf'[l] = buf[l] /\ out'[l] = out[l]

(* A packet can enter several lanes in one step, so every lane moves on    *)
(* its own.                                                                *)
Next == \A l \in Lane : Put(l) \/ Deliver(l) \/ Idle(l)

Spec == Init /\ [][Next]_chanVars
=============================================================================
