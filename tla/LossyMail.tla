------------------------------ MODULE LossyMail -------------------------------
(***************************************************************************)
(* What the post office promises: a mail is on its way to its machine once *)
(* its Send took effect, or is lost then and there; mails on their way to  *)
(* one machine arrive in the order of their Sends, each once, in the box   *)
(* they name; Receive takes the oldest mail of a box.  Nothing is said of  *)
(* locks, interrupts, sockets, buffers or the postal worker.               *)
(***************************************************************************)
EXTENDS Sequences

CONSTANTS Hosts,   \* machines
          Clients, \* threads that send and receive
          HostOf,  \* the machine of each client
          Boxes,   \* mailbox numbers
          Mails,   \* records with the fields to and box
          NoMail   \* a client with no mail

VARIABLES transit, \* the mails on their way to each machine
          boxes,   \* the mails in each box of each machine
          phase,   \* of each client's call: "none", "send", "receive" or "sent"
          mail     \* what each client sends, the box it waits at, or what it got

vars == << transit, boxes, phase, mail >>

Init == /\ transit = [h \in Hosts |-> << >>]
        /\ boxes = [h \in Hosts |-> [b \in Boxes |-> << >>]]
        /\ phase = [c \in Clients |-> "none"]
        /\ mail = [c \in Clients |-> NoMail]

Call(c) == /\ phase[c] = "none"
           /\ \E p \in {"send", "receive"} : phase' = [phase EXCEPT ![c] = p]
           /\ \E m \in Mails : mail' = [mail EXCEPT ![c] = m]
           /\ UNCHANGED << transit, boxes >>

Dispatch(c) == /\ phase[c] = "send"
               /\ phase' = [phase EXCEPT ![c] = "sent"]
               /\ \/ transit' = [transit EXCEPT ![mail[c].to] = Append(@, mail[c])]
                  \/ UNCHANGED transit
               /\ UNCHANGED << boxes, mail >>

Return(c) == /\ phase[c] = "sent"
             /\ phase' = [phase EXCEPT ![c] = "none"]
             /\ UNCHANGED << transit, boxes, mail >>

Arrive(h) == /\ transit[h] # << >>
             /\ LET m == Head(transit[h]) IN boxes' = [boxes EXCEPT ![h][m.box] = Append(@, m)]
             /\ transit' = [transit EXCEPT ![h] = Tail(@)]
             /\ UNCHANGED << phase, mail >>

Receive(c) == LET box == boxes[HostOf[c]][mail[c].box] IN
              /\ phase[c] = "receive"
              /\ box # << >>
              /\ mail' = [mail EXCEPT ![c] = Head(box)]
              /\ boxes' = [boxes EXCEPT ![HostOf[c]][mail[c].box] = Tail(@)]
              /\ phase' = [phase EXCEPT ![c] = "none"]
              /\ UNCHANGED transit

Next == \/ \E c \in Clients : Call(c) \/ Dispatch(c) \/ Return(c) \/ Receive(c)
        \/ \E h \in Hosts : Arrive(h)

Spec == Init /\ [][Next]_vars
===============================================================================
