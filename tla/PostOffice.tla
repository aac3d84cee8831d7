------------------------------ MODULE PostOffice ------------------------------
(***************************************************************************)
(* The post offices of network/post.cc on machines joined by the network of*)
(* machine/network.cc.  Each machine has one lock and one semaphore for    *)
(* sending, one buffer for an incoming packet, a postal worker that empties*)
(* it, and mailboxes.  The network may lose a packet when it is sent;      *)
(* nothing sends it again.  A mailbox is a SynchList and therefore the     *)
(* queue of SharedQueue, whose operations take effect in one step.         *)
(*                                                                         *)
(* Machines are processes of their own; on each, steps are cut as in       *)
(* SynchDisk.  The receive interrupt comes for ever: what it does when it  *)
(* does nothing is left out.                                               *)
(***************************************************************************)
EXTENDS Semaphores

CONSTANTS Hosts,    \* machines
          Clients,  \* threads that send and receive
          HostOf,   \* the machine of each client
          Boxes,    \* mailbox numbers
          Worker,   \* the name of the postal worker on its machine
          NoClient, \* the NULL of lockHolder
          NoMail,   \* an empty buffer
          MaxCalls  \* bound: calls each client makes

ASSUME HostsAssumption == HostOf \in [Clients -> Hosts]
ASSUME NamesAssumption == NoClient \notin Clients
ASSUME CallsAssumption == MaxCalls \in Nat

Mails == [from : Clients, no : 1 .. MaxCalls, to : Hosts, box : Boxes]

ASSUME NoMailAssumption == NoMail \notin Mails

VARIABLES pc,          \* where each client stands
          made,        \* how many calls it made
          mail,        \* what it sends, the box it waits at, or what it got
          sendLock,    \* of each machine: PostOfficeOutput::sendLock->semaphore
          lockHolder,  \* PostOfficeOutput::sendLock->lockHolder
          messageSent, \* V'd by the send interrupt
          pending,     \* send interrupts scheduled and not yet run
          wire,        \* the packets in the socket of each machine
          inbox,       \* NetworkInput's buffer; NoMail when inHdr.length is 0
          available,   \* PostOfficeInput::messageAvailable
          worker,      \* where the postal worker stands
          hand,        \* the packet it fetched
          boxes        \* the mailboxes

sending == << sendLock, lockHolder, messageSent, pending >>
receiving == << inbox, available, worker, hand >>
vars == << pc, made, mail, sending, wire, receiving, boxes >>

(* "acquire"  at the while loop of P in sendLock->Acquire                  *)
(* "locked"   that P is over, lockHolder not yet assigned                  *)
(* "wait"     at the while loop of messageSent->P, the packet sent         *)
(* "sent"     that P is over                                               *)
(* "receive"  in RemoveFront of the box                                    *)
PCs == {"idle", "acquire", "locked", "wait", "sent", "receive"}

(* "wait"     at the while loop of messageAvailable->P                     *)
(* "ready"    that P is over, the packet not yet fetched                   *)
(* "holding"  fetched, not yet in its box                                  *)
Places == {"wait", "ready", "holding"}

Init == /\ pc = [c \in Clients |-> "idle"]
        /\ made = [c \in Clients |-> 0]
        /\ mail = [c \in Clients |-> NoMail]
        /\ sendLock = [h \in Hosts |-> NewSemaphore(1)]
        /\ lockHolder = [h \in Hosts |-> NoClient]
        /\ messageSent = [h \in Hosts |-> NewSemaphore(0)]
        /\ pending = [h \in Hosts |-> 0]
        /\ wire = [h \in Hosts |-> << >>]
        /\ inbox = [h \in Hosts |-> NoMail]
        /\ available = [h \in Hosts |-> NewSemaphore(0)]
        /\ worker = [h \in Hosts |-> "wait"]
        /\ hand = [h \in Hosts |-> NoMail]
        /\ boxes = [h \in Hosts |-> [b \in Boxes |-> << >>]]

-----------------------------------------------------------------------------

Goes(c, from, to) == pc[c] = from /\ pc' = [pc EXCEPT ![c] = to]

(* PostOfficeOutput::Send or PostOfficeInput::Receive is called. *)
Call(c) == /\ \/ Goes(c, "idle", "acquire")
              \/ Goes(c, "idle", "receive")
           /\ made[c] < MaxCalls
           /\ made' = [made EXCEPT ![c] = @ + 1]
           /\ \E h \in Hosts, b \in Boxes :
                  mail' = [mail EXCEPT ![c] = [from |-> c, no |-> made'[c], to |-> h, box |-> b]]
           /\ UNCHANGED << sending, wire, receiving, boxes >>

(* sendLock->Acquire: one turn of the loop of its P. *)
Acquire(c) == LET s == sendLock[HostOf[c]] IN
              /\ ~Asleep(s, c)
              /\ Goes(c, "acquire", IF Passes(s) THEN "locked" ELSE "acquire")
              /\ sendLock' = [sendLock EXCEPT ![HostOf[c]] = Turn(s, c)]
              /\ UNCHANGED << made, mail, lockHolder, messageSent, pending, wire, receiving,
                              boxes >>

(* One turn of the loop of messageSent->P. *)
Wait(c, from) == LET s == messageSent[HostOf[c]] IN
                 /\ ~Asleep(s, c)
                 /\ Goes(c, from, IF Passes(s) THEN "sent" ELSE "wait")
                 /\ messageSent' = [messageSent EXCEPT ![HostOf[c]] = Turn(s, c)]

(* NetworkOutput::Send puts the packet into the socket, or loses it. *)
ToSocket(c) == \/ UNCHANGED wire
               \/ wire' = [wire EXCEPT ![mail[c].to] = Append(@, mail[c])]

(* Mutant: no interrupt for a lost packet. *)
TransmitLostSilently(c) ==
    /\ Wait(c, "locked")
    /\ lockHolder' = [lockHolder EXCEPT ![HostOf[c]] = c]
    /\ \/ UNCHANGED << wire, pending >>
       \/ /\ pending' = [pending EXCEPT ![HostOf[c]] = @ + 1]
          /\ wire' = [wire EXCEPT ![mail[c].to] = Append(@, mail[c])]
    /\ UNCHANGED << made, mail, sendLock, receiving, boxes >>

(* The rest of Acquire, network->Send, and the first turn of the P after it. *)
Transmit(c) == /\ Wait(c, "locked")
               /\ lockHolder' = [lockHolder EXCEPT ![HostOf[c]] = c]
               /\ pending' = [pending EXCEPT ![HostOf[c]] = @ + 1]
               /\ ToSocket(c)
               /\ UNCHANGED << made, mail, sendLock, receiving, boxes >>

WaitAgain(c) == /\ Wait(c, "wait")
                /\ UNCHANGED << made, mail, sendLock, lockHolder, pending, wire, receiving,
                                boxes >>

Release(c) == /\ Goes(c, "sent", "idle")
              /\ lockHolder' = [lockHolder EXCEPT ![HostOf[c]] = NoClient]
              /\ sendLock' = [sendLock EXCEPT ![HostOf[c]] = V(@)]
              /\ UNCHANGED << made, mail, messageSent, pending, wire, receiving, boxes >>

(* NetworkOutput::CallBack and PostOfficeOutput::CallBack.  (sendBusy is   *)
(* never set.)                                                             *)
SendCallBack(h) == /\ pending[h] > 0
                   /\ pending' = [pending EXCEPT ![h] = @ - 1]
                   /\ messageSent' = [messageSent EXCEPT ![h] = V(@)]
                   /\ UNCHANGED << pc, made, mail, sendLock, lockHolder, wire, receiving, boxes >>

-----------------------------------------------------------------------------

(* Mutant: a packet is read although one is buffered. *)
FullUntested(h) == wire[h] # << >>

(* if (inHdr.length != 0) return;  if (!PollSocket(sock)) return; *)
PacketCanEnter(h) == inbox[h] = NoMail /\ wire[h] # << >>

(* Mutant: the postal worker is not told. *)
ReceiveCallBackSilent(h) == /\ PacketCanEnter(h)
                            /\ inbox' = [inbox EXCEPT ![h] = Head(wire[h])]
                            /\ wire' = [wire EXCEPT ![h] = Tail(@)]
                            /\ UNCHANGED << pc, made, mail, sending, available, worker, hand,
                                            boxes >>

(* NetworkInput::CallBack and PostOfficeInput::CallBack. *)
ReceiveCallBack(h) == /\ PacketCanEnter(h)
                      /\ inbox' = [inbox EXCEPT ![h] = Head(wire[h])]
                      /\ wire' = [wire EXCEPT ![h] = Tail(@)]
                      /\ available' = [available EXCEPT ![h] = V(@)]
                      /\ UNCHANGED << pc, made, mail, sending, worker, hand, boxes >>

(* The postal worker: one turn of the loop of messageAvailable->P. *)
AwaitPacket(h) == /\ worker[h] = "wait"
                  /\ ~Asleep(available[h], Worker)
                  /\ worker' = [worker EXCEPT ![h] = IF Passes(available[h]) THEN "ready" ELSE @]
                  /\ available' = [available EXCEPT ![h] = Turn(@, Worker)]
                  /\ UNCHANGED << pc, made, mail, sending, wire, inbox, hand, boxes >>

(* Mutant: the buffer is not marked as empty. *)
FetchKeeps(h) == /\ worker[h] = "ready"
                 /\ worker' = [worker EXCEPT ![h] = "holding"]
                 /\ hand' = [hand EXCEPT ![h] = inbox[h]]
                 /\ UNCHANGED << pc, made, mail, sending, wire, inbox, available, boxes >>

(* NetworkInput::Receive. *)
Fetch(h) == /\ worker[h] = "ready"
            /\ worker' = [worker EXCEPT ![h] = "holding"]
            /\ hand' = [hand EXCEPT ![h] = inbox[h]]
            /\ inbox' = [inbox EXCEPT ![h] = NoMail]
            /\ UNCHANGED << pc, made, mail, sending, wire, available, boxes >>

(* MailBox::Put. *)
Put(h) == /\ worker[h] = "holding"
          /\ worker' = [worker EXCEPT ![h] = "wait"]
          /\ boxes' = [boxes EXCEPT ![h][hand[h].box] = Append(@, hand[h])]
          /\ hand' = [hand EXCEPT ![h] = NoMail]
          /\ UNCHANGED << pc, made, mail, sending, wire, inbox, available >>

(* MailBox::Get. *)
Receive(c) == LET box == boxes[HostOf[c]][mail[c].box] IN
              /\ Goes(c, "receive", "idle")
              /\ box # << >>
              /\ mail' = [mail EXCEPT ![c] = Head(box)]
              /\ boxes' = [boxes EXCEPT ![HostOf[c]][mail[c].box] = Tail(@)]
              /\ UNCHANGED << made, sending, wire, receiving >>

-----------------------------------------------------------------------------

(* What is on its way to machine h, the oldest first. *)
Held(x) == IF x = NoMail THEN << >> ELSE << x >>
InTransit(h) == Held(hand[h]) \o Held(inbox[h]) \o wire[h]

(* Nothing is left to do: every client made its calls, or waits at an empty*)
(* box for a mail that was lost or never sent.  The model stops; the       *)
(* machines go on polling.                                                 *)
Quiet == /\ \A c \in Clients :
                \/ pc[c] = "idle" /\ made[c] = MaxCalls
                \/ pc[c] = "receive" /\ boxes[HostOf[c]][mail[c].box] = << >>
         /\ \A h \in Hosts : /\ InTransit(h) = << >>
                             /\ pending[h] = 0
                             /\ Asleep(available[h], Worker)
         /\ UNCHANGED vars

Next == \/ \E c \in Clients : \/ Call(c) \/ Acquire(c) \/ Transmit(c) \/ WaitAgain(c)
                              \/ Release(c) \/ Receive(c)
        \/ \E h \in Hosts : \/ SendCallBack(h) \/ ReceiveCallBack(h) \/ AwaitPacket(h)
                            \/ Fetch(h) \/ Put(h)
        \/ Quiet

Spec == Init /\ [][Next]_vars

(* As in SynchDisk: the machines go on, and any of their threads may be next. *)
FairSpec == Spec /\ WF_vars(Next)

-----------------------------------------------------------------------------

(* Every variable keeps its type. *)
TypeOK == /\ pc \in [Clients -> PCs]
          /\ made \in [Clients -> 0 .. MaxCalls]
          /\ mail \in [Clients -> Mails \cup {NoMail}]
          /\ \A c \in Clients : pc[c] # "idle" => mail[c] \in Mails
          /\ sendLock \in [Hosts -> [value : Nat, queue : Seq(Clients)]]
          /\ lockHolder \in [Hosts -> Clients \cup {NoClient}]
          /\ messageSent \in [Hosts -> [value : Nat, queue : Seq(Clients)]]
          /\ \A h \in Hosts : /\ SemaphoreOK(sendLock[h], Clients)
                              /\ SemaphoreOK(messageSent[h], Clients)
                              /\ SemaphoreOK(available[h], {Worker})
          /\ pending \in [Hosts -> Nat]
          /\ wire \in [Hosts -> Seq(Mails)]
          /\ inbox \in [Hosts -> Mails \cup {NoMail}]
          /\ available \in [Hosts -> [value : Nat, queue : Seq({Worker})]]
          /\ worker \in [Hosts -> Places]
          /\ hand \in [Hosts -> Mails \cup {NoMail}]
          /\ boxes \in [Hosts -> [Boxes -> Seq(Mails)]]

(* The semaphore counts the packets in the buffer: a packet that entered it*)
(* is announced once and only once, so it is never written over, and the   *)
(* worker that passed messageAvailable->P finds it there.  (Receive does   *)
(* return an empty header when nothing is buffered, and PostalDelivery     *)
(* would deliver the rest of the mail before.)                             *)
InboxAnnounced ==
    \A h \in Hosts :
        /\ available[h].value + (IF worker[h] = "ready" THEN 1 ELSE 0)
             = (IF inbox[h] = NoMail THEN 0 ELSE 1)
        /\ (worker[h] = "holding") <=> (hand[h] # NoMail)

(* "only one message can be sent to the network at any one time"           *)
(* (post.cc:320), which NetworkOutput asserts with a sendBusy it never     *)
(* sets: a client that is about to send finds no answer to an earlier      *)
(* packet outstanding or uncollected, and one that waits has one coming.   *)
OneAtATime ==
    \A c \in Clients : LET h == HostOf[c] IN
        /\ pc[c] = "locked" => pending[h] = 0 /\ messageSent[h] = NewSemaphore(0)
        /\ pc[c] = "wait" => pending[h] + messageSent[h].value = 1

(* The post offices are the LossyMail of their clients. *)
Phase(c) == CASE pc[c] = "idle" -> "none"
              [] pc[c] \in {"acquire", "locked"} -> "send"
              [] pc[c] \in {"wait", "sent"} -> "sent"
              [] pc[c] = "receive" -> "receive"

Abstract == INSTANCE LossyMail WITH transit <- [h \in Hosts |-> InTransit(h)],
                                    phase <- [c \in Clients |-> Phase(c)]

ImplementsLossyMail == Abstract!Spec

(* Every Send returns, that of a lost packet too ("Called even if the      *)
(* previous packet was dropped", post.cc:336), and what was not lost       *)
(* reaches its box: the clients make finitely many calls, and in the end   *)
(* none is inside Send and nothing is on its way.                          *)
Settles == <>[](/\ \A c \in Clients : pc[c] \in {"idle", "receive"}
                /\ \A h \in Hosts : InTransit(h) = << >>)
===============================================================================
