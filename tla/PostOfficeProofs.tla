--------------------------- MODULE PostOfficeProofs ---------------------------
(***************************************************************************)
(* The safety of PostOffice for every set of machines, clients and boxes   *)
(* and every number of calls, and that it implements LossyMail.            *)
(***************************************************************************)
EXTENDS PostOffice, SemaphoreProofs

USE HostsAssumption, NamesAssumption, CallsAssumption, NoMailAssumption

(* TypeOK in two halves: what clients and the send interrupt change, and   *)
(* what the network, the postal worker and the mailboxes do.               *)
SendTypes == /\ pc \in [Clients -> PCs]
             /\ made \in [Clients -> 0 .. MaxCalls]
             /\ mail \in [Clients -> Mails \cup {NoMail}]
             /\ \A c \in Clients : pc[c] # "idle" => mail[c] \in Mails
             /\ sendLock \in [Hosts -> [value : Nat, queue : Seq(Clients)]]
             /\ lockHolder \in [Hosts -> Clients \cup {NoClient}]
             /\ messageSent \in [Hosts -> [value : Nat, queue : Seq(Clients)]]
             /\ \A h \in Hosts : /\ SemaphoreOK(sendLock[h], Clients)
                                 /\ SemaphoreOK(messageSent[h], Clients)
             /\ pending \in [Hosts -> Nat]

MailTypes == /\ wire \in [Hosts -> Seq(Mails)]
             /\ inbox \in [Hosts -> Mails \cup {NoMail}]
             /\ available \in [Hosts -> [value : Nat, queue : Seq({Worker})]]
             /\ \A h \in Hosts : SemaphoreOK(available[h], {Worker})
             /\ worker \in [Hosts -> Places]
             /\ hand \in [Hosts -> Mails \cup {NoMail}]
             /\ boxes \in [Hosts -> [Boxes -> Seq(Mails)]]

(* The client is past the lock of its machine. *)
Sends(c) == pc[c] \in {"locked", "wait", "sent"}

LockInv == \A h \in Hosts :
              /\ sendLock[h].value \in {0, 1}
              /\ sendLock[h].value = 1 <=> \A c \in Clients : HostOf[c] = h => ~Sends(c)

OneSender == \A c, d \in Clients : Sends(c) /\ Sends(d) /\ HostOf[c] = HostOf[d] => c = d

HolderInv == \A c \in Clients : pc[c] \in {"wait", "sent"} => lockHolder[HostOf[c]] = c

(* The interrupt of a machine's last packet is outstanding and the client  *)
(* sleeps; or it came; or nobody waits for one.                            *)
Unanswered(h, c) == pending[h] = 1 /\ messageSent[h] = [value |-> 0, queue |-> << c >>]
Answered(h) == pending[h] = 0 /\ messageSent[h] = NewSemaphore(1)
Quiescent(h) == pending[h] = 0 /\ messageSent[h] = NewSemaphore(0)

AnswerInv ==
    /\ \A h \in Hosts : (\A c \in Clients : HostOf[c] = h => pc[c] # "wait") => Quiescent(h)
    /\ \A c \in Clients : pc[c] = "wait" => Unanswered(HostOf[c], c) \/ Answered(HostOf[c])

SendInv == SendTypes /\ LockInv /\ OneSender /\ HolderInv /\ AnswerInv
MailInv == MailTypes /\ InboxAnnounced

LEMMA TypeParts == TypeOK <=> SendTypes /\ MailTypes
BY DEF TypeOK, SendTypes, MailTypes

-----------------------------------------------------------------------------

LEMMA InitInv == Init => SendInv /\ MailInv
<1> SUFFICES ASSUME Init PROVE SendInv /\ MailInv
  OBVIOUS
<1>1. \A T : SemaphoreOK(NewSemaphore(0), T) /\ SemaphoreOK(NewSemaphore(1), T)
  BY NewSemaphoreProperties
<1>2. NewSemaphore(0).value = 0 /\ NewSemaphore(1).value = 1
  BY DEF NewSemaphore
<1>3. \A T : NewSemaphore(0) \in [value : Nat, queue : Seq(T)]
             /\ NewSemaphore(1) \in [value : Nat, queue : Seq(T)]
  BY <1>1 DEF SemaphoreOK
<1>4. SendTypes
  BY <1>1, <1>3 DEF Init, SendTypes, PCs
<1>5. MailTypes
  <2>1. << >> \in Seq(Mails)
    OBVIOUS
  <2>2. QED
    BY <1>1, <1>3, <2>1 DEF Init, MailTypes, Places
<1>6. LockInv /\ OneSender /\ HolderInv
  BY <1>2 DEF Init, LockInv, OneSender, HolderInv, Sends
<1>7. AnswerInv
  BY DEF Init, AnswerInv, Quiescent
<1>8. InboxAnnounced
  BY <1>2 DEF Init, InboxAnnounced
<1>9. QED
  BY <1>4, <1>5, <1>6, <1>7, <1>8 DEF SendInv, MailInv

-----------------------------------------------------------------------------
(* The steps of a client and of the send interrupt.                        *)

LEMMA CallInv ==
    ASSUME SendInv, NEW c \in Clients, Call(c) PROVE SendInv'
<1> USE DEF SendInv
<1>1. /\ pc[c] = "idle"
      /\ pc' = [pc EXCEPT ![c] = "acquire"] \/ pc' = [pc EXCEPT ![c] = "receive"]
      /\ made[c] < MaxCalls /\ made' = [made EXCEPT ![c] = @ + 1]
      /\ UNCHANGED << sendLock, lockHolder, messageSent, pending >>
  BY DEF Call, Goes, sending
<1>2. PICK h \in Hosts, b \in Boxes :
         mail' = [mail EXCEPT ![c] = [from |-> c, no |-> made'[c], to |-> h, box |-> b]]
  BY DEF Call
<1>3. made' \in [Clients -> 0 .. MaxCalls] /\ made'[c] \in 1 .. MaxCalls
  BY <1>1 DEF SendTypes
<1>4. [from |-> c, no |-> made'[c], to |-> h, box |-> b] \in Mails
  BY <1>3 DEF Mails
<1>5. SendTypes'
  <2>1. pc' \in [Clients -> PCs] /\ \A d \in Clients : d # c => pc'[d] = pc[d]
    BY <1>1 DEF SendTypes, PCs
  <2>2. mail' \in [Clients -> Mails \cup {NoMail}]
    BY <1>2, <1>4 DEF SendTypes
  <2>3. \A d \in Clients : pc'[d] # "idle" => mail'[d] \in Mails
    BY <1>2, <1>4, <2>1 DEF SendTypes
  <2>4. QED
    BY <1>1, <1>3, <2>1, <2>2, <2>3 DEF SendTypes
<1>6. \A d \in Clients : /\ Sends(d)' <=> Sends(d)
                         /\ pc'[d] \in {"wait", "sent"} <=> pc[d] \in {"wait", "sent"}
                         /\ pc'[d] = "wait" <=> pc[d] = "wait"
  BY <1>1 DEF SendTypes, Sends
<1>7. LockInv' /\ OneSender' /\ HolderInv'
  BY <1>1, <1>6 DEF LockInv, OneSender, HolderInv
<1>8. AnswerInv'
  BY <1>1, <1>6 DEF AnswerInv, Unanswered, Answered, Quiescent
<1>9. QED
  BY <1>5, <1>7, <1>8

LEMMA AcquireInv ==
    ASSUME SendInv, NEW c \in Clients, Acquire(c) PROVE SendInv'
<1> DEFINE h == HostOf[c]
           s == sendLock[h]
<1> USE DEF SendInv
<1>1. /\ pc[c] = "acquire" /\ h \in Hosts /\ ~Asleep(s, c)
      /\ pc' = [pc EXCEPT ![c] = IF Passes(s) THEN "locked" ELSE "acquire"]
      /\ sendLock' = [sendLock EXCEPT ![h] = Turn(s, c)]
      /\ UNCHANGED << made, mail, lockHolder, messageSent, pending >>
  BY DEF Acquire, Goes
<1>2. SemaphoreOK(s, Clients)
  BY <1>1 DEF SendTypes
<1> HIDE DEF s
<1>3. /\ SemaphoreOK(Turn(s, c), Clients)
      /\ Passes(s)  => Turn(s, c).value = s.value - 1
      /\ ~Passes(s) => Turn(s, c).value = 0
  BY <1>1, <1>2, TurnProperties
<1>4. Turn(s, c) \in [value : Nat, queue : Seq(Clients)]
  BY <1>3 DEF SemaphoreOK
<1>5. \A g \in Hosts : sendLock'[g] = IF g = h THEN Turn(s, c) ELSE sendLock[g]
  BY <1>1 DEF SendTypes
<1>6. SendTypes'
  <2>1. pc' \in [Clients -> PCs] /\ \A d \in Clients : d # c => pc'[d] = pc[d]
    BY <1>1 DEF SendTypes, PCs
  <2>2. sendLock' \in [Hosts -> [value : Nat, queue : Seq(Clients)]]
    BY <1>1, <1>4 DEF SendTypes
  <2>3. \A g \in Hosts : SemaphoreOK(sendLock'[g], Clients)
    BY <1>3, <1>5 DEF SendTypes
  <2>4. QED
    BY <1>1, <2>1, <2>2, <2>3 DEF SendTypes
<1>7. s.value \in {0, 1} /\ (s.value = 1 <=> \A d \in Clients : HostOf[d] = h => ~Sends(d))
  BY <1>1 DEF LockInv, s
<1>8. \A d \in Clients : /\ d # c => (Sends(d)' <=> Sends(d))
                         /\ Sends(c)' <=> Passes(s)
                         /\ pc'[d] \notin {"wait", "sent"} <=> pc[d] \notin {"wait", "sent"}
                         /\ pc'[d] = "wait" <=> pc[d] = "wait"
  BY <1>1 DEF SendTypes, Sends
<1>9. LockInv'
  BY <1>1, <1>3, <1>5, <1>7, <1>8 DEF LockInv, Passes, Sends
<1>10. OneSender'
  BY <1>1, <1>7, <1>8 DEF OneSender, Passes
<1>11. HolderInv'
  BY <1>1, <1>8 DEF HolderInv
<1>12. AnswerInv'
  BY <1>1, <1>8 DEF AnswerInv, Unanswered, Answered, Quiescent
<1>13. QED
  BY <1>6, <1>9, <1>10, <1>11, <1>12

(* A turn of the loop of messageSent->P, which leaves the lock alone.      *)
LEMMA WaitTypes ==
    ASSUME SendTypes, NEW c \in Clients, NEW from \in {"locked", "wait"}, Wait(c, from),
           UNCHANGED << made, mail, sendLock >>,
           lockHolder' \in [Hosts -> Clients \cup {NoClient}], pending' \in [Hosts -> Nat]
    PROVE  SendTypes'
<1> DEFINE h == HostOf[c]
           s == messageSent[h]
<1>1. /\ pc[c] = from /\ h \in Hosts /\ ~Asleep(s, c)
      /\ pc' = [pc EXCEPT ![c] = IF Passes(s) THEN "sent" ELSE "wait"]
      /\ messageSent' = [messageSent EXCEPT ![h] = Turn(s, c)]
  BY DEF Wait, Goes
<1>2. SemaphoreOK(s, Clients)
  BY <1>1 DEF SendTypes
<1> HIDE DEF s
<1>3. SemaphoreOK(Turn(s, c), Clients)
  BY <1>1, <1>2, TurnProperties
<1>4. Turn(s, c) \in [value : Nat, queue : Seq(Clients)]
  BY <1>3 DEF SemaphoreOK
<1>5. pc' \in [Clients -> PCs] /\ \A d \in Clients : d # c => pc'[d] = pc[d]
  BY <1>1 DEF SendTypes, PCs
<1>6. \A d \in Clients : pc'[d] # "idle" => mail'[d] \in Mails
  BY <1>1, <1>5 DEF SendTypes
<1>7. messageSent' \in [Hosts -> [value : Nat, queue : Seq(Clients)]]
  BY <1>1, <1>4 DEF SendTypes
<1>8. \A g \in Hosts : SemaphoreOK(messageSent'[g], Clients)
  BY <1>1, <1>3 DEF SendTypes
<1>9. QED
  BY <1>5, <1>6, <1>7, <1>8 DEF SendTypes

(* The first turn is a turn at a closed semaphore: the sender sleeps until *)
(* the interrupt of its own packet.                                        *)
LEMMA TransmitInv ==
    ASSUME SendInv, NEW c \in Clients, Transmit(c) PROVE SendInv'
<1> DEFINE h == HostOf[c]
<1> USE DEF SendInv
<1>1. /\ pc[c] = "locked" /\ h \in Hosts /\ Wait(c, "locked")
      /\ lockHolder' = [lockHolder EXCEPT ![h] = c]
      /\ pending' = [pending EXCEPT ![h] = @ + 1]
      /\ UNCHANGED << made, mail, sendLock >>
  BY DEF Transmit, Wait, Goes
<1>2. SendTypes'
  <2>1. lockHolder' \in [Hosts -> Clients \cup {NoClient}] /\ pending' \in [Hosts -> Nat]
    BY <1>1 DEF SendTypes
  <2>2. QED
    BY <1>1, <2>1, WaitTypes
<1>3. \A d \in Clients : Sends(d) /\ HostOf[d] = h => d = c
  BY <1>1 DEF OneSender, Sends
<1>4. Quiescent(h)
  BY <1>1, <1>3 DEF AnswerInv, Sends
<1>5. /\ messageSent' = [messageSent EXCEPT ![h] = [value |-> 0, queue |-> << c >>]]
      /\ pc' = [pc EXCEPT ![c] = "wait"]
  <2>1. ~Passes(messageSent[h])
    BY <1>4 DEF Quiescent, NewSemaphore, Passes
  <2>2. Turn(messageSent[h], c) = [value |-> 0, queue |-> << c >>]
    BY <1>4, <2>1 DEF Quiescent, NewSemaphore, Turn
  <2>3. QED
    BY <1>1, <2>1, <2>2 DEF Wait, Goes
<1>6. \A d \in Clients : /\ Sends(d)' <=> Sends(d)
                         /\ pc'[d] = IF d = c THEN "wait" ELSE pc[d]
  BY <1>1, <1>5 DEF SendTypes, Sends
<1>7. LockInv' /\ OneSender'
  BY <1>1, <1>6 DEF LockInv, OneSender
<1>8. HolderInv'
  BY <1>1, <1>3, <1>6 DEF HolderInv, Sends, SendTypes
<1>9. \A g \in Hosts : g # h => /\ pending'[g] = pending[g]
                                /\ messageSent'[g] = messageSent[g]
  BY <1>1, <1>5 DEF SendTypes
<1>10. Unanswered(h, c)'
  <2>1. pending[h] = 0
    BY <1>4 DEF Quiescent
  <2>2. pending'[h] = 1 /\ messageSent'[h] = [value |-> 0, queue |-> << c >>]
    BY <1>1, <1>5, <2>1 DEF SendTypes
  <2>3. QED
    BY <2>2 DEF Unanswered
<1>11. AnswerInv'
  <2>1. ASSUME NEW g \in Hosts, \A d \in Clients : HostOf[d] = g => pc'[d] # "wait"
        PROVE  Quiescent(g)'
    <3>1. g # h /\ \A d \in Clients : HostOf[d] = g => pc[d] # "wait"
      BY <1>6, <2>1
    <3>2. QED
      BY <1>9, <3>1 DEF AnswerInv, Quiescent
  <2>2. ASSUME NEW d \in Clients, pc'[d] = "wait"
        PROVE  Unanswered(HostOf[d], d)' \/ Answered(HostOf[d])'
    <3>1. CASE d = c
      BY <1>10, <3>1
    <3>2. CASE d # c
      <4>1. pc[d] = "wait" /\ HostOf[d] \in Hosts /\ HostOf[d] # h
        BY <1>3, <1>6, <2>2, <3>2 DEF Sends
      <4>2. QED
        BY <1>9, <4>1 DEF AnswerInv, Unanswered, Answered
    <3>3. QED
      BY <3>1, <3>2
  <2>3. QED
    BY <2>1, <2>2 DEF AnswerInv
<1>12. QED
  BY <1>2, <1>7, <1>8, <1>11

(* A later turn is one of an awake client, so the interrupt came: it ends  *)
(* the P.                                                                  *)
LEMMA WaitAgainInv ==
    ASSUME SendInv, NEW c \in Clients, WaitAgain(c) PROVE SendInv'
<1> DEFINE h == HostOf[c]
<1> USE DEF SendInv
<1>1. /\ pc[c] = "wait" /\ h \in Hosts /\ Wait(c, "wait") /\ ~Asleep(messageSent[h], c)
      /\ UNCHANGED << made, mail, sendLock, lockHolder, pending >>
  BY DEF WaitAgain, Wait, Goes
<1>2. SendTypes'
  BY <1>1, WaitTypes DEF SendTypes
<1>3. \A d \in Clients : Sends(d) /\ HostOf[d] = h => d = c
  BY <1>1 DEF OneSender, Sends
<1>4. Answered(h)
  <2>1. c \in Range(<< c >>)
    BY DEF Range
  <2>2. messageSent[h] # [value |-> 0, queue |-> << c >>]
    BY <1>1, <2>1 DEF Asleep, Sleepers
  <2>3. QED
    BY <1>1, <2>2 DEF AnswerInv, Unanswered
<1>5. /\ messageSent' = [messageSent EXCEPT ![h] = NewSemaphore(0)]
      /\ pc' = [pc EXCEPT ![c] = "sent"]
  <2>1. Passes(messageSent[h]) /\ messageSent[h] = [value |-> 1, queue |-> << >>]
    BY <1>4 DEF Answered, NewSemaphore, Passes
  <2>2. Turn(messageSent[h], c) = NewSemaphore(0)
    BY <2>1 DEF NewSemaphore, Turn
  <2>3. QED
    BY <1>1, <2>1, <2>2 DEF Wait, Goes
<1>6. \A d \in Clients : /\ Sends(d)' <=> Sends(d)
                         /\ pc'[d] = IF d = c THEN "sent" ELSE pc[d]
  BY <1>1, <1>5 DEF SendTypes, Sends
<1>7. LockInv' /\ OneSender' /\ HolderInv'
  BY <1>1, <1>6 DEF LockInv, OneSender, HolderInv
<1>8. \A g \in Hosts : messageSent'[g] = IF g = h THEN NewSemaphore(0) ELSE messageSent[g]
  BY <1>5 DEF SendTypes
<1>9. AnswerInv'
  <2>1. ASSUME NEW g \in Hosts, \A d \in Clients : HostOf[d] = g => pc'[d] # "wait"
        PROVE  Quiescent(g)'
    <3>1. CASE g = h
      BY <1>1, <1>4, <1>8, <3>1 DEF Answered, Quiescent
    <3>2. CASE g # h
      <4>1. \A d \in Clients : HostOf[d] = g => pc[d] # "wait"
        BY <1>6, <2>1, <3>2
      <4>2. QED
        BY <1>1, <1>8, <3>2, <4>1 DEF AnswerInv, Quiescent
    <3>3. QED
      BY <3>1, <3>2
  <2>2. ASSUME NEW d \in Clients, pc'[d] = "wait"
        PROVE  Unanswered(HostOf[d], d)' \/ Answered(HostOf[d])'
    <3>1. pc[d] = "wait" /\ HostOf[d] \in Hosts /\ HostOf[d] # h
      BY <1>3, <1>6, <2>2 DEF Sends
    <3>2. QED
      BY <1>1, <1>8, <3>1 DEF AnswerInv, Unanswered, Answered
  <2>3. QED
    BY <2>1, <2>2 DEF AnswerInv
<1>10. QED
  BY <1>2, <1>7, <1>9

LEMMA ReleaseInv ==
    ASSUME SendInv, NEW c \in Clients, Release(c) PROVE SendInv'
<1> DEFINE h == HostOf[c]
           s == sendLock[h]
<1> USE DEF SendInv
<1>1. /\ pc[c] = "sent" /\ h \in Hosts
      /\ pc' = [pc EXCEPT ![c] = "idle"]
      /\ lockHolder' = [lockHolder EXCEPT ![h] = NoClient]
      /\ sendLock' = [sendLock EXCEPT ![h] = V(s)]
      /\ UNCHANGED << made, mail, messageSent, pending >>
  BY DEF Release, Goes
<1>2. SemaphoreOK(s, Clients)
  BY <1>1 DEF SendTypes
<1>3. s.value = 0
  BY <1>1 DEF LockInv, Sends
<1> HIDE DEF s
<1>4. SemaphoreOK(V(s), Clients) /\ V(s).value = 1
  <2>1. SemaphoreOK(V(s), Clients) /\ V(s).value = s.value + 1
    BY <1>2, VProperties
  <2>2. QED
    BY <1>3, <2>1
<1>5. V(s) \in [value : Nat, queue : Seq(Clients)]
  BY <1>4 DEF SemaphoreOK
<1>6. \A g \in Hosts : sendLock'[g] = IF g = h THEN V(s) ELSE sendLock[g]
  BY <1>1 DEF SendTypes
<1>7. SendTypes'
  <2>1. pc' \in [Clients -> PCs] /\ \A d \in Clients : pc'[d] # "idle" => mail'[d] \in Mails
    BY <1>1 DEF SendTypes, PCs
  <2>2. sendLock' \in [Hosts -> [value : Nat, queue : Seq(Clients)]]
    BY <1>1, <1>5 DEF SendTypes
  <2>3. \A g \in Hosts : SemaphoreOK(sendLock'[g], Clients)
    BY <1>4, <1>6 DEF SendTypes
  <2>4. lockHolder' \in [Hosts -> Clients \cup {NoClient}]
    BY <1>1 DEF SendTypes
  <2>5. QED
    BY <1>1, <2>1, <2>2, <2>3, <2>4 DEF SendTypes
<1>8. \A d \in Clients : Sends(d) /\ HostOf[d] = h => d = c
  BY <1>1 DEF OneSender, Sends
<1>9. \A d \in Clients : pc'[d] = IF d = c THEN "idle" ELSE pc[d]
  BY <1>1 DEF SendTypes
<1>10. LockInv'
  <2>1. ASSUME NEW g \in Hosts
        PROVE  /\ sendLock'[g].value \in {0, 1}
               /\ sendLock'[g].value = 1 <=> \A d \in Clients : HostOf[d] = g => ~Sends(d)'
    <3>1. CASE g = h
      BY <1>4, <1>6, <1>8, <1>9, <3>1 DEF Sends
    <3>2. CASE g # h
      BY <1>6, <1>9, <3>2 DEF LockInv, Sends
    <3>3. QED
      BY <3>1, <3>2
  <2>2. QED
    BY <2>1 DEF LockInv
<1>11. OneSender'
  BY <1>9 DEF OneSender, Sends
<1>12. HolderInv'
  BY <1>1, <1>8, <1>9 DEF HolderInv, Sends, SendTypes
<1>13. AnswerInv'
  BY <1>1, <1>9 DEF AnswerInv, Unanswered, Answered, Quiescent
<1>14. QED
  BY <1>7, <1>10, <1>11, <1>12, <1>13

(* NetworkOutput::CallBack wakes the one client whose packet it was.       *)
LEMMA SendCallBackInv ==
    ASSUME SendInv, NEW h \in Hosts, SendCallBack(h) PROVE SendInv'
<1> USE DEF SendInv
<1>1. /\ pending[h] > 0 /\ pending' = [pending EXCEPT ![h] = @ - 1]
      /\ messageSent' = [messageSent EXCEPT ![h] = V(messageSent[h])]
      /\ UNCHANGED << pc, made, mail, sendLock, lockHolder >>
  BY DEF SendCallBack
<1>2. PICK c \in Clients : HostOf[c] = h /\ pc[c] = "wait"
  BY <1>1 DEF AnswerInv, Quiescent
<1>3. Unanswered(h, c)
  BY <1>1, <1>2 DEF AnswerInv, Answered
<1>4. V(messageSent[h]) = NewSemaphore(1)
  <2>1. Tail(<< c >>) = << >>
    OBVIOUS
  <2>2. QED
    BY <1>3, <2>1 DEF Unanswered, V, NewSemaphore
<1>5. \A g \in Hosts : /\ messageSent'[g] = IF g = h THEN NewSemaphore(1) ELSE messageSent[g]
                       /\ pending'[g] = IF g = h THEN 0 ELSE pending[g]
  BY <1>1, <1>3, <1>4 DEF SendTypes, Unanswered
<1>6. SendTypes'
  <2>1. SemaphoreOK(NewSemaphore(1), Clients)
    BY NewSemaphoreProperties
  <2>2. NewSemaphore(1) \in [value : Nat, queue : Seq(Clients)]
    BY <2>1 DEF SemaphoreOK
  <2>3. messageSent' \in [Hosts -> [value : Nat, queue : Seq(Clients)]]
    BY <1>1, <1>4, <2>2 DEF SendTypes
  <2>4. \A g \in Hosts : SemaphoreOK(messageSent'[g], Clients)
    BY <1>5, <2>1 DEF SendTypes
  <2>5. pending' \in [Hosts -> Nat]
    <3>1. pending[h] - 1 = 0
      BY <1>3 DEF Unanswered
    <3>2. QED
      BY <1>1, <3>1 DEF SendTypes
  <2>6. QED
    BY <1>1, <2>3, <2>4, <2>5 DEF SendTypes
<1>7. LockInv' /\ OneSender' /\ HolderInv'
  BY <1>1 DEF LockInv, OneSender, HolderInv, Sends
<1>8. \A d \in Clients : pc[d] = "wait" /\ HostOf[d] = h => d = c
  BY <1>2 DEF OneSender, Sends
<1>9. AnswerInv'
  <2>1. ASSUME NEW g \in Hosts, \A d \in Clients : HostOf[d] = g => pc'[d] # "wait"
        PROVE  Quiescent(g)'
    <3>1. g # h /\ \A d \in Clients : HostOf[d] = g => pc[d] # "wait"
      BY <1>1, <1>2, <2>1
    <3>2. QED
      BY <1>5, <3>1 DEF AnswerInv, Quiescent
  <2>2. ASSUME NEW d \in Clients, pc'[d] = "wait"
        PROVE  Unanswered(HostOf[d], d)' \/ Answered(HostOf[d])'
    <3>1. pc[d] = "wait" /\ HostOf[d] \in Hosts
      BY <1>1, <2>2
    <3>2. CASE HostOf[d] = h
      BY <1>5, <3>2 DEF Answered
    <3>3. CASE HostOf[d] # h
      BY <1>5, <3>1, <3>3 DEF AnswerInv, Unanswered, Answered
    <3>4. QED
      BY <3>2, <3>3
  <2>3. QED
    BY <2>1, <2>2 DEF AnswerInv
<1>10. QED
  BY <1>6, <1>7, <1>9

-----------------------------------------------------------------------------
(* The steps of the network and the postal worker.                         *)

LEMMA ReceiveCallBackInv ==
    ASSUME MailInv, NEW h \in Hosts, ReceiveCallBack(h) PROVE MailInv'
<1> USE DEF MailInv
<1>1. /\ inbox[h] = NoMail /\ wire[h] # << >>
      /\ inbox' = [inbox EXCEPT ![h] = Head(wire[h])]
      /\ wire' = [wire EXCEPT ![h] = Tail(@)]
      /\ available' = [available EXCEPT ![h] = V(available[h])]
      /\ UNCHANGED << worker, hand, boxes >>
  BY DEF ReceiveCallBack, PacketCanEnter
<1>2. Head(wire[h]) \in Mails /\ Tail(wire[h]) \in Seq(Mails)
  BY <1>1, HeadTailProperties DEF MailTypes
<1>3. /\ SemaphoreOK(V(available[h]), {Worker})
      /\ V(available[h]).value = available[h].value + 1
  BY VProperties DEF MailTypes
<1>4. V(available[h]) \in [value : Nat, queue : Seq({Worker})]
  BY <1>3 DEF SemaphoreOK
<1>5. \A g \in Hosts : /\ available'[g] = IF g = h THEN V(available[h]) ELSE available[g]
                       /\ inbox'[g] = IF g = h THEN Head(wire[h]) ELSE inbox[g]
  BY <1>1 DEF MailTypes
<1>6. MailTypes'
  <2>1. available' \in [Hosts -> [value : Nat, queue : Seq({Worker})]]
    BY <1>1, <1>4 DEF MailTypes
  <2>2. \A g \in Hosts : SemaphoreOK(available'[g], {Worker})
    BY <1>3, <1>5 DEF MailTypes
  <2>3. inbox' \in [Hosts -> Mails \cup {NoMail}] /\ wire' \in [Hosts -> Seq(Mails)]
    BY <1>1, <1>2 DEF MailTypes
  <2>4. QED
    BY <1>1, <2>1, <2>2, <2>3 DEF MailTypes
<1>7. available[h].value \in Nat
  BY DEF MailTypes, SemaphoreOK
<1>8. InboxAnnounced'
  BY <1>1, <1>2, <1>3, <1>5, <1>7 DEF InboxAnnounced
<1>9. QED
  BY <1>6, <1>8

LEMMA AwaitPacketInv ==
    ASSUME MailInv, NEW h \in Hosts, AwaitPacket(h) PROVE MailInv'
<1> DEFINE s == available[h]
<1> USE DEF MailInv
<1>1. /\ worker[h] = "wait" /\ ~Asleep(s, Worker)
      /\ worker' = [worker EXCEPT ![h] = IF Passes(s) THEN "ready" ELSE "wait"]
      /\ available' = [available EXCEPT ![h] = Turn(s, Worker)]
      /\ UNCHANGED << wire, inbox, hand, boxes >>
  BY DEF AwaitPacket
<1>2. SemaphoreOK(s, {Worker}) /\ s.value \in Nat
  BY DEF MailTypes, SemaphoreOK
<1> HIDE DEF s
<1>3. /\ SemaphoreOK(Turn(s, Worker), {Worker})
      /\ Passes(s)  => Turn(s, Worker).value = s.value - 1
      /\ ~Passes(s) => Turn(s, Worker).value = 0
  BY <1>1, <1>2, TurnProperties
<1>4. Turn(s, Worker) \in [value : Nat, queue : Seq({Worker})]
  BY <1>3 DEF SemaphoreOK
<1>5. \A g \in Hosts :
         /\ available'[g] = IF g = h THEN Turn(s, Worker) ELSE available[g]
         /\ worker'[g] = IF g = h THEN IF Passes(s) THEN "ready" ELSE "wait" ELSE worker[g]
  BY <1>1 DEF MailTypes
<1>6. MailTypes'
  <2>1. available' \in [Hosts -> [value : Nat, queue : Seq({Worker})]]
    BY <1>1, <1>4 DEF MailTypes
  <2>2. \A g \in Hosts : SemaphoreOK(available'[g], {Worker})
    BY <1>3, <1>5 DEF MailTypes
  <2>3. worker' \in [Hosts -> Places]
    BY <1>1 DEF MailTypes, Places
  <2>4. QED
    BY <1>1, <2>1, <2>2, <2>3 DEF MailTypes
<1>7. s.value = IF inbox[h] = NoMail THEN 0 ELSE 1
  BY <1>1, <1>2 DEF InboxAnnounced, s
<1>8. InboxAnnounced'
  BY <1>1, <1>2, <1>3, <1>5, <1>7 DEF InboxAnnounced, Passes
<1>9. QED
  BY <1>6, <1>8

(* The worker that passed messageAvailable->P finds the packet.            *)
LEMMA ReadyFindsPacket ==
    ASSUME MailInv, NEW h \in Hosts, worker[h] = "ready"
    PROVE  inbox[h] \in Mails /\ available[h].value = 0 /\ hand[h] = NoMail
<1>1. available[h].value \in Nat
  BY DEF MailInv, MailTypes, SemaphoreOK
<1>2. QED
  BY <1>1 DEF MailInv, MailTypes, InboxAnnounced

LEMMA FetchInv ==
    ASSUME MailInv, NEW h \in Hosts, Fetch(h) PROVE MailInv'
<1> USE DEF MailInv
<1>1. /\ worker[h] = "ready"
      /\ worker' = [worker EXCEPT ![h] = "holding"]
      /\ hand' = [hand EXCEPT ![h] = inbox[h]]
      /\ inbox' = [inbox EXCEPT ![h] = NoMail]
      /\ UNCHANGED << wire, available, boxes >>
  BY DEF Fetch
<1>2. inbox[h] \in Mails /\ available[h].value = 0
  BY <1>1, ReadyFindsPacket
<1>3. MailTypes'
  BY <1>1 DEF MailTypes, Places
<1>4. \A g \in Hosts : /\ worker'[g] = IF g = h THEN "holding" ELSE worker[g]
                       /\ hand'[g] = IF g = h THEN inbox[h] ELSE hand[g]
                       /\ inbox'[g] = IF g = h THEN NoMail ELSE inbox[g]
  BY <1>1 DEF MailTypes
<1>5. InboxAnnounced'
  BY <1>1, <1>2, <1>4 DEF InboxAnnounced
<1>6. QED
  BY <1>3, <1>5

LEMMA PutInv ==
    ASSUME MailInv, NEW h \in Hosts, Put(h) PROVE MailInv'
<1> DEFINE m == hand[h]
<1> USE DEF MailInv
<1>1. /\ worker[h] = "holding"
      /\ worker' = [worker EXCEPT ![h] = "wait"]
      /\ boxes' = [boxes EXCEPT ![h][m.box] = Append(@, m)]
      /\ hand' = [hand EXCEPT ![h] = NoMail]
      /\ UNCHANGED << wire, inbox, available >>
  BY DEF Put
<1>2. m \in Mails /\ m.box \in Boxes
  BY <1>1 DEF MailTypes, InboxAnnounced, Mails
<1> HIDE DEF m
<1>3. boxes' \in [Hosts -> [Boxes -> Seq(Mails)]]
  BY <1>1, <1>2 DEF MailTypes
<1>4. MailTypes'
  BY <1>1, <1>3 DEF MailTypes, Places
<1>5. \A g \in Hosts : /\ worker'[g] = IF g = h THEN "wait" ELSE worker[g]
                       /\ hand'[g] = IF g = h THEN NoMail ELSE hand[g]
  BY <1>1 DEF MailTypes
<1>6. InboxAnnounced'
  BY <1>1, <1>5 DEF InboxAnnounced
<1>7. QED
  BY <1>4, <1>6

(* MailBox::Get is a step of both halves.                                  *)
LEMMA ReceiveInv ==
    ASSUME SendInv, MailInv, NEW c \in Clients, Receive(c) PROVE SendInv' /\ MailInv'
<1> DEFINE h == HostOf[c]
           b == mail[c].box
<1> USE DEF SendInv, MailInv
<1>1. /\ pc[c] = "receive" /\ pc' = [pc EXCEPT ![c] = "idle"] /\ h \in Hosts
      /\ boxes[h][b] # << >>
      /\ mail' = [mail EXCEPT ![c] = Head(boxes[h][b])]
      /\ boxes' = [boxes EXCEPT ![h][b] = Tail(@)]
      /\ UNCHANGED << made, sendLock, lockHolder, messageSent, pending, wire, inbox,
                      available, worker, hand >>
  BY DEF Receive, Goes, sending, receiving
<1>2. b \in Boxes
  BY <1>1 DEF SendTypes, Mails
<1>3. boxes[h][b] \in Seq(Mails)
  BY <1>1, <1>2 DEF MailTypes
<1>4. Head(boxes[h][b]) \in Mails /\ Tail(boxes[h][b]) \in Seq(Mails)
  BY <1>1, <1>3, HeadTailProperties
<1> HIDE DEF b
<1>5. SendTypes'
  <2>1. pc' \in [Clients -> PCs] /\ mail' \in [Clients -> Mails \cup {NoMail}]
    BY <1>1, <1>4 DEF SendTypes, PCs
  <2>2. \A d \in Clients : pc'[d] # "idle" => mail'[d] \in Mails
    BY <1>1, <1>4 DEF SendTypes
  <2>3. QED
    BY <1>1, <2>1, <2>2 DEF SendTypes
<1>6. \A d \in Clients : /\ Sends(d)' <=> Sends(d)
                         /\ pc'[d] \in {"wait", "sent"} <=> pc[d] \in {"wait", "sent"}
                         /\ pc'[d] = "wait" <=> pc[d] = "wait"
  BY <1>1 DEF SendTypes, Sends
<1>7. LockInv' /\ OneSender' /\ HolderInv'
  BY <1>1, <1>6 DEF LockInv, OneSender, HolderInv
<1>8. AnswerInv'
  BY <1>1, <1>6 DEF AnswerInv, Unanswered, Answered, Quiescent
<1>9. boxes' \in [Hosts -> [Boxes -> Seq(Mails)]]
  BY <1>1, <1>2, <1>4 DEF MailTypes
<1>10. MailInv'
  BY <1>1, <1>9 DEF MailTypes, InboxAnnounced
<1>11. QED
  BY <1>5, <1>7, <1>8, <1>10

-----------------------------------------------------------------------------
(* What leaves a half alone.                                               *)

LEMMA SendUnchanged ==
    ASSUME SendInv, UNCHANGED << pc, made, mail, sending >> PROVE SendInv'
BY DEF SendInv, SendTypes, LockInv, OneSender, HolderInv, AnswerInv, Sends, Unanswered, Answered,
       Quiescent, sending

LEMMA MailUnchanged == ASSUME MailInv, UNCHANGED << wire, receiving, boxes >> PROVE MailInv'
BY DEF MailInv, MailTypes, InboxAnnounced, receiving

(* A packet on the wire. *)
LEMMA TransmitMail ==
    ASSUME SendInv, MailInv, NEW c \in Clients, Transmit(c) PROVE MailInv'
<1>1. /\ wire' = wire \/ wire' = [wire EXCEPT ![mail[c].to] = Append(@, mail[c])]
      /\ mail[c] \in Mails /\ UNCHANGED << inbox, available, worker, hand, boxes >>
  BY DEF Transmit, ToSocket, Wait, Goes, SendInv, SendTypes, receiving
<1>2. wire' \in [Hosts -> Seq(Mails)]
  <2>1. wire \in [Hosts -> Seq(Mails)] /\ mail[c].to \in Hosts
    BY <1>1 DEF MailInv, MailTypes, Mails
  <2>2. Append(wire[mail[c].to], mail[c]) \in Seq(Mails)
    BY <1>1, <2>1, AppendProperties
  <2>3. QED
    BY <1>1, <2>1, <2>2
<1>3. QED
  BY <1>1, <1>2 DEF MailInv, MailTypes, InboxAnnounced

LEMMA NextInv == SendInv /\ MailInv /\ [Next]_vars => SendInv' /\ MailInv'
<1> SUFFICES ASSUME SendInv, MailInv, [Next]_vars PROVE SendInv' /\ MailInv'
  OBVIOUS
<1>1. ASSUME NEW c \in Clients, Call(c) \/ Acquire(c) \/ WaitAgain(c) \/ Release(c)
      PROVE  SendInv' /\ MailInv'
  <2>1. SendInv'
    BY <1>1, CallInv, AcquireInv, WaitAgainInv, ReleaseInv
  <2>2. MailInv'
    BY <1>1, MailUnchanged DEF Call, Acquire, WaitAgain, Release
  <2>3. QED
    BY <2>1, <2>2
<1>2. ASSUME NEW c \in Clients, Transmit(c) \/ Receive(c)
      PROVE  SendInv' /\ MailInv'
  BY <1>2, TransmitInv, TransmitMail, ReceiveInv
<1>3. ASSUME NEW h \in Hosts, SendCallBack(h)
      PROVE  SendInv' /\ MailInv'
  BY <1>3, SendCallBackInv, MailUnchanged DEF SendCallBack
<1>4. ASSUME NEW h \in Hosts, ReceiveCallBack(h) \/ AwaitPacket(h) \/ Fetch(h) \/ Put(h)
      PROVE  SendInv' /\ MailInv'
  <2>1. MailInv'
    BY <1>4, ReceiveCallBackInv, AwaitPacketInv, FetchInv, PutInv
  <2>2. SendInv'
    BY <1>4, SendUnchanged DEF ReceiveCallBack, AwaitPacket, Fetch, Put
  <2>3. QED
    BY <2>1, <2>2
<1>5. CASE UNCHANGED vars
  BY <1>5, SendUnchanged, MailUnchanged DEF vars
<1>6. QED
  BY <1>1, <1>2, <1>3, <1>4, <1>5 DEF Next, Quiet

(* The invariant of both halves. *)
THEOREM PostOfficeInvariant == Spec => [](SendInv /\ MailInv)
  BY InitInv, NextInv, PTL DEF Spec

(* Every variable of the post offices keeps its type: no semaphore goes    *)
(* below 0, and only mails are on the wires, in buffers and in boxes.      *)
THEOREM PostOfficeTyping == Spec => []TypeOK
<1>1. SendInv /\ MailInv => TypeOK
  BY TypeParts DEF SendInv, MailInv
<1>2. QED
  BY <1>1, PostOfficeInvariant, PTL

(* A packet in the buffer is announced once, is never written over, and is *)
(* there for the worker that passed messageAvailable->P.                   *)
THEOREM PostOfficeInboxAnnounced == Spec => []InboxAnnounced
<1>1. SendInv /\ MailInv => InboxAnnounced
  BY DEF MailInv
<1>2. QED
  BY <1>1, PostOfficeInvariant, PTL

(* Release asserts that its caller holds the lock (synch.cc): a client     *)
(* that comes to Release, or still waits for its answer, is the lockHolder *)
(* of its machine, however long the others tried to get the lock.          *)
THEOREM PostOfficeHolderReleases == Spec => []HolderInv
<1>1. SendInv /\ MailInv => HolderInv
  BY DEF SendInv
<1>2. QED
  BY <1>1, PostOfficeInvariant, PTL

(* One message at a time: a client that is about to send finds no answer   *)
(* outstanding, and one that waits has exactly its own coming.             *)
THEOREM PostOfficeOneAtATime == Spec => []OneAtATime
<1>1. SendInv /\ MailInv => OneAtATime
  <2> SUFFICES ASSUME SendInv, NEW c \in Clients
               PROVE  LET h == HostOf[c] IN
                        /\ pc[c] = "locked" => pending[h] = 0 /\ messageSent[h] = NewSemaphore(0)
                        /\ pc[c] = "wait" => pending[h] + messageSent[h].value = 1
    BY DEF OneAtATime
  <2>1. CASE pc[c] = "locked"
    <3>1. \A d \in Clients : HostOf[d] = HostOf[c] => pc[d] # "wait"
      BY <2>1 DEF SendInv, OneSender, Sends
    <3>2. QED
      BY <2>1, <3>1 DEF SendInv, AnswerInv, Quiescent
  <2>2. CASE pc[c] = "wait"
    <3>1. Unanswered(HostOf[c], c) \/ Answered(HostOf[c])
      BY <2>2 DEF SendInv, AnswerInv
    <3>2. QED
      BY <2>2, <3>1 DEF Unanswered, Answered, NewSemaphore
  <2>3. QED
    BY <2>1, <2>2
<1>2. QED
  BY <1>1, PostOfficeInvariant, PTL

-----------------------------------------------------------------------------
(* The refinement.  A packet stays in its place among those on their way   *)
(* while it goes from the wire to the buffer and from there to the hand of *)
(* the postal worker, so only Transmit and Put change what is in transit.  *)

LEMMA HeldProperties ==
    /\ Held(NoMail) = << >>
    /\ \A m \in Mails : Held(m) = << m >>
    /\ \A x \in Mails \cup {NoMail} : Held(x) \in Seq(Mails)
BY DEF Held

LEMMA InTransitType ==
    ASSUME MailTypes, NEW h \in Hosts
    PROVE  /\ Held(hand[h]) \in Seq(Mails) /\ Held(inbox[h]) \in Seq(Mails)
           /\ wire[h] \in Seq(Mails) /\ InTransit(h) \in Seq(Mails)
<1>1. Held(hand[h]) \in Seq(Mails) /\ Held(inbox[h]) \in Seq(Mails) /\ wire[h] \in Seq(Mails)
  BY HeldProperties DEF MailTypes
<1>2. QED
  BY <1>1, ConcatProperties DEF InTransit

(* A packet appended to a wire is the last of those on their way.          *)
LEMMA AppendLast ==
    ASSUME NEW S, NEW p \in Seq(S), NEW q \in Seq(S), NEW r \in Seq(S), NEW x \in S
    PROVE  p \o q \o Append(r, x) = Append(p \o q \o r, x)
<1>1. << x >> \in Seq(S) /\ p \o q \in Seq(S) /\ p \o q \o r \in Seq(S)
  BY ConcatProperties
<1>2. Append(r, x) = r \o << x >> /\ Append(p \o q \o r, x) = p \o q \o r \o << x >>
  BY <1>1, AppendIsConcat
<1>3. (p \o q) \o (r \o << x >>) = ((p \o q) \o r) \o << x >>
  BY <1>1, ConcatAssociative
<1>4. QED
  BY <1>2, <1>3

LEMMA HeadBack ==
    ASSUME NEW S, NEW s \in Seq(S), s # << >>
    PROVE  << Head(s) >> \o Tail(s) = s
OBVIOUS

LEMMA FrontOfTransit ==
    ASSUME NEW S, NEW x \in S, NEW q \in Seq(S), NEW r \in Seq(S)
    PROVE  /\ << x >> \o q \o r # << >>
           /\ Head(<< x >> \o q \o r) = x
           /\ Tail(<< x >> \o q \o r) = << >> \o q \o r
OBVIOUS

(* A step that moves no packet and changes no phase is a stutter. *)
LEMMA Stutters ==
    ASSUME pc \in [Clients -> PCs], pc' \in [Clients -> PCs],
           \A c \in Clients : Phase(c)' = Phase(c),
           \A h \in Hosts : InTransit(h)' = InTransit(h),
           UNCHANGED << boxes, mail >>
    PROVE  UNCHANGED Abstract!vars
BY DEF Abstract!vars

LEMMA RefinesInit == Init => Abstract!Init
<1> SUFFICES ASSUME Init PROVE Abstract!Init
  OBVIOUS
<1>1. \A h \in Hosts : InTransit(h) = << >>
  BY HeldProperties DEF Init, InTransit
<1>2. \A c \in Clients : Phase(c) = "none"
  BY DEF Init, Phase
<1>3. QED
  BY <1>1, <1>2 DEF Init, Abstract!Init

(* The phase of every client after a step that moves only client c. *)
LEMMA PhaseOfMoved ==
    ASSUME pc \in [Clients -> PCs], NEW c \in Clients, NEW to, pc' = [pc EXCEPT ![c] = to]
    PROVE  \A d \in Clients : d # c => Phase(d)' = Phase(d)
BY DEF Phase

(* What is on its way after a step that concerns only one machine. *)
LEMMA TransitMoved ==
    ASSUME NEW g \in Hosts, NEW q, InTransit(g)' = q,
           \A h \in Hosts : h # g => InTransit(h)' = InTransit(h)
    PROVE  [h \in Hosts |-> InTransit(h)'] = [[h \in Hosts |-> InTransit(h)] EXCEPT ![g] = q]
OBVIOUS

LEMMA CallRefines ==
    ASSUME SendInv, SendInv', NEW c \in Clients, Call(c) PROVE Abstract!Call(c)
<1>1. /\ pc[c] = "idle" /\ pc \in [Clients -> PCs] /\ mail \in [Clients -> Mails \cup {NoMail}]
      /\ pc' = [pc EXCEPT ![c] = "acquire"] \/ pc' = [pc EXCEPT ![c] = "receive"]
      /\ UNCHANGED << wire, inbox, hand, boxes >>
  BY DEF Call, Goes, SendInv, SendTypes, receiving
<1>2. PICK m : mail' = [mail EXCEPT ![c] = m]
  BY DEF Call
<1>3. m \in Mails
  <2>1. pc'[c] # "idle" /\ mail'[c] = m
    BY <1>1, <1>2
  <2>2. QED
    BY <2>1 DEF SendInv, SendTypes
<1>4. \A d \in Clients : d # c => Phase(d)' = Phase(d)
  BY <1>1, PhaseOfMoved
<1>5. Phase(c) = "none" /\ Phase(c)' \in {"send", "receive"}
  BY <1>1 DEF Phase
<1>6. \A h \in Hosts : InTransit(h)' = InTransit(h)
  BY <1>1 DEF InTransit, Held
<1>7. \E p \in {"send", "receive"} :
         [d \in Clients |-> Phase(d)'] = [[d \in Clients |-> Phase(d)] EXCEPT ![c] = p]
  BY <1>4, <1>5
<1>8. QED
  BY <1>1, <1>2, <1>3, <1>5, <1>6, <1>7 DEF Abstract!Call

(* The packet of a Send is on its way, or lost, when it went to the socket. *)
LEMMA TransmitRefines ==
    ASSUME SendInv, MailInv, NEW c \in Clients, Transmit(c) PROVE Abstract!Dispatch(c)
<1> DEFINE to == mail[c].to
<1>1. /\ pc[c] = "locked" /\ pc \in [Clients -> PCs] /\ mail[c] \in Mails /\ to \in Hosts
      /\ pc' = [pc EXCEPT ![c] = "sent"] \/ pc' = [pc EXCEPT ![c] = "wait"]
      /\ UNCHANGED << inbox, hand, boxes, mail >>
      /\ wire' = wire \/ wire' = [wire EXCEPT ![to] = Append(@, mail[c])]
      /\ wire \in [Hosts -> Seq(Mails)]
  BY DEF Transmit, Wait, Goes, ToSocket, SendInv, SendTypes, MailInv, MailTypes, receiving, Mails
<1>2. \A d \in Clients : d # c => Phase(d)' = Phase(d)
  BY <1>1, PhaseOfMoved
<1>3. Phase(c) = "send" /\ Phase(c)' = "sent"
  BY <1>1 DEF Phase
<1>4. CASE wire' = wire
  <2>1. \A h \in Hosts : InTransit(h)' = InTransit(h)
    BY <1>1, <1>4 DEF InTransit, Held
  <2>2. QED
    BY <1>1, <1>2, <1>3, <2>1 DEF Abstract!Dispatch
<1>5. CASE wire' = [wire EXCEPT ![to] = Append(@, mail[c])]
  <2>1. \A h \in Hosts : h # to => InTransit(h)' = InTransit(h)
    BY <1>1, <1>5 DEF InTransit, Held
  <2>2. InTransit(to)' = Append(InTransit(to), mail[c])
    <3>1. Held(hand[to]) \in Seq(Mails) /\ Held(inbox[to]) \in Seq(Mails) /\ wire[to] \in Seq(Mails)
      BY <1>1, InTransitType DEF MailInv
    <3>2. InTransit(to)' = Held(hand[to]) \o Held(inbox[to]) \o Append(wire[to], mail[c])
      BY <1>1, <1>5 DEF InTransit, Held
    <3> DEFINE p == Held(hand[to])
               q == Held(inbox[to])
               r == wire[to]
               x == mail[c]
    <3>3. x \in Mails /\ p \in Seq(Mails) /\ q \in Seq(Mails) /\ r \in Seq(Mails)
      BY <1>1, <3>1
    <3> HIDE DEF p, q, r, x
    <3>4. p \o q \o Append(r, x) = Append(p \o q \o r, x)
      BY <3>3, AppendLast
    <3>5. QED
      BY <3>2, <3>4 DEF p, q, r, x, InTransit
  <2>3. [h \in Hosts |-> InTransit(h)']
          = [[h \in Hosts |-> InTransit(h)] EXCEPT ![to] = Append(InTransit(to), mail[c])]
    BY <1>1, <2>1, <2>2, TransitMoved
  <2> DEFINE transit == [h \in Hosts |-> InTransit(h)]
             phase == [d \in Clients |-> Phase(d)]
  <2>4. transit' = [transit EXCEPT ![to] = Append(@, mail[c])]
    BY <1>1, <2>3
  <2>5. phase[c] = "send" /\ phase' = [phase EXCEPT ![c] = "sent"]
    BY <1>2, <1>3
  <2>6. QED
    BY <1>1, <2>4, <2>5, Zenon DEF Abstract!Dispatch
<1>6. QED
  BY <1>1, <1>4, <1>5

LEMMA ReleaseRefines ==
    ASSUME SendInv, NEW c \in Clients, Release(c) PROVE Abstract!Return(c)
<1>1. /\ pc[c] = "sent" /\ pc \in [Clients -> PCs] /\ pc' = [pc EXCEPT ![c] = "idle"]
      /\ UNCHANGED << mail, wire, inbox, hand, boxes >>
  BY DEF Release, Goes, SendInv, SendTypes, receiving
<1>2. \A d \in Clients : d # c => Phase(d)' = Phase(d)
  BY <1>1, PhaseOfMoved
<1>3. Phase(c) = "sent" /\ Phase(c)' = "none"
  BY <1>1 DEF Phase
<1>4. \A h \in Hosts : InTransit(h)' = InTransit(h)
  BY <1>1 DEF InTransit, Held
<1>5. QED
  BY <1>1, <1>2, <1>3, <1>4 DEF Abstract!Return

LEMMA ReceiveRefines ==
    ASSUME SendInv, NEW c \in Clients, Receive(c) PROVE Abstract!Receive(c)
<1>1. /\ pc[c] = "receive" /\ pc \in [Clients -> PCs] /\ pc' = [pc EXCEPT ![c] = "idle"]
      /\ UNCHANGED << wire, inbox, hand >>
  BY DEF Receive, Goes, SendInv, SendTypes, receiving
<1>2. \A d \in Clients : d # c => Phase(d)' = Phase(d)
  BY <1>1, PhaseOfMoved
<1>3. Phase(c) = "receive" /\ Phase(c)' = "none"
  BY <1>1 DEF Phase
<1>4. \A h \in Hosts : InTransit(h)' = InTransit(h)
  BY <1>1 DEF InTransit, Held
<1>5. QED
  BY <1>2, <1>3, <1>4 DEF Receive, Abstract!Receive

(* The oldest packet on its way is the one in the hand of the worker. *)
LEMMA PutRefines ==
    ASSUME MailInv, NEW h \in Hosts, Put(h) PROVE Abstract!Arrive(h)
<1> DEFINE m == hand[h]
           rest == << >> \o Held(inbox[h]) \o wire[h]
<1>1. /\ worker[h] = "holding" /\ hand \in [Hosts -> Mails \cup {NoMail}]
      /\ boxes' = [boxes EXCEPT ![h][m.box] = Append(@, m)]
      /\ hand' = [hand EXCEPT ![h] = NoMail]
      /\ UNCHANGED << pc, mail, wire, inbox >>
  BY DEF Put, MailInv, MailTypes
<1>2. m \in Mails
  BY <1>1 DEF MailInv, InboxAnnounced
<1>3. InTransit(h) = << m >> \o Held(inbox[h]) \o wire[h]
  BY <1>2, HeldProperties DEF InTransit
<1>4. InTransit(h) # << >> /\ Head(InTransit(h)) = m /\ Tail(InTransit(h)) = rest
  <2> DEFINE q == Held(inbox[h])
             r == wire[h]
  <2>1. q \in Seq(Mails) /\ r \in Seq(Mails)
    BY InTransitType DEF MailInv
  <2>2. InTransit(h) = << m >> \o q \o r /\ rest = << >> \o q \o r
    BY <1>3
  <2> HIDE DEF m, q, r, rest
  <2>3. QED
    BY <1>2, <2>1, <2>2, FrontOfTransit
<1>5. InTransit(h)' = rest
  BY <1>1, HeldProperties DEF InTransit, Held
<1>6. \A g \in Hosts : g # h => InTransit(g)' = InTransit(g)
  BY <1>1 DEF InTransit, Held
<1>7. \A c \in Clients : Phase(c)' = Phase(c)
  BY <1>1 DEF Phase
<1> HIDE DEF m, rest
<1>8. [g \in Hosts |-> InTransit(g)']
        = [[g \in Hosts |-> InTransit(g)] EXCEPT ![h] = Tail(@)]
  BY <1>4, <1>5, <1>6
<1>9. boxes' = [boxes EXCEPT ![h][Head(InTransit(h)).box] = Append(@, Head(InTransit(h)))]
  BY <1>1, <1>4
<1>10. QED
  BY <1>1, <1>4, <1>7, <1>8, <1>9 DEF Abstract!Arrive

(* A packet goes from the wire to the buffer, or from the buffer to the    *)
(* hand of the worker, which were empty.                                   *)
LEMMA PacketMoves ==
    ASSUME MailInv, NEW h \in Hosts, ReceiveCallBack(h) \/ Fetch(h)
    PROVE  \A g \in Hosts : InTransit(g)' = InTransit(g)
<1>1. /\ wire \in [Hosts -> Seq(Mails)] /\ inbox \in [Hosts -> Mails \cup {NoMail}]
      /\ hand \in [Hosts -> Mails \cup {NoMail}]
      /\ Held(hand[h]) \in Seq(Mails) /\ wire[h] \in Seq(Mails)
  BY InTransitType DEF MailInv, MailTypes
<1>2. CASE ReceiveCallBack(h)
  <2>1. /\ inbox[h] = NoMail /\ wire[h] # << >>
        /\ inbox' = [inbox EXCEPT ![h] = Head(wire[h])]
        /\ wire' = [wire EXCEPT ![h] = Tail(@)]
        /\ UNCHANGED hand
    BY <1>2 DEF ReceiveCallBack, PacketCanEnter
  <2>2. Head(wire[h]) \in Mails /\ Tail(wire[h]) \in Seq(Mails)
    BY <1>1, <2>1, HeadTailProperties
  <2>3. \A g \in Hosts : g # h => InTransit(g)' = InTransit(g)
    BY <1>1, <2>1 DEF InTransit, Held
  <2>4. InTransit(h)' = Held(hand[h]) \o << Head(wire[h]) >> \o Tail(wire[h])
    BY <1>1, <2>1, <2>2, NoMailAssumption DEF InTransit, Held
  <2>5. InTransit(h) = Held(hand[h]) \o wire[h]
    <3>1. InTransit(h) = Held(hand[h]) \o << >> \o wire[h]
      BY <2>1 DEF InTransit, Held
    <3>2. QED
      BY <1>1, <3>1, ConcatEmptySeq
  <2>6. Held(hand[h]) \o << Head(wire[h]) >> \o Tail(wire[h]) = Held(hand[h]) \o wire[h]
    <3>1. << Head(wire[h]) >> \in Seq(Mails)
      BY <2>2
    <3>2. (Held(hand[h]) \o << Head(wire[h]) >>) \o Tail(wire[h])
            = Held(hand[h]) \o (<< Head(wire[h]) >> \o Tail(wire[h]))
      BY <1>1, <2>2, <3>1, ConcatAssociative
    <3>3. QED
      BY <1>1, <2>1, <3>2, HeadBack
  <2>7. QED
    BY <2>3, <2>4, <2>5, <2>6
<1>3. CASE Fetch(h)
  <2>1. /\ worker[h] = "ready"
        /\ hand' = [hand EXCEPT ![h] = inbox[h]]
        /\ inbox' = [inbox EXCEPT ![h] = NoMail]
        /\ UNCHANGED wire
    BY <1>3 DEF Fetch
  <2>2. inbox[h] \in Mails /\ hand[h] = NoMail
    BY <2>1, ReadyFindsPacket
  <2>3. \A g \in Hosts : g # h => InTransit(g)' = InTransit(g)
    BY <1>1, <2>1 DEF InTransit, Held
  <2>4. InTransit(h)' = << inbox[h] >> \o << >> \o wire[h]
    BY <1>1, <2>1, <2>2, NoMailAssumption DEF InTransit, Held
  <2>5. InTransit(h) = << >> \o << inbox[h] >> \o wire[h]
    BY <2>2, NoMailAssumption DEF InTransit, Held
  <2>6. << inbox[h] >> \o << >> = << inbox[h] >> /\ << >> \o << inbox[h] >> = << inbox[h] >>
    BY <2>2, ConcatEmptySeq
  <2>7. QED
    BY <2>3, <2>4, <2>5, <2>6
<1>4. QED
  BY <1>2, <1>3

LEMMA RefinesNext ==
    SendInv /\ MailInv /\ [Next]_vars => [Abstract!Next]_(Abstract!vars)
<1> SUFFICES ASSUME SendInv, MailInv, [Next]_vars
             PROVE  [Abstract!Next]_(Abstract!vars)
  OBVIOUS
<1>1. SendInv' /\ pc \in [Clients -> PCs] /\ pc' \in [Clients -> PCs]
  BY NextInv DEF SendInv, SendTypes
<1>2. ASSUME NEW c \in Clients, Call(c) \/ Transmit(c) \/ Release(c) \/ Receive(c)
      PROVE  Abstract!Next
  BY <1>1, <1>2, CallRefines, TransmitRefines, ReleaseRefines, ReceiveRefines DEF Abstract!Next
<1>3. ASSUME NEW h \in Hosts, Put(h)
      PROVE  Abstract!Next
  BY <1>3, PutRefines DEF Abstract!Next
<1>4. ASSUME NEW c \in Clients, Acquire(c) \/ WaitAgain(c)
      PROVE  UNCHANGED Abstract!vars
  <2>1. UNCHANGED << mail, wire, inbox, hand, boxes >>
    BY <1>4 DEF Acquire, WaitAgain, receiving
  <2>2. \A d \in Clients : Phase(d)' = Phase(d)
    BY <1>1, <1>4 DEF Acquire, WaitAgain, Wait, Goes, Phase
  <2>3. \A h \in Hosts : InTransit(h)' = InTransit(h)
    BY <2>1 DEF InTransit, Held
  <2>4. QED
    BY <1>1, <2>1, <2>2, <2>3, Stutters
<1>5. ASSUME NEW h \in Hosts, ReceiveCallBack(h) \/ Fetch(h)
      PROVE  UNCHANGED Abstract!vars
  <2>1. UNCHANGED << pc, mail, boxes >>
    BY <1>5 DEF ReceiveCallBack, Fetch
  <2>2. \A g \in Hosts : InTransit(g)' = InTransit(g)
    BY <1>5, PacketMoves
  <2>3. QED
    BY <1>1, <2>1, <2>2, Stutters DEF Phase
<1>6. CASE \/ \E h \in Hosts : SendCallBack(h) \/ AwaitPacket(h)
           \/ UNCHANGED vars
  <2>1. UNCHANGED << pc, mail, wire, inbox, hand, boxes >>
    BY <1>6 DEF SendCallBack, AwaitPacket, vars, receiving
  <2>2. QED
    BY <1>1, <2>1, Stutters DEF Phase, InTransit, Held
<1>7. QED
  BY <1>2, <1>3, <1>4, <1>5, <1>6 DEF Next, Quiet

(* The post offices implement LossyMail: a mail is lost or on its way once *)
(* its Send took effect, and what is on its way to one machine arrives in  *)
(* the order of the Sends, each mail once, in the box it names, whatever   *)
(* lock, interrupts, buffers and the postal worker do in between.          *)
THEOREM PostOfficeImplements == Spec => ImplementsLossyMail
  BY RefinesInit, RefinesNext, PostOfficeInvariant, PTL DEF Spec, ImplementsLossyMail, Abstract!Spec
===============================================================================
