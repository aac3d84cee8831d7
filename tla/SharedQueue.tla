----------------------------- MODULE SharedQueue ------------------------------
(***************************************************************************)
(* What SynchList promises: a first-in first-out queue whose operations    *)
(* take effect one at a time, each once, between its call and its return;  *)
(* RemoveFront takes effect only when the queue is not empty.              *)
(***************************************************************************)
EXTENDS Sequences

CONSTANTS Threads, \* kernel threads that use the queue
          Items,   \* what is queued
          NoItem   \* nothing was ever taken

VARIABLES list,  \* the queue
          phase, \* of each thread's operation: "none", "called" or "done"
          call,  \* which operation
          item   \* what each thread appends, or what it took last

vars == << list, phase, call, item >>

Init == /\ list = << >>
        /\ phase = [t \in Threads |-> "none"]
        /\ call = [t \in Threads |-> "none"]
        /\ item = [t \in Threads |-> NoItem]

Call(t) == /\ phase[t] = "none"
           /\ phase' = [phase EXCEPT ![t] = "called"]
           /\ \/ \E i \in Items : /\ call' = [call EXCEPT ![t] = "append"]
                                  /\ item' = [item EXCEPT ![t] = i]
              \/ \E c \in {"remove", "apply"} : /\ call' = [call EXCEPT ![t] = c]
                                                /\ UNCHANGED item
           /\ UNCHANGED list

(* The operation of t is over; it returns now or later. *)
Complete(t, c) == /\ phase[t] = "called" /\ call[t] = c
                  /\ \/ /\ phase' = [phase EXCEPT ![t] = "none"]
                        /\ call' = [call EXCEPT ![t] = "none"]
                     \/ /\ phase' = [phase EXCEPT ![t] = "done"]
                        /\ UNCHANGED call

AppendItem(t) == /\ Complete(t, "append")
                 /\ list' = Append(list, item[t])
                 /\ UNCHANGED item

RemoveFront(t) == /\ Complete(t, "remove")
                  /\ list # << >>
                  /\ item' = [item EXCEPT ![t] = Head(list)]
                  /\ list' = Tail(list)

Apply(t) == Complete(t, "apply") /\ UNCHANGED << list, item >>

Return(t) == /\ phase[t] = "done"
             /\ phase' = [phase EXCEPT ![t] = "none"]
             /\ call' = [call EXCEPT ![t] = "none"]
             /\ UNCHANGED << list, item >>

Next == \E t \in Threads :
            Call(t) \/ AppendItem(t) \/ RemoveFront(t) \/ Apply(t) \/ Return(t)

Spec == Init /\ [][Next]_vars
===============================================================================
