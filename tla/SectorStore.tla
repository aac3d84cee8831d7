----------------------------- MODULE SectorStore ------------------------------
(***************************************************************************)
(* What SynchDisk promises to the file system: a store of sectors that     *)
(* serves one request at a time, each request taking effect on the store   *)
(* once, between its call and its return, and returning only after the     *)
(* device has finished that very request.  There is no lock, semaphore,    *)
(* queue or interrupt here.                                                *)
(***************************************************************************)
CONSTANTS Threads,   \* kernel threads that use the disk
          Sectors,   \* sector numbers
          Data,      \* contents of a sector
          NoRequest, \* a thread that has asked for nothing
          NoData     \* a buffer nothing was read into

VARIABLES store,    \* contents of every sector
          phase,    \* of each thread's request
          request,  \* what each thread is asking for
          buffer    \* each thread's memory: what its last read left there

vars == << store, phase, request, buffer >>

Requests ==      [kind : {"read"},  sector : Sectors]
            \cup [kind : {"write"}, sector : Sectors, data : Data]

Init == /\ store \in [Sectors -> Data]
        /\ phase = [t \in Threads |-> "none"]
        /\ request = [t \in Threads |-> NoRequest]
        /\ buffer = [t \in Threads |-> NoData]

Call(t) == /\ phase[t] = "none"
           /\ \E r \in Requests : request' = [request EXCEPT ![t] = r]
           /\ phase' = [phase EXCEPT ![t] = "called"]
           /\ UNCHANGED << store, buffer >>

(* The effect of a request on the sectors and on the caller's memory. *)
Transfer(t) ==
    LET r == request[t] IN
    \/ /\ r.kind = "read"
       /\ buffer' = [buffer EXCEPT ![t] = store[r.sector]]
       /\ UNCHANGED store
    \/ /\ r.kind = "write"
       /\ store' = [store EXCEPT ![r.sector] = r.data]
       /\ UNCHANGED buffer

(* A request is served only when no other is between its start and return. *)
Serve(t) == /\ phase[t] = "called"
            /\ \A u \in Threads : phase[u] \notin {"served", "finished"}
            /\ phase' = [phase EXCEPT ![t] = "served"]
            /\ Transfer(t)
            /\ UNCHANGED request

(* The device reports completion to the thread it was serving, to no other. *)
Finish(t) == /\ phase[t] = "served"
             /\ phase' = [phase EXCEPT ![t] = "finished"]
             /\ UNCHANGED << store, request, buffer >>

Return(t) == /\ phase[t] = "finished"
             /\ phase' = [phase EXCEPT ![t] = "none"]
             /\ request' = [request EXCEPT ![t] = NoRequest]
             /\ UNCHANGED << store, buffer >>

Next == \E t \in Threads : Call(t) \/ Serve(t) \/ Finish(t) \/ Return(t)

Spec == Init /\ [][Next]_vars
===============================================================================
