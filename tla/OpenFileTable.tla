---------------------------- MODULE OpenFileTable -----------------------------
(***************************************************************************)
(* The table of files that user programs have open: OpenReturnId, Close and*)
(* FindFreeEntry of filesys/filesys.cc, reached by SysOpen and SysClose.   *)
(*                                                                         *)
(* Nothing locks the table.  OpenReturnId tests the count, then Open reads *)
(* the directory and a header from the disk, and other threads run; what   *)
(* follows is one step.  An index of -1 is not caught: in the object       *)
(* FileSystem the word before openFileTable[0] is the pointer directoryFile*)
(* (filesys/filesys.h:150-156), which is what openFileTable[-1] names.     *)
(***************************************************************************)
EXTENDS Integers, FiniteSets

CONSTANTS Threads,       \* user programs
          Files,         \* files of the disk
          Root,          \* the root directory
          NULL,
          NumOFTEntries  \* entries of the table (the code: 10)

ASSUME EntriesAssumption == NumOFTEntries \in Nat \ {0}
ASSUME NULLAssumption == NULL \notin Files /\ Root \notin Files /\ NULL # Root

VARIABLES openFileTable, \* from index to file
          openFileCount,
          directoryFile, \* the file the system takes for the root directory
          opening,       \* what each thread is opening, NULL if it is not
          fds,           \* the ids each thread has open, with the file it asked for
          crashed        \* directoryFile was dereferenced when NULL

tableVars == << openFileTable, openFileCount, directoryFile, opening, fds, crashed >>

Indexes == 0 .. NumOFTEntries - 1
OpenEntries == {i \in Indexes : openFileTable[i] # NULL}

TableInit == /\ openFileTable = [i \in Indexes |-> NULL]
             /\ openFileCount = 0
             /\ directoryFile = Root
             /\ opening = [t \in Threads |-> NULL]
             /\ fds = [t \in Threads |-> {}]
             /\ crashed = FALSE

(* Mutant: the table is not scanned for the first entry that is NULL. *)
FindFreeEntryAtCount(count) ==
    IF count >= NumOFTEntries THEN -1 ELSE count - 1

(* FindFreeEntry, which is called when the count includes the new file. *)
FindFreeEntry(count) ==
    IF count >= NumOFTEntries \/ OpenEntries = Indexes
    THEN -1
    ELSE CHOOSE i \in Indexes : /\ openFileTable[i] = NULL
                                /\ \A j \in Indexes : openFileTable[j] = NULL => i <= j

(* A thread is told an id, or -1. *)
Told(t, fd, f) == fds' = [fds EXCEPT ![t] = @ \cup {[fd |-> fd, file |-> f]}]

(* OpenReturnId of a full table. *)
OpenFull(t, f) == /\ opening[t] = NULL
                  /\ openFileCount >= NumOFTEntries
                  /\ Told(t, -1, f)
                  /\ UNCHANGED << openFileTable, openFileCount, directoryFile, opening,
                                  crashed >>

(* OpenReturnId up to the disk reads of Open, which begin with the root    *)
(* directory.                                                              *)
OpenBegin(t, f) == /\ opening[t] = NULL
                   /\ openFileCount < NumOFTEntries
                   /\ IF directoryFile = NULL
                      THEN crashed' = TRUE /\ UNCHANGED opening
                      ELSE opening' = [opening EXCEPT ![t] = f] /\ UNCHANGED crashed
                   /\ UNCHANGED << openFileTable, openFileCount, directoryFile, fds >>

(* Open has not found the name. *)
OpenNotFound(t) == /\ opening[t] # NULL
                   /\ opening' = [opening EXCEPT ![t] = NULL]
                   /\ Told(t, -1, opening[t])
                   /\ UNCHANGED << openFileTable, openFileCount, directoryFile, crashed >>

(* Open has found it: the rest of OpenReturnId. *)
OpenFound(t) ==
    LET f == opening[t]
        index == FindFreeEntry(openFileCount + 1)
    IN  /\ f # NULL
        /\ opening' = [opening EXCEPT ![t] = NULL]
        /\ openFileCount' = openFileCount + 1
        /\ IF index = -1
           THEN directoryFile' = f /\ UNCHANGED openFileTable
           ELSE openFileTable' = [openFileTable EXCEPT ![index] = f] /\ UNCHANGED directoryFile
        /\ Told(t, index, f)
        /\ UNCHANGED crashed

(* openFileTable[fd]; h is what OpenReturnId told the thread. *)
FileAt(h) == IF h.fd = -1 THEN directoryFile ELSE openFileTable[h.fd]

Clear(h) == IF h.fd = -1
            THEN directoryFile' = NULL /\ UNCHANGED openFileTable
            ELSE openFileTable' = [openFileTable EXCEPT ![h.fd] = NULL] /\ UNCHANGED directoryFile

(* Mutant: the count is kept. *)
CloseUncounted(h) == IF openFileCount = 0 \/ FileAt(h) = NULL
                     THEN UNCHANGED << openFileTable, openFileCount, directoryFile >>
                     ELSE Clear(h) /\ UNCHANGED openFileCount

(* FileSystem::Close of an id that OpenReturnId returned, be it -1. *)
CloseEntry(h) == IF openFileCount = 0 \/ FileAt(h) = NULL
                 THEN UNCHANGED << openFileTable, openFileCount, directoryFile >>
                 ELSE Clear(h) /\ openFileCount' = openFileCount - 1

Close(t) == \E h \in fds[t] : /\ opening[t] = NULL
                               /\ CloseEntry(h)
                               /\ fds' = [fds EXCEPT ![t] = @ \ {h}]
                               /\ UNCHANGED << opening, crashed >>

TableNext == /\ ~crashed
             /\ \E t \in Threads : \/ \E f \in Files : OpenFull(t, f) \/ OpenBegin(t, f)
                                   \/ OpenNotFound(t) \/ OpenFound(t) \/ Close(t)

TableSpec == TableInit /\ [][TableNext]_tableVars

-----------------------------------------------------------------------------

(* Every variable keeps its type. *)
TypeOK == /\ openFileTable \in [Indexes -> Files \cup {NULL}]
          /\ openFileCount \in Nat
          /\ directoryFile \in Files \cup {Root, NULL}
          /\ opening \in [Threads -> Files \cup {NULL}]
          /\ fds \in [Threads -> SUBSET [fd : Indexes \cup {-1}, file : Files]]
          /\ crashed \in BOOLEAN

(* Until directoryFile is overwritten, the count is that of the entries in *)
(* use, although OpenReturnId reads the disk between its test and its      *)
(* increment.                                                              *)
CountIsExact == directoryFile = Root => openFileCount = Cardinality(OpenEntries)

(* An id stays the id of the file it was returned for until it is closed,  *)
(* and no id is given twice: no thread reads or closes another's file.     *)
IdsAreKept ==
    /\ \A t \in Threads : \A h \in fds[t] : h.fd # -1 => openFileTable[h.fd] = h.file
    /\ \A t, u \in Threads : \A h \in fds[t], k \in fds[u] :
          h.fd = k.fd /\ h.fd # -1 => t = u /\ h = k

(* filesys/filesys.cc:21-22: the directory file is kept open continuously. *)
DirectoryStaysOpen == directoryFile = Root
===============================================================================
