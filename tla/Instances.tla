----------------------------- MODULE Instances ------------------------------
(***************************************************************************)
(* Several processes of `pipitor run` on one manifest (main of             *)
(* src/bin/pipitor/run.rs): each locks the manifest's file and binds the   *)
(* IPC socket beside it (src/bin/pipitor/common.rs and common/ipc.rs).     *)
(*                                                                         *)
(* A lock is of the file that was opened, which the operator may have      *)
(* replaced since.  A step is one system call.                             *)
(***************************************************************************)
EXTENDS Naturals

CONSTANTS
    Processes,
    MaxReplacements,   \* bound
    NoInode, NoSocket, Stale

ASSUME InstancesAssumption ==
    /\ MaxReplacements \in Nat /\ NoInode \notin Nat
    /\ NoSocket # Stale /\ {NoSocket, Stale} \cap Processes = {}

VARIABLES
    inode,     \* the file at the manifest's path
    handle,    \* process -> the file it has opened to lock it
    locked,    \* process -> whether it holds the lock of that file
    ipc,       \* process -> its listener: "untried", "none", "open" or "closed"
    socket     \* the file at the socket's path: whose it is, NoSocket or Stale

instanceVars == <<inode, handle, locked, ipc, socket>>

InstancesTypeOK ==
    /\ inode \in 0 .. MaxReplacements
    /\ handle \in [Processes -> Nat \cup {NoInode}]
    /\ locked \in [Processes -> BOOLEAN]
    /\ ipc \in [Processes -> {"untried", "none", "open", "closed"}]
    /\ socket \in Processes \cup {NoSocket, Stale}

\* A process may have crashed before.
InstancesInit ==
    /\ inode = 0
    /\ handle = [p \in Processes |-> NoInode]
    /\ locked = [p \in Processes |-> FALSE]
    /\ ipc = [p \in Processes |-> "untried"]
    /\ socket \in {NoSocket, Stale}

\* The operator's editor saves the manifest as a new file.
ReplaceFile ==
    /\ inode < MaxReplacements
    /\ inode' = inode + 1
    /\ UNCHANGED <<handle, locked, ipc, socket>>

\* The operator removes a socket that no process listens to.
RemoveStale ==
    /\ socket = Stale
    /\ socket' = NoSocket
    /\ UNCHANGED <<inode, handle, locked, ipc>>

Open(p) ==
    /\ handle[p] = NoInode
    /\ handle' = [handle EXCEPT ![p] = inode]
    /\ UNCHANGED <<inode, locked, ipc, socket>>

Lock(p) ==
    /\ handle[p] # NoInode /\ ~locked[p]
    /\ \A q \in Processes : locked[q] => handle[q] # handle[p]
    /\ locked' = [locked EXCEPT ![p] = TRUE]
    /\ UNCHANGED <<inode, handle, ipc, socket>>

\* `try_lock_exclusive` does not wait: the process ends.
LockFails(p) ==
    /\ handle[p] # NoInode /\ ~locked[p]
    /\ \E q \in Processes : locked[q] /\ handle[q] = handle[p]
    /\ handle' = [handle EXCEPT ![p] = NoInode]
    /\ UNCHANGED <<inode, locked, ipc, socket>>

\* Faulty variant: a socket that is there already is replaced.
Bind_replaces(p) ==
    /\ locked[p] /\ ipc[p] = "untried"
    /\ ipc' = [ipc EXCEPT ![p] = "open"]
    /\ socket' = p
    /\ UNCHANGED <<inode, handle, locked>>

Bind(p) ==
    /\ locked[p] /\ ipc[p] = "untried"
    /\ socket = NoSocket
    /\ ipc' = [ipc EXCEPT ![p] = "open"]
    /\ socket' = p
    /\ UNCHANGED <<inode, handle, locked>>

\* Faulty variant: the guard that removes the socket is there all the same.
BindFails_guards(p) ==
    /\ locked[p] /\ ipc[p] = "untried"
    /\ ipc' = [ipc EXCEPT ![p] = "closed"]
    /\ UNCHANGED <<inode, handle, locked, socket>>

\* The path is taken, or not to be written to: the process goes on without IPC.
BindFails(p) ==
    /\ locked[p] /\ ipc[p] = "untried"
    /\ ipc' = [ipc EXCEPT ![p] = "none"]
    /\ UNCHANGED <<inode, handle, locked, socket>>

\* The process ends: the listener goes, then `RmGuard` removes the socket, then the lock.
Close(p) ==
    /\ ipc[p] = "open"
    /\ ipc' = [ipc EXCEPT ![p] = "closed"]
    /\ UNCHANGED <<inode, handle, locked, socket>>

RemoveSocket(p) ==
    /\ ipc[p] = "closed"
    /\ ipc' = [ipc EXCEPT ![p] = "none"]
    /\ socket' = NoSocket
    /\ UNCHANGED <<inode, handle, locked>>

Unlock(p) ==
    /\ locked[p] /\ ipc[p] = "none"
    /\ handle' = [handle EXCEPT ![p] = NoInode]
    /\ locked' = [locked EXCEPT ![p] = FALSE]
    /\ ipc' = [ipc EXCEPT ![p] = "untried"]
    /\ UNCHANGED <<inode, socket>>

\* The socket of a process that is killed stays.
Killed(p) ==
    /\ handle[p] # NoInode
    /\ handle' = [handle EXCEPT ![p] = NoInode]
    /\ locked' = [locked EXCEPT ![p] = FALSE]
    /\ ipc' = [ipc EXCEPT ![p] = "untried"]
    /\ socket' = IF ipc[p] \in {"open", "closed"} THEN Stale ELSE socket
    /\ UNCHANGED inode

Instance(p) ==
    \/ Open(p) \/ Lock(p) \/ LockFails(p)
    \/ Bind(p) \/ BindFails(p) \/ Close(p) \/ RemoveSocket(p) \/ Unlock(p)
    \/ Killed(p)

InstancesNext == ReplaceFile \/ RemoveStale \/ \E p \in Processes : Instance(p)

InstancesSpec == InstancesInit /\ [][InstancesNext]_instanceVars

------------------------------------------------------------------------------

\* A process that listens for `pipitor ctl` is found at the path of the socket, whatever
\* others start, fail, end or are killed beside it; a lock alone does not keep them away,
\* for the manifest's file may be replaced under it.
ServerIsReachable == \A p \in Processes : ipc[p] = "open" => socket = p

==============================================================================
