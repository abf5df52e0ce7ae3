--------------------------- MODULE NamespaceStore ---------------------------
(***************************************************************************)
(* The CNS (Current Namespace Store, the PID file) of one Server_app, its   *)
(* named mutex, the constructors of Session_server_impl that write it, one  *)
(* server process after another, and the calls of sync_connect() that read  *)
(* it to find the server.                                                   *)
(*                                                                         *)
(* A process may die between any two steps.  The kernel keeps the file and  *)
(* the mutex: a mutex whose holder has died stays locked.  As the source    *)
(* assumes, at most one server process is active at a time; its PID may be  *)
(* one that an earlier process had.                                         *)
(*                                                                         *)
(* External: the file system, boost::interprocess::named_mutex, and the     *)
(* socket acceptor, to which a connect succeeds while its owner listens.    *)
(***************************************************************************)
EXTENDS Naturals

CONSTANTS
  Clients,     \* client processes, each with one Client_session
  Pids,        \* PIDs a server process may get
  MaxStarts,   \* bound on the server processes
  MaxCalls     \* bound on the calls of sync_connect() by each client

ASSUME StartsIsNat == MaxStarts \in Nat
ASSUME CallsIsNat == MaxCalls \in Nat
ASSUME PidsArePositive == Pids \subseteq Nat \ {0}

VARIABLES
  srv,      \* the server process: not there ("down"), where its constructor is, or "up"
  pid,      \* its PID
  starts,   \* server processes so far; the current one is named by this number
  file,     \* the CNS file: "absent", "empty", or "full" ...
  filePid,  \* ... of this PID
  spoiled,  \* the last constructor to truncate the file could not complete it
  mutex,    \* held by nobody ("free"), "srv", a "client", or a process that "died"
  holder,   \* the set of that client, empty unless mutex = "client"
  cli,      \* where the client is in sync_connect(); "idle" outside, "peer" connected, "gone"
  calls,    \* its calls so far
  got       \* the PID its call has read, or 0

srvVars  == <<srv, pid, starts>>
fileVars == <<file, filePid, spoiled>>
lockVars == <<mutex, holder>>
cliVars  == <<cli, calls, got>>
cnsVars  == <<srvVars, fileVars, lockVars, cliVars>>

SrvPlaces ==
  {"down", "cleaned", "opened", "locked", "truncated", "failing", "written", "closed", "up"}
CliPlaces == {"idle", "called", "opened", "locked", "read", "found", "peer", "gone"}

CnsTypeOK ==
  /\ srv \in SrvPlaces /\ pid \in Pids \cup {0} /\ starts \in 0..MaxStarts
  /\ file \in {"absent", "empty", "full"} /\ filePid \in Pids \cup {0} /\ spoiled \in BOOLEAN
  /\ mutex \in {"free", "srv", "client", "died"} /\ holder \subseteq Clients
  /\ cli \in [Clients -> CliPlaces] /\ calls \in [Clients -> 0..MaxCalls]
  /\ got \in [Clients -> Pids \cup {0}]

\* Nothing since the machine was booted.
CnsInit ==
  /\ srv = "down" /\ pid = 0 /\ starts = 0
  /\ file = "absent" /\ filePid = 0 /\ spoiled = FALSE
  /\ mutex = "free" /\ holder = {}
  /\ cli = [c \in Clients |-> "idle"] /\ calls = [c \in Clients |-> 0]
  /\ got = [c \in Clients |-> 0]

-----------------------------------------------------------------------------
(* The server process.                                                      *)

SrvStep(from, to) == srv = from /\ srv' = to /\ UNCHANGED <<pid, starts>>

\* A new process constructs its Session_server, which first removes every MQ
\* name of the Server_app (ChannelQueues).
SrvStart(p) ==
  /\ srv = "down" /\ starts < MaxStarts
  /\ srv' = "cleaned" /\ pid' = p /\ starts' = starts + 1
  /\ UNCHANGED <<fileVars, lockVars, cliVars>>

\* The credentials are those of the Server_app, and the mutex opens ...
SrvOpenMutex ==
  /\ SrvStep("cleaned", "opened")
  /\ UNCHANGED <<fileVars, lockVars, cliVars>>

\* ... or not: an error, before anything of the store was touched.
SrvRefuse ==
  /\ SrvStep("cleaned", "down")
  /\ UNCHANGED <<fileVars, lockVars, cliVars>>

SrvLock ==
  /\ mutex = "free" /\ SrvStep("opened", "locked")
  /\ mutex' = "srv"
  /\ UNCHANGED <<fileVars, holder, cliVars>>

\* The ofstream truncates or creates the file; then its owner is checked and, if
\* it was created, its mode set.
SrvTruncate ==
  /\ \/ SrvStep("locked", "truncated")
     \/ SrvStep("locked", "failing")
  /\ file' = "empty" /\ filePid' = 0 /\ spoiled' = (srv' = "failing")
  /\ UNCHANGED <<lockVars, cliVars>>

\* The file cannot be opened for writing, or is another's and cannot be.
SrvCannotOpen ==
  /\ SrvStep("locked", "failing")
  /\ UNCHANGED <<fileVars, lockVars, cliVars>>

\* The PID is written to the ofstream's buffer, which good() finds well, and the
\* ofstream's destructor flushes it, with nobody to be told if that fails.
SrvWrite ==
  /\ SrvStep("truncated", "written")
  /\ \/ file' = "full" /\ filePid' = pid /\ spoiled' = FALSE
     \/ file' = "empty" /\ filePid' = 0 /\ spoiled' = TRUE
  /\ UNCHANGED <<lockVars, cliVars>>

\* Faulty: the error of the file is forgotten when it is closed.
SrvUnlockForgetting ==
  /\ \/ SrvStep("written", "closed")
     \/ SrvStep("failing", "closed")
  /\ mutex' = "free"
  /\ UNCHANGED <<fileVars, holder, cliVars>>

\* Faulty: an error returns with the mutex locked.
SrvUnlockIfWritten ==
  /\ \/ SrvStep("written", "closed") /\ mutex' = "free"
     \/ SrvStep("failing", "down") /\ UNCHANGED mutex
  /\ UNCHANGED <<fileVars, holder, cliVars>>

\* File and mutex are let go; after an error the constructor ends with it.
SrvUnlock ==
  /\ \/ SrvStep("written", "closed")
     \/ SrvStep("failing", "down")
  /\ mutex' = "free"
  /\ UNCHANGED <<fileVars, holder, cliVars>>

\* The acceptor is constructed: it listens, at a name that contains the PID.
SrvListen ==
  /\ \/ SrvStep("closed", "up")
     \/ SrvStep("closed", "down")
  /\ UNCHANGED <<fileVars, lockVars, cliVars>>

\* The process ends in order, once its Session_server is up.
SrvStop ==
  /\ SrvStep("up", "down")
  /\ UNCHANGED <<fileVars, lockVars, cliVars>>

\* The process dies.
SrvCrash ==
  /\ srv # "down" /\ SrvStep(srv, "down")
  /\ mutex' = (IF mutex = "srv" THEN "died" ELSE mutex)
  /\ UNCHANGED <<fileVars, holder, cliVars>>

-----------------------------------------------------------------------------
(* Client c in sync_connect(), Client_session_impl::async_connect().        *)

CliStep(c, from, to) == cli[c] = from /\ cli' = [cli EXCEPT ![c] = to]

CliCall(c) ==
  /\ calls[c] < MaxCalls /\ CliStep(c, "idle", "called")
  /\ calls' = [calls EXCEPT ![c] = @ + 1]
  /\ UNCHANGED <<srvVars, fileVars, lockVars, got>>

\* The mutex is opened, or created, or cannot be.
CliOpenMutex(c) ==
  /\ \/ CliStep(c, "called", "opened")
     \/ CliStep(c, "called", "idle")
  /\ UNCHANGED <<srvVars, fileVars, lockVars, calls, got>>

\* Faulty: the file is read without the lock.
CliReadUnlocked(c) ==
  /\ CliStep(c, "opened", "locked")
  /\ UNCHANGED <<srvVars, fileVars, lockVars, calls, got>>

CliLock(c) ==
  /\ mutex = "free" /\ CliStep(c, "opened", "locked")
  /\ mutex' = "client" /\ holder' = {c}
  /\ UNCHANGED <<srvVars, fileVars, calls, got>>

\* The file is opened and a line read, which must end in a newline: if the file
\* is absent or empty the call fails, with one error code or another.
CliRead(c) ==
  /\ CliStep(c, "locked", "read")
  /\ got' = [got EXCEPT ![c] = filePid]
  /\ UNCHANGED <<srvVars, fileVars, lockVars, calls>>

\* Faulty: a failure returns with the mutex locked.
CliUnlockIfFound(c) ==
  /\ CliStep(c, "read", IF got[c] # 0 THEN "found" ELSE "idle")
  /\ IF got[c] # 0 THEN mutex' = "free" /\ holder' = {} ELSE UNCHANGED lockVars
  /\ UNCHANGED <<srvVars, fileVars, calls, got>>

CliUnlock(c) ==
  /\ CliStep(c, "read", IF got[c] # 0 THEN "found" ELSE "idle")
  /\ mutex' = "free" /\ holder' = {}
  /\ UNCHANGED <<srvVars, fileVars, calls, got>>

\* The socket connects if a server with that PID listens; else it is refused.
CliConnect(c) ==
  /\ IF srv = "up" /\ pid = got[c]
       THEN CliStep(c, "found", "peer") /\ UNCHANGED got
       ELSE CliStep(c, "found", "idle") /\ got' = [got EXCEPT ![c] = 0]
  /\ UNCHANGED <<srvVars, fileVars, lockVars, calls>>

\* The Client_session is destroyed; once a PEER it cannot be connected again.
CliLeave(c) ==
  /\ CliStep(c, "peer", "gone")
  /\ got' = [got EXCEPT ![c] = 0]
  /\ UNCHANGED <<srvVars, fileVars, lockVars, calls>>

\* Its process dies.
CliCrash(c) ==
  /\ cli[c] # "gone" /\ CliStep(c, cli[c], "gone")
  /\ got' = [got EXCEPT ![c] = 0]
  /\ IF c \in holder THEN mutex' = "died" /\ holder' = {} ELSE UNCHANGED lockVars
  /\ UNCHANGED <<srvVars, fileVars, calls>>
=============================================================================
