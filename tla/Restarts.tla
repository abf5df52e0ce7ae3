------------------------------ MODULE Restarts ------------------------------
(***************************************************************************)
(* One Server_app through several server processes, and the clients that    *)
(* find the current one through the CNS file and share queues with it.      *)
(* Each process may die, between any two of its steps.                      *)
(***************************************************************************)
EXTENDS ChannelQueues

vars == <<cnsVars, mqVars>>

Init == CnsInit /\ MqInit

\* The constructor of Session_server_impl, after it has removed old names.
Construct ==
  \/ SrvOpenMutex \/ SrvRefuse \/ SrvLock \/ SrvTruncate \/ SrvCannotOpen
  \/ SrvWrite \/ SrvUnlock \/ SrvListen

\* sync_connect() of client c; a session comes with the connect.
Connect(c) ==
  \/ (CliOpenMutex(c) \/ CliLock(c) \/ CliRead(c) \/ CliUnlock(c)) /\ UNCHANGED mqVars
  \/ CliConnect(c) /\ IF cli'[c] = "peer" THEN LogIn(c) ELSE UNCHANGED mqVars

\* What the sessions do about channels.
Channels ==
  \/ \E c \in Clients :
       \/ EndSession(c)
       \/ MakeC2s(c) \/ MakeS2c(c) \/ NoS2c(c) \/ HookUp(c) \/ NoHookUp(c)
       \/ TakeChannel(c) \/ CannotTake(c) \/ Ignore(c)
       \/ \E ch \in held[c] : DropAtClient(c, ch)
  \/ \E ch \in chans : DropAtServer(ch)

Next ==
  \/ \E p \in Pids : SrvStart(p) /\ MqStart(p)
  \/ Construct /\ UNCHANGED mqVars
  \/ SrvStop /\ MqStop
  \/ SrvCrash /\ MqCrash
  \/ \E c \in Clients : (CliCall(c) /\ UNCHANGED mqVars) \/ Connect(c)
  \/ \E c \in Clients : (CliLeave(c) /\ MqLeave(c)) \/ (CliCrash(c) /\ MqCliCrash(c))
  \/ Channels /\ UNCHANGED cnsVars

Spec == Init /\ [][Next]_vars

\* A running constructor and a running sync_connect() go on.  Who waits for the
\* mutex gets it once it stays free.
FairSpec ==
  /\ Spec
  /\ WF_vars(Construct /\ UNCHANGED mqVars)
  /\ \A c \in Clients : WF_vars(Connect(c))

-----------------------------------------------------------------------------
(* Properties.                                                              *)

\* The types of the store's and the queues' state.
TypeOK == CnsTypeOK /\ MqTypeOK

\* async_connect() reads the file some constructor writes in several steps
\* (client_session_impl.hpp:1281): a client about to read it finds half a file
\* only if a constructor could not complete it, never for the moment it reads
\* at nor because a process died.
HalfWrittenUnseen ==
  \A c \in Clients : cli[c] = "locked" /\ file = "empty" => spoiled

\* The server that listens is the one clients find (session_server_impl.hpp:707):
\* the file names it, unless it was not told that its PID was lost.
ListenerIsNamed == srv = "up" => spoiled \/ (file = "full" /\ filePid = pid)

\* Every queue name there is while a server listens belongs to a channel it has
\* or is making (session_server_impl.hpp:472, server_session_impl.hpp:1467):
\* those of processes that died and of failed and ended channels are gone.
NamesAreOwned ==
  srv = "up" => \A n \in names :
    \/ \E ch \in chans : n.key = ch.key /\ n.pair = ch.pair
    \/ \E c \in Clients : ns[c] # 0 /\ w[c] # "idle" /\ n.key = KeyOf(c, lastMq[c])

\* A session's next names are new (server_session_impl.hpp:1558), even when the
\* process has the PID of one that died: CREATE_ONLY does not fail for a name
\* that exists.
NextNameIsNew ==
  \A c \in Clients, dir \in Dirs :
    srv = "up" /\ ns[c] # 0 =>
      /\ w[c] = "idle" => With(KeyOf(c, lastMq[c] + 1), dir) = {}
      /\ w[c] = "c2s" => With(KeyOf(c, lastMq[c]), "s2c") = {}

\* PIDs are unique across time, as the source has it.
PidsUnique == Cardinality(used) = starts

\* A client that opens a channel's names opens the queues of that channel and
\* no other's (client_session_impl.hpp:2442), while PIDs are unique.
OpensItsOwn ==
  PidsUnique => \A c \in Clients : \A ch \in held[c] : ch.opened = {ch.sent.pair}

\* No destructor, at either end, removes the names of a channel the client has
\* yet to open (server_session_impl.hpp:1467), while PIDs are unique.
PendingIsOpenable ==
  PidsUnique => \A c \in Clients : \A i \in DOMAIN inbox[c] :
    inbox[c][i] \in chans =>
      \A dir \in Dirs : \E n \in With(inbox[c][i].key, dir) : n.pair = inbox[c][i].pair

\* sync_connect() ends, unless a process died with the mutex.
ConnectEnds ==
  \A c \in Clients : cli[c] = "called" ~> (cli[c] \in {"idle", "peer", "gone"} \/ mutex = "died")

\* A constructor ends, unless a process died with the mutex.
ConstructorEnds == srv = "cleaned" ~> (srv \in {"up", "down"} \/ mutex = "died")

\* sync_connect() is documented (client_session.hpp:220) to be non-blocking.
ConnectIsNonBlocking == \A c \in Clients : cli[c] = "called" ~> cli[c] \in {"idle", "peer", "gone"}

\* The assertions after create_channel_obj() (client_session_impl.hpp:2333): a
\* client can open what its server has made.
ClientOpens == \A c \in Clients : ~stranded[c]
=============================================================================
