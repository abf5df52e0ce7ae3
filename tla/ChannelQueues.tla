---------------------------- MODULE ChannelQueues ----------------------------
(***************************************************************************)
(* The message queues of channels, when the build has S_MQS_ENABLED: the    *)
(* server's session makes two under new names and sends the names; the      *)
(* client's opens them; the names outlive both processes.                   *)
(*                                                                         *)
(* A server's session with client c has a thread W, which does one thing at *)
(* a time.  Which side asked for a channel makes no difference to its       *)
(* queues: the names go with the response or with the request, and in       *)
(* either case the server's side may be gone when they arrive, because a    *)
(* wait timed out, the client refused, or its user was done with it.        *)
(*                                                                         *)
(* External: the queues themselves.  A name is made CREATE_ONLY, opened     *)
(* OPEN_ONLY, and removed by the destructors of Blob_stream_mq_sender and   *)
(* Blob_stream_mq_receiver, at either end of the channel.                   *)
(***************************************************************************)
EXTENDS NamespaceStore, Sequences, FiniteSets

CONSTANT
  MaxMade   \* bound on the pairs of queues whose making begins

ASSUME MadeIsNat == MaxMade \in Nat

VARIABLES
  used,      \* PIDs that server processes have had
  names,     \* names of queues, each with the pair it belongs to
  lastNs,    \* m_last_cli_namespace
  ns,        \* cli_namespace of the server's session with the client, or 0
  lastMq,    \* m_last_channel_mq_id of that session
  w,         \* thread W of that session: "idle", has made the "c2s" queue or "both"
  making,    \* the pair it is making, or 0
  made,      \* pairs so far; each is named by its number
  chans,     \* the channels at the server: keys of their names and their pairs
  inbox,     \* channels the client was sent and has yet to take
  held,      \* the channels at the client, with the pairs it opened
  stranded   \* the client has been sent a channel it could not open

nameVars == <<names, lastNs, ns, lastMq, w, making, made, chans>>
endVars  == <<inbox, held, stranded>>
mqVars   == <<used, nameVars, endVars>>

Dirs == {"c2s", "s2c"}
Keys == [pid : Pids, ns : Nat, id : Nat]
Sent == [key : Keys, pair : 1..MaxMade]

MqTypeOK ==
  /\ used \subseteq Pids
  /\ names \subseteq [key : Keys, dir : Dirs, pair : 1..MaxMade]
  /\ lastNs \in Nat /\ ns \in [Clients -> Nat]
  /\ lastMq \in [Clients -> Nat] /\ w \in [Clients -> {"idle", "c2s", "both"}]
  /\ making \in [Clients -> 0..MaxMade] /\ made \in 0..MaxMade
  /\ chans \subseteq Sent
  /\ inbox \in [Clients -> Seq(Sent)]
  /\ held \in [Clients -> SUBSET [sent : Sent, opened : SUBSET (1..MaxMade)]]
  /\ stranded \in [Clients -> BOOLEAN]

MqInit ==
  /\ used = {} /\ names = {} /\ lastNs = 0
  /\ ns = [c \in Clients |-> 0] /\ lastMq = [c \in Clients |-> 0]
  /\ w = [c \in Clients |-> "idle"] /\ making = [c \in Clients |-> 0] /\ made = 0
  /\ chans = {}
  /\ inbox = [c \in Clients |-> <<>>] /\ held = [c \in Clients |-> {}]
  /\ stranded = [c \in Clients |-> FALSE]

-----------------------------------------------------------------------------
(* Names.                                                                   *)

\* The key of the names of session c's next or current pair.
KeyOf(c, id) == [pid |-> pid, ns |-> ns[c], id |-> id]

With(key, dir) == {n \in names : n.key = key /\ n.dir = dir}

\* remove_persistent() of both names, whoever made them.
WithoutKey(key) == {n \in names : n.key # key}

\* Faulty: only what has this process's PID goes.
RemoveOwn(p) == names' = {n \in names : n.key.pid # p}

\* remove_each_persistent_with_name_prefix(): the prefix ends before the PID.
RemoveAll(p) == names' = {}

-----------------------------------------------------------------------------
(* The server.                                                              *)

\* A process of PID p starts, with no session of its own.
MqStart(p) ==
  /\ used' = used \cup {p}
  /\ RemoveAll(p)
  /\ lastNs' = 0
  /\ UNCHANGED <<ns, lastMq, w, making, made, chans, endVars>>

\* The process is gone and its sessions and channels with it, but no name is.
MqCrash ==
  /\ ns' = [c \in Clients |-> 0] /\ lastMq' = [c \in Clients |-> 0]
  /\ w' = [c \in Clients |-> "idle"] /\ making' = [c \in Clients |-> 0]
  /\ chans' = {}
  /\ UNCHANGED <<used, names, lastNs, made, endVars>>

\* The process ends in order: its sessions and channels were destroyed.
MqStop ==
  /\ \A c \in Clients : ns[c] = 0
  /\ chans = {}
  /\ UNCHANGED mqVars

\* The log-in of a client, here one step with its connect: its session has the
\* next cli_namespace.
LogIn(c) ==
  /\ lastNs' = lastNs + 1
  /\ ns' = [ns EXCEPT ![c] = lastNs + 1] /\ lastMq' = [lastMq EXCEPT ![c] = 0]
  /\ UNCHANGED <<used, names, w, making, made, chans, endVars>>

\* The session is destroyed, which joins W.  Channels outlive it.
EndSession(c) ==
  /\ ns[c] # 0 /\ w[c] = "idle"
  /\ ns' = [ns EXCEPT ![c] = 0] /\ lastMq' = [lastMq EXCEPT ![c] = 0]
  /\ UNCHANGED <<used, names, lastNs, w, making, made, chans, endVars>>

W(c, from, to) == ns[c] # 0 /\ w[c] = from /\ w' = [w EXCEPT ![c] = to]

Make(c, id, dir, pair) ==
  names' = names \cup {[key |-> KeyOf(c, id), dir |-> dir, pair |-> pair]}

\* Faulty: the id does not move on.
MakeC2sSameId(c) ==
  /\ W(c, "idle", "c2s") /\ made < MaxMade
  /\ LET id == IF lastMq[c] = 0 THEN 1 ELSE lastMq[c] IN
       /\ With(KeyOf(c, id), "c2s") = {}
       /\ lastMq' = [lastMq EXCEPT ![c] = id]
       /\ Make(c, id, "c2s", made + 1)
  /\ made' = made + 1 /\ making' = [making EXCEPT ![c] = made + 1]
  /\ UNCHANGED <<used, lastNs, ns, chans, endVars>>

\* make_channel_mqs(): the id moves on and the client-to-server queue is made.
\* That it cannot be, because resources lack or its name exists, undoes the id:
\* nothing has changed.
MakeC2s(c) ==
  /\ W(c, "idle", "c2s") /\ made < MaxMade
  /\ With(KeyOf(c, lastMq[c] + 1), "c2s") = {}
  /\ lastMq' = [lastMq EXCEPT ![c] = @ + 1]
  /\ Make(c, lastMq[c] + 1, "c2s", made + 1)
  /\ made' = made + 1 /\ making' = [making EXCEPT ![c] = made + 1]
  /\ UNCHANGED <<used, lastNs, ns, chans, endVars>>

MakeS2c(c) ==
  /\ W(c, "c2s", "both")
  /\ With(KeyOf(c, lastMq[c]), "s2c") = {}
  /\ Make(c, lastMq[c], "s2c", making[c])
  /\ UNCHANGED <<used, lastNs, ns, lastMq, making, made, chans, endVars>>

\* Faulty: the first queue is closed but not removed.
NoS2cKeepsC2s(c) ==
  /\ W(c, "c2s", "idle") /\ making' = [making EXCEPT ![c] = 0]
  /\ lastMq' = [lastMq EXCEPT ![c] = @ - 1]
  /\ UNCHANGED <<used, names, lastNs, ns, made, chans, endVars>>

\* Faulty: the id is undone before the name is taken from it.
NoS2cRemovesPrevious(c) ==
  /\ W(c, "c2s", "idle") /\ making' = [making EXCEPT ![c] = 0]
  /\ names' = names \ With(KeyOf(c, lastMq[c] - 1), "c2s")
  /\ lastMq' = [lastMq EXCEPT ![c] = @ - 1]
  /\ UNCHANGED <<used, lastNs, ns, made, chans, endVars>>

\* Faulty: make_channel_mqs() and its caller both undo the id.
NoS2cUndoesTwice(c) ==
  /\ W(c, "c2s", "idle") /\ making' = [making EXCEPT ![c] = 0]
  /\ names' = names \ With(KeyOf(c, lastMq[c]), "c2s")
  /\ lastMq' = [lastMq EXCEPT ![c] = @ - 2]
  /\ UNCHANGED <<used, lastNs, ns, made, chans, endVars>>

\* The server-to-client queue cannot be made: the first is removed.
NoS2c(c) ==
  /\ W(c, "c2s", "idle") /\ making' = [making EXCEPT ![c] = 0]
  /\ names' = names \ With(KeyOf(c, lastMq[c]), "c2s")
  /\ lastMq' = [lastMq EXCEPT ![c] = @ - 1]
  /\ UNCHANGED <<used, lastNs, ns, made, chans, endVars>>

\* create_channel_and_resources() succeeds: the channel is there, and its names
\* are sent to the client, which may be gone.
HookUp(c) ==
  /\ W(c, "both", "idle") /\ making' = [making EXCEPT ![c] = 0]
  /\ LET sent == [key |-> KeyOf(c, lastMq[c]), pair |-> making[c]] IN
       /\ chans' = chans \cup {sent}
       /\ inbox' = IF cli[c] = "peer" THEN [inbox EXCEPT ![c] = Append(@, sent)] ELSE inbox
  /\ UNCHANGED <<used, names, lastNs, ns, lastMq, made, held, stranded>>

\* connect_pair() or the Channel's constructor fails: both names are removed.
\* The id is not undone.
NoHookUp(c) ==
  /\ W(c, "both", "idle") /\ making' = [making EXCEPT ![c] = 0]
  /\ names' = WithoutKey(KeyOf(c, lastMq[c]))
  /\ UNCHANGED <<used, lastNs, ns, lastMq, made, chans, endVars>>

\* The server's side of a channel is destroyed: by its user, or in
\* open_channel() once the client has refused or the wait timed out.
DropAtServer(ch) ==
  /\ ch \in chans
  /\ chans' = chans \ {ch}
  /\ names' = WithoutKey(ch.key)
  /\ UNCHANGED <<used, lastNs, ns, lastMq, w, making, made, endVars>>

-----------------------------------------------------------------------------
(* The client.                                                              *)

Oldest(c) == Head(inbox[c])
Rest(c) == inbox' = [inbox EXCEPT ![c] = Tail(@)]
Found(key) == {n.pair : n \in {m \in names : m.key = key}}

\* create_channel_obj() opens both queues, one after the other.  One step will
\* do: while PIDs are unique a key is of one channel, so between the openings its
\* names can but go, both together, and the second opening fails (CannotTake).
TakeChannel(c) ==
  /\ cli[c] = "peer" /\ inbox[c] # <<>>
  /\ \A dir \in Dirs : With(Oldest(c).key, dir) # {}
  /\ held' = [held EXCEPT ![c] = @ \cup {[sent |-> Oldest(c), opened |-> Found(Oldest(c).key)]}]
  /\ Rest(c)
  /\ UNCHANGED <<used, nameVars, stranded>>

\* One or both are not there: its callers assert that this cannot be.
CannotTake(c) ==
  /\ cli[c] = "peer" /\ inbox[c] # <<>>
  /\ \E dir \in Dirs : With(Oldest(c).key, dir) = {}
  /\ stranded' = [stranded EXCEPT ![c] = TRUE]
  /\ Rest(c)
  /\ UNCHANGED <<used, nameVars, held>>

\* The names are not looked at: the answer is too late, or the client does not
\* accept channels.
Ignore(c) ==
  /\ cli[c] = "peer" /\ inbox[c] # <<>>
  /\ Rest(c)
  /\ UNCHANGED <<used, nameVars, held, stranded>>

\* The client's side of a channel is destroyed.
DropAtClient(c, ch) ==
  /\ ch \in held[c]
  /\ held' = [held EXCEPT ![c] = @ \ {ch}]
  /\ names' = WithoutKey(ch.sent.key)
  /\ UNCHANGED <<used, lastNs, ns, lastMq, w, making, made, chans, inbox, stranded>>

\* Its session is no more; channels outlive it.
MqLeave(c) ==
  /\ inbox' = [inbox EXCEPT ![c] = <<>>]
  /\ UNCHANGED <<used, nameVars, held, stranded>>

\* Its process has died: no name is removed.
MqCliCrash(c) ==
  /\ inbox' = [inbox EXCEPT ![c] = <<>>]
  /\ held' = [held EXCEPT ![c] = {}]
  /\ stranded' = [stranded EXCEPT ![c] = FALSE]
  /\ UNCHANGED <<used, nameVars>>
=============================================================================
