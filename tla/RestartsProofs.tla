--------------------------- MODULE RestartsProofs ---------------------------
(***************************************************************************)
(* The CNS file under its mutex, and the names of queues, through any       *)
(* number of server processes, clients and channels.                        *)
(***************************************************************************)
EXTENDS Restarts, FiniteSetTheorems, TLAPS

-----------------------------------------------------------------------------
(* Types.  They need that W has an id to undo while it makes a pair, and that *)
(* only a server that is up has sessions and channels.                       *)

MakingHasId == \A c \in Clients : w[c] # "idle" => ns[c] # 0 /\ lastMq[c] > 0 /\ making[c] > 0

UpHasSessions ==
  /\ srv # "down" => pid # 0
  /\ (\E c \in Clients : ns[c] # 0) \/ chans # {} => srv = "up"
  /\ \A c \in Clients : ns[c] # 0 => cli[c] \in {"peer", "gone"}

TypeInv == TypeOK /\ MakingHasId /\ UpHasSessions

\* The key of a session's names.
LEMMA KeyType ==
  ASSUME TypeInv, NEW c \in Clients, NEW id \in Nat, ns[c] # 0
  PROVE  KeyOf(c, id) \in Keys
BY DEF TypeInv, UpHasSessions, TypeOK, CnsTypeOK, MqTypeOK, KeyOf, Keys

\* The store's part of a step keeps the types of the store.
LEMMA StoreTypes ==
  ASSUME CnsTypeOK,
         \/ \E p \in Pids : SrvStart(p)
         \/ Construct \/ SrvStop \/ SrvCrash
         \/ \E c \in Clients : CliCall(c) \/ CliOpenMutex(c) \/ CliLock(c) \/ CliRead(c)
                               \/ CliUnlock(c) \/ CliConnect(c) \/ CliLeave(c) \/ CliCrash(c)
  PROVE  CnsTypeOK'
<1> USE StartsIsNat, CallsIsNat DEF CnsTypeOK, SrvPlaces, CliPlaces, SrvStep, CliStep
<1> USE DEF srvVars, fileVars, lockVars, cliVars
<1>1. ASSUME NEW p \in Pids, SrvStart(p) PROVE CnsTypeOK'
  BY <1>1 DEF SrvStart
<1>2. CASE Construct
  <2>1. CASE SrvOpenMutex BY <2>1 DEF SrvOpenMutex
  <2>2. CASE SrvRefuse BY <2>2 DEF SrvRefuse
  <2>3. CASE SrvLock BY <2>3 DEF SrvLock
  <2>4. CASE SrvTruncate BY <2>4 DEF SrvTruncate
  <2>5. CASE SrvCannotOpen BY <2>5 DEF SrvCannotOpen
  <2>6. CASE SrvWrite BY <2>6 DEF SrvWrite
  <2>7. CASE SrvUnlock BY <2>7 DEF SrvUnlock
  <2>8. CASE SrvListen BY <2>8 DEF SrvListen
  <2> QED BY <1>2, <2>1, <2>2, <2>3, <2>4, <2>5, <2>6, <2>7, <2>8 DEF Construct
<1>3. CASE SrvStop BY <1>3 DEF SrvStop
<1>4. CASE SrvCrash BY <1>4 DEF SrvCrash
<1>5. ASSUME NEW c \in Clients, CliCall(c) PROVE CnsTypeOK' BY <1>5 DEF CliCall
<1>6. ASSUME NEW c \in Clients, CliOpenMutex(c) PROVE CnsTypeOK' BY <1>6 DEF CliOpenMutex
<1>7. ASSUME NEW c \in Clients, CliLock(c) PROVE CnsTypeOK' BY <1>7 DEF CliLock
<1>8. ASSUME NEW c \in Clients, CliRead(c) PROVE CnsTypeOK' BY <1>8 DEF CliRead
<1>9. ASSUME NEW c \in Clients, CliUnlock(c) PROVE CnsTypeOK' BY <1>9 DEF CliUnlock
<1>10. ASSUME NEW c \in Clients, CliConnect(c) PROVE CnsTypeOK' BY <1>10 DEF CliConnect
<1>11. ASSUME NEW c \in Clients, CliLeave(c) PROVE CnsTypeOK' BY <1>11 DEF CliLeave
<1>12. ASSUME NEW c \in Clients, CliCrash(c) PROVE CnsTypeOK' BY <1>12 DEF CliCrash
<1> QED BY <1>1, <1>2, <1>3, <1>4, <1>5, <1>6, <1>7, <1>8, <1>9, <1>10, <1>11, <1>12

\* What W has while it makes a pair.
LEMMA MakingTypes ==
  ASSUME TypeInv, NEW c \in Clients, w[c] # "idle"
  PROVE  /\ ns[c] # 0
         /\ lastMq[c] \in Nat /\ lastMq[c] - 1 \in Nat
         /\ making[c] \in 1..MaxMade
<1>1. ns[c] # 0 /\ lastMq[c] > 0 /\ making[c] > 0
  BY DEF TypeInv, MakingHasId
<1>2. lastMq[c] \in Nat /\ making[c] \in 0..MaxMade
  BY DEF TypeInv, TypeOK, MqTypeOK
<1> QED BY <1>1, <1>2, MadeIsNat

\* The store's part of a step neither takes the server away unnoticed nor its PID.
LEMMA StoreKeepsUp ==
  ASSUME UpHasSessions, CnsTypeOK,
         \/ Construct /\ UNCHANGED mqVars
         \/ \E c \in Clients : \/ CliCall(c) \/ CliOpenMutex(c) \/ CliLock(c) \/ CliRead(c)
                               \/ CliUnlock(c) \/ CliLeave(c) \/ CliCrash(c) \/ CliConnect(c)
  PROVE  /\ srv # "down" => pid # 0
         /\ srv' # "down" => pid' # 0
         /\ srv = "up" => srv' = "up"
         /\ \A c \in Clients : cli[c] \in {"peer", "gone"} => cli'[c] \in {"peer", "gone"}
<1> USE DEF UpHasSessions, SrvStep, CliStep, srvVars, cliVars, CnsTypeOK
<1>1. CASE Construct
  BY <1>1 DEF Construct, SrvOpenMutex, SrvRefuse, SrvLock, SrvTruncate, SrvCannotOpen,
              SrvWrite, SrvUnlock, SrvListen
<1>2. CASE \E c \in Clients : \/ CliCall(c) \/ CliOpenMutex(c) \/ CliLock(c) \/ CliRead(c)
                              \/ CliUnlock(c) \/ CliLeave(c) \/ CliCrash(c) \/ CliConnect(c)
  BY <1>2 DEF CliCall, CliOpenMutex, CliLock, CliRead, CliUnlock, CliLeave, CliCrash, CliConnect
<1> QED BY <1>1, <1>2

\* Each step about queues keeps their types.
LEMMA MqTypes ==
  ASSUME TypeInv, Channels, UNCHANGED cnsVars
  PROVE  MqTypeOK' /\ MakingHasId' /\ UpHasSessions'
<1> USE MadeIsNat, PidsArePositive
<1> USE DEF MqTypeOK, MakingHasId, W, nameVars, endVars, cnsVars, srvVars, cliVars
<1>0. MqTypeOK /\ MakingHasId
  BY DEF TypeInv, TypeOK
<1>u. UpHasSessions /\ UNCHANGED <<srv, pid, cli>>
  BY DEF TypeInv
<1>1. ASSUME NEW c \in Clients, EndSession(c) PROVE MqTypeOK' /\ MakingHasId' /\ UpHasSessions'
  BY <1>0, <1>u, <1>1 DEF EndSession, UpHasSessions
<1>2. ASSUME NEW c \in Clients, MakeC2s(c) PROVE MqTypeOK' /\ MakingHasId' /\ UpHasSessions'
  <2>0. ns[c] # 0 /\ lastMq[c] + 1 \in Nat /\ made + 1 \in 1..MaxMade
    BY <1>0, <1>2 DEF MakeC2s
  <2>1. KeyOf(c, lastMq[c] + 1) \in Keys /\ made + 1 \in 1..MaxMade
    BY <2>0, KeyType
  <2>2. names' \subseteq [key : Keys, dir : Dirs, pair : 1..MaxMade]
    BY <1>0, <1>2, <2>1 DEF MakeC2s, Make, Dirs
  <2>3. MqTypeOK'
    BY <1>0, <1>2, <2>0, <2>2 DEF MakeC2s
  <2>4. MakingHasId'
    BY <1>0, <1>2, <2>0 DEF MakeC2s
  <2> QED BY <1>u, <1>2, <2>3, <2>4 DEF MakeC2s, UpHasSessions
<1>3. ASSUME NEW c \in Clients, MakeS2c(c) PROVE MqTypeOK' /\ MakingHasId' /\ UpHasSessions'
  <2>0. ns[c] # 0 /\ lastMq[c] \in Nat /\ making[c] \in 1..MaxMade
    BY <1>3, MakingTypes DEF MakeS2c
  <2>1. KeyOf(c, lastMq[c]) \in Keys /\ making[c] \in 1..MaxMade
    BY <2>0, KeyType
  <2>2. names' \subseteq [key : Keys, dir : Dirs, pair : 1..MaxMade]
    BY <1>0, <1>3, <2>1 DEF MakeS2c, Make, Dirs
  <2> QED BY <1>0, <1>u, <1>3, <2>1, <2>2 DEF MakeS2c, UpHasSessions
<1>4. ASSUME NEW c \in Clients, NoS2c(c) PROVE MqTypeOK' /\ MakingHasId' /\ UpHasSessions'
  <2>1. lastMq[c] - 1 \in Nat
    BY <1>4, MakingTypes DEF NoS2c
  <2>2. MqTypeOK'
    BY <1>0, <1>4, <2>1 DEF NoS2c
  <2>3. MakingHasId'
    BY <1>0, <1>4 DEF NoS2c
  <2> QED BY <1>u, <1>4, <2>2, <2>3 DEF NoS2c, UpHasSessions
<1>5. ASSUME NEW c \in Clients, HookUp(c) PROVE MqTypeOK' /\ MakingHasId' /\ UpHasSessions'
  <2> DEFINE sent == [key |-> KeyOf(c, lastMq[c]), pair |-> making[c]]
  <2>1. sent \in Sent
    <3>1. ns[c] # 0 /\ lastMq[c] \in Nat /\ making[c] \in 1..MaxMade
      BY <1>5, MakingTypes DEF HookUp
    <3> QED BY <3>1, KeyType DEF Sent
  <2>2. chans' = chans \cup {sent} /\ ns[c] # 0
    BY <1>5 DEF HookUp
  <2>3. inbox' \in [Clients -> Seq(Sent)]
    BY <1>0, <1>5, <2>1 DEF HookUp
  <2> HIDE DEF sent
  <2>4. chans' \subseteq Sent
    BY <1>0, <2>1, <2>2
  <2> QED BY <1>0, <1>u, <1>5, <2>2, <2>3, <2>4 DEF HookUp, UpHasSessions
<1>6. ASSUME NEW c \in Clients, NoHookUp(c) PROVE MqTypeOK' /\ MakingHasId' /\ UpHasSessions'
  BY <1>0, <1>u, <1>6 DEF NoHookUp, WithoutKey, UpHasSessions
<1>7. ASSUME NEW c \in Clients, TakeChannel(c) PROVE MqTypeOK' /\ MakingHasId' /\ UpHasSessions'
  <2>1. inbox[c] \in Seq(Sent) /\ inbox[c] # <<>>
    BY <1>0, <1>7 DEF TakeChannel
  <2>2. Oldest(c) \in Sent /\ Tail(inbox[c]) \in Seq(Sent)
    BY <2>1 DEF Oldest
  <2>3. Found(Oldest(c).key) \subseteq 1..MaxMade
    BY <1>0 DEF Found
  <2>4. inbox' \in [Clients -> Seq(Sent)]
    BY <1>0, <1>7, <2>2 DEF TakeChannel, Rest
  <2>5. held' \in [Clients -> SUBSET [sent : Sent, opened : SUBSET (1..MaxMade)]]
    BY <1>0, <1>7, <2>2, <2>3 DEF TakeChannel
  <2> QED BY <1>0, <1>u, <1>7, <2>4, <2>5 DEF TakeChannel, UpHasSessions
<1>8. ASSUME NEW c \in Clients, CannotTake(c) \/ Ignore(c)
      PROVE  MqTypeOK' /\ MakingHasId' /\ UpHasSessions'
  <2>1. inbox[c] \in Seq(Sent) /\ inbox[c] # <<>>
    BY <1>0, <1>8 DEF CannotTake, Ignore
  <2>2. Tail(inbox[c]) \in Seq(Sent)
    BY <2>1
  <2>3. inbox' \in [Clients -> Seq(Sent)]
    BY <1>0, <1>8, <2>2 DEF CannotTake, Ignore, Rest
  <2> QED BY <1>0, <1>u, <1>8, <2>3 DEF CannotTake, Ignore, UpHasSessions
<1>9. ASSUME NEW c \in Clients, NEW ch \in held[c], DropAtClient(c, ch)
      PROVE  MqTypeOK' /\ MakingHasId' /\ UpHasSessions'
  BY <1>0, <1>u, <1>9 DEF DropAtClient, WithoutKey, UpHasSessions
<1>10. ASSUME NEW ch \in chans, DropAtServer(ch) PROVE MqTypeOK' /\ MakingHasId' /\ UpHasSessions'
  BY <1>0, <1>u, <1>10 DEF DropAtServer, WithoutKey, UpHasSessions
<1> QED BY <1>1, <1>2, <1>3, <1>4, <1>5, <1>6, <1>7, <1>8, <1>9, <1>10 DEF Channels

\* Every step keeps the types.
LEMMA TypeInvStep ==
  ASSUME TypeInv, [Next]_vars
  PROVE  TypeInv'
<1> USE PidsArePositive
<1> USE DEF TypeInv, TypeOK
<1>1. ASSUME NEW p \in Pids, SrvStart(p), MqStart(p) PROVE TypeInv'
  <2>1. CnsTypeOK'
    BY <1>1, StoreTypes
  <2>2. MqTypeOK' /\ MakingHasId'
    BY <1>1 DEF MqStart, RemoveAll, MqTypeOK, MakingHasId, endVars
  <2>3. UpHasSessions'
    BY <1>1 DEF SrvStart, MqStart, UpHasSessions, cliVars, CnsTypeOK
  <2> QED BY <2>1, <2>2, <2>3
<1>2. ASSUME Construct, UNCHANGED mqVars PROVE TypeInv'
  <2>1. CnsTypeOK'
    BY <1>2, StoreTypes
  <2>2. /\ srv' # "down" => pid' # 0
        /\ srv = "up" => srv' = "up"
        /\ \A d \in Clients : cli[d] \in {"peer", "gone"} => cli'[d] \in {"peer", "gone"}
    BY <1>2, StoreKeepsUp
  <2> QED BY <1>2, <2>1, <2>2 DEF mqVars, nameVars, endVars, MqTypeOK, MakingHasId, UpHasSessions
<1>3. ASSUME SrvStop, MqStop PROVE TypeInv'
  <2>1. CnsTypeOK'
    BY <1>3, StoreTypes
  <2> QED BY <1>3, <2>1 DEF SrvStop, SrvStep, MqStop, mqVars, nameVars, endVars, MqTypeOK,
                            MakingHasId, UpHasSessions
<1>4. ASSUME SrvCrash, MqCrash PROVE TypeInv'
  <2>1. CnsTypeOK'
    BY <1>4, StoreTypes
  <2>2. MqTypeOK' /\ MakingHasId'
    BY <1>4, MadeIsNat DEF MqCrash, endVars, MqTypeOK, MakingHasId
  <2>3. UpHasSessions'
    BY <1>4 DEF SrvCrash, SrvStep, MqCrash, UpHasSessions
  <2> QED BY <2>1, <2>2, <2>3
<1>5. ASSUME NEW c \in Clients, (CliCall(c) /\ UNCHANGED mqVars) \/ Connect(c) PROVE TypeInv'
  <2>1. CnsTypeOK'
    BY <1>5, StoreTypes DEF Connect
  <2>2. /\ srv' # "down" => pid' # 0
        /\ srv = "up" => srv' = "up"
        /\ \A d \in Clients : cli[d] \in {"peer", "gone"} => cli'[d] \in {"peer", "gone"}
    BY <1>5, StoreKeepsUp DEF Connect
  <2>3. CASE UNCHANGED mqVars
    BY <2>1, <2>2, <2>3 DEF mqVars, nameVars, endVars, MqTypeOK, MakingHasId, UpHasSessions
  <2>4. CASE CliConnect(c) /\ cli'[c] = "peer" /\ LogIn(c)
    <3>1. srv = "up" /\ srv' = "up"
      BY <2>2, <2>4 DEF CliConnect, CliStep, CnsTypeOK
    <3>2. MqTypeOK' /\ lastNs + 1 # 0
      BY <2>4 DEF LogIn, MqTypeOK, endVars
    <3>3. MakingHasId'
      <4>1. ns[c] = 0 /\ w[c] = "idle"
        BY <2>4 DEF CliConnect, CliStep, CnsTypeOK, MakingHasId, UpHasSessions
      <4> QED BY <2>4, <4>1 DEF LogIn, MqTypeOK, MakingHasId
    <3>4. UpHasSessions'
      BY <2>2, <2>4, <3>1 DEF LogIn, MqTypeOK, UpHasSessions
    <3> QED BY <2>1, <3>2, <3>3, <3>4
  <2> QED BY <1>5, <2>3, <2>4 DEF Connect
<1>6. ASSUME NEW c \in Clients, CliLeave(c), MqLeave(c) PROVE TypeInv'
  <2>1. CnsTypeOK'
    BY <1>6, StoreTypes
  <2>2. /\ srv' # "down" => pid' # 0
        /\ srv = "up" => srv' = "up"
        /\ \A d \in Clients : cli[d] \in {"peer", "gone"} => cli'[d] \in {"peer", "gone"}
    BY <1>6, StoreKeepsUp
  <2> QED BY <1>6, <2>1, <2>2 DEF MqLeave, nameVars, MqTypeOK, MakingHasId, UpHasSessions
<1>7. ASSUME NEW c \in Clients, CliCrash(c), MqCliCrash(c) PROVE TypeInv'
  <2>1. CnsTypeOK'
    BY <1>7, StoreTypes
  <2>2. /\ srv' # "down" => pid' # 0
        /\ srv = "up" => srv' = "up"
        /\ \A d \in Clients : cli[d] \in {"peer", "gone"} => cli'[d] \in {"peer", "gone"}
    BY <1>7, StoreKeepsUp
  <2> QED BY <1>7, <2>1, <2>2 DEF MqCliCrash, nameVars, MqTypeOK, MakingHasId, UpHasSessions
<1>8. ASSUME Channels, UNCHANGED cnsVars PROVE TypeInv'
  <2>1. CnsTypeOK'
    BY <1>8 DEF cnsVars, srvVars, fileVars, lockVars, cliVars, CnsTypeOK
  <2> QED BY <1>8, <2>1, MqTypes
<1>9. ASSUME UNCHANGED vars PROVE TypeInv'
  BY <1>9 DEF vars, cnsVars, mqVars, srvVars, fileVars, lockVars, cliVars, nameVars, endVars,
              CnsTypeOK, MqTypeOK, MakingHasId, UpHasSessions
<1> QED BY <1>1, <1>2, <1>3, <1>4, <1>5, <1>6, <1>7, <1>8, <1>9 DEF Next

\* The initial states have them.
LEMMA InitIsTyped ==
  ASSUME Init
  PROVE  TypeInv
<1>1. CnsTypeOK
  <2>1. /\ cli \in [Clients -> CliPlaces] /\ calls \in [Clients -> 0..MaxCalls]
        /\ got \in [Clients -> Pids \cup {0}]
    BY CallsIsNat DEF Init, CnsInit, CliPlaces
  <2>2. /\ srv \in SrvPlaces /\ pid \in Pids \cup {0} /\ starts \in 0..MaxStarts
        /\ file \in {"absent", "empty", "full"} /\ filePid \in Pids \cup {0}
        /\ mutex \in {"free", "srv", "client", "died"} /\ holder \subseteq Clients
    BY StartsIsNat DEF Init, CnsInit, SrvPlaces
  <2>3. spoiled \in BOOLEAN
    BY DEF Init, CnsInit
  <2> QED BY <2>1, <2>2, <2>3 DEF CnsTypeOK
<1>2. MqTypeOK
  BY MadeIsNat DEF Init, MqInit, MqTypeOK
<1>3. MakingHasId /\ UpHasSessions
  BY DEF Init, CnsInit, MqInit, MakingHasId, UpHasSessions
<1> QED BY <1>1, <1>2, <1>3 DEF TypeInv, TypeOK

\* The state of the store and of the queues has its types, for any clients, PIDs
\* and bounds (TypeOK of the run store).
THEOREM RestartsTypeCorrect == Spec => []TypeOK
<1>1. Init => TypeInv
  BY InitIsTyped
<1>2. TypeInv /\ [Next]_vars => TypeInv'
  BY TypeInvStep
<1>3. TypeInv => TypeOK
  BY DEF TypeInv
<1> QED BY <1>1, <1>2, <1>3, PTL DEF Spec

-----------------------------------------------------------------------------
(* The file and its mutex.                                                  *)

\* The mutex is with whoever is in its critical section, or is lost.
MutexInv ==
  /\ mutex = "srv" <=> srv \in {"locked", "truncated", "failing", "written"}
  /\ \A c \in Clients : cli[c] \in {"locked", "read"} => mutex = "client" /\ holder = {c}
  /\ holder # {} => mutex = "client"

\* Half a file: a constructor is at it, died at it, or could not complete it.
FileInv ==
  /\ file = "empty" => spoiled \/ srv = "truncated" \/ mutex = "died"
  /\ srv \in {"written", "closed", "up"} => spoiled \/ (file = "full" /\ filePid = pid)

StoreInv == MutexInv /\ FileInv

\* The constructor's steps.
LEMMA ConstructKeeps ==
  ASSUME StoreInv, Construct
  PROVE  StoreInv'
<1> USE DEF StoreInv, MutexInv, FileInv, SrvStep, fileVars, lockVars, cliVars
<1>1. CASE SrvOpenMutex BY <1>1 DEF SrvOpenMutex
<1>2. CASE SrvRefuse BY <1>2 DEF SrvRefuse
<1>3. CASE SrvLock BY <1>3 DEF SrvLock
<1>4. CASE SrvTruncate
  <2>1. /\ srv = "locked" /\ srv' \in {"truncated", "failing"}
        /\ spoiled' \/ srv' = "truncated"
    BY <1>4 DEF SrvTruncate
  <2> QED BY <1>4, <2>1 DEF SrvTruncate
<1>5. CASE SrvCannotOpen BY <1>5 DEF SrvCannotOpen
<1>6. CASE SrvWrite
  <2>1. /\ srv = "truncated" /\ srv' = "written" /\ pid' = pid
        /\ spoiled' \/ (file' = "full" /\ filePid' = pid)
    BY <1>6 DEF SrvWrite
  <2>2. UNCHANGED <<lockVars, cliVars>>
    BY <1>6 DEF SrvWrite
  <2> QED BY <2>1, <2>2
<1>7. CASE SrvUnlock BY <1>7 DEF SrvUnlock
<1>8. CASE SrvListen BY <1>8 DEF SrvListen
<1> QED BY <1>1, <1>2, <1>3, <1>4, <1>5, <1>6, <1>7, <1>8 DEF Construct

\* The clients' steps.
LEMMA ClientKeeps ==
  ASSUME StoreInv, CnsTypeOK, NEW c \in Clients,
         \/ CliCall(c) \/ CliOpenMutex(c) \/ CliLock(c) \/ CliRead(c)
         \/ CliUnlock(c) \/ CliConnect(c) \/ CliLeave(c) \/ CliCrash(c)
  PROVE  StoreInv'
<1> USE DEF StoreInv, MutexInv, FileInv, CliStep, CnsTypeOK, srvVars, fileVars, lockVars
<1>1. CASE CliCall(c) BY <1>1 DEF CliCall
<1>2. CASE CliOpenMutex(c) BY <1>2 DEF CliOpenMutex
<1>3. CASE CliLock(c) BY <1>3 DEF CliLock
<1>4. CASE CliRead(c) BY <1>4 DEF CliRead
<1>5. CASE CliUnlock(c) BY <1>5 DEF CliUnlock
<1>6. CASE CliConnect(c) BY <1>6 DEF CliConnect
<1>7. CASE CliLeave(c) BY <1>7 DEF CliLeave
<1>8. CASE CliCrash(c) BY <1>8 DEF CliCrash
<1> QED BY <1>1, <1>2, <1>3, <1>4, <1>5, <1>6, <1>7, <1>8

\* Every step.
LEMMA StoreInvStep ==
  ASSUME TypeInv, StoreInv, [Next]_vars
  PROVE  StoreInv'
<1>0. CnsTypeOK
  BY DEF TypeInv, TypeOK
<1>1. ASSUME NEW p \in Pids, SrvStart(p) PROVE StoreInv'
  BY <1>1 DEF SrvStart, StoreInv, MutexInv, FileInv, fileVars, lockVars, cliVars
<1>2. CASE Construct
  BY <1>2, ConstructKeeps
<1>3. CASE SrvStop
  BY <1>3 DEF SrvStop, SrvStep, StoreInv, MutexInv, FileInv, fileVars, lockVars, cliVars
<1>4. CASE SrvCrash
  BY <1>4 DEF SrvCrash, SrvStep, StoreInv, MutexInv, FileInv, fileVars, cliVars
<1>5. ASSUME NEW c \in Clients, CliCall(c) \/ Connect(c) \/ CliLeave(c) \/ CliCrash(c) PROVE StoreInv'
  BY <1>0, <1>5, ClientKeeps DEF Connect
<1>6. CASE UNCHANGED cnsVars
  BY <1>6 DEF cnsVars, srvVars, fileVars, lockVars, cliVars, StoreInv, MutexInv, FileInv
<1> QED BY <1>1, <1>2, <1>3, <1>4, <1>5, <1>6 DEF Next, vars

\* No client sees a half-written file but one a constructor left so because it
\* failed: whatever dies, and however many constructors and clients there are.
THEOREM HalfWrittenIsUnseen == Spec => []HalfWrittenUnseen
<1>1. Init => TypeInv /\ StoreInv
  BY InitIsTyped DEF Init, CnsInit, StoreInv, MutexInv, FileInv
<1>2. TypeInv /\ StoreInv /\ [Next]_vars => (TypeInv /\ StoreInv)'
  BY TypeInvStep, StoreInvStep
<1>3. StoreInv => HalfWrittenUnseen
  BY DEF StoreInv, MutexInv, FileInv, HalfWrittenUnseen
<1> QED BY <1>1, <1>2, <1>3, PTL DEF Spec

\* The file names the server that listens, unless its flush was lost.
THEOREM ListenerIsAlwaysNamed == Spec => []ListenerIsNamed
<1>1. Init => TypeInv /\ StoreInv
  BY InitIsTyped DEF Init, CnsInit, StoreInv, MutexInv, FileInv
<1>2. TypeInv /\ StoreInv /\ [Next]_vars => (TypeInv /\ StoreInv)'
  BY TypeInvStep, StoreInvStep
<1>3. StoreInv => ListenerIsNamed
  BY DEF StoreInv, FileInv, ListenerIsNamed
<1> QED BY <1>1, <1>2, <1>3, PTL DEF Spec

-----------------------------------------------------------------------------
(* The names.                                                               *)

\* As NamesAreOwned, also while the server is being constructed.
Owned(n) ==
  \/ \E ch \in chans : n.key = ch.key /\ n.pair = ch.pair
  \/ \E c \in Clients :
       ns[c] # 0 /\ w[c] # "idle" /\ n.key = KeyOf(c, lastMq[c]) /\ n.pair = making[c]

AllOwned == srv # "down" => \A n \in names : Owned(n)

\* No two sessions have a cli_namespace in common.
SessionsDiffer ==
  /\ \A c \in Clients : ns[c] <= lastNs
  /\ \A c, d \in Clients : ns[c] # 0 /\ ns[c] = ns[d] => c = d

\* The ids of a session's channels are behind it, and behind the one being made.
IdsAreBehind ==
  \A ch \in chans :
    /\ ch.key.pid = pid /\ ch.key.ns <= lastNs
    /\ \A c \in Clients : ns[c] # 0 /\ ns[c] = ch.key.ns =>
         /\ ch.key.id <= lastMq[c]
         /\ w[c] # "idle" => ch.key.id < lastMq[c]

\* The second name is not there when it is about to be made.
SecondIsNew == \A c \in Clients : w[c] = "c2s" => With(KeyOf(c, lastMq[c]), "s2c") = {}

NamesInv == AllOwned /\ SessionsDiffer /\ IdsAreBehind /\ SecondIsNew

\* An idle session's next names are new.
LEMMA NextIsNew ==
  ASSUME TypeInv, NamesInv, NEW c \in Clients, ns[c] # 0, w[c] = "idle", NEW dir \in Dirs
  PROVE  With(KeyOf(c, lastMq[c] + 1), dir) = {}
<1> SUFFICES ASSUME NEW n \in names, n.key = KeyOf(c, lastMq[c] + 1) PROVE FALSE
  BY DEF With
<1>1. srv # "down" /\ lastMq[c] \in Nat
  BY DEF TypeInv, UpHasSessions, TypeOK, MqTypeOK
<1>2. n.key.ns = ns[c] /\ n.key.id = lastMq[c] + 1
  BY DEF KeyOf
<1>3. Owned(n)
  BY <1>1 DEF NamesInv, AllOwned
<1>4. ASSUME NEW ch \in chans, n.key = ch.key PROVE FALSE
  <2>1. ch.key.id <= lastMq[c] /\ ch.key.id = lastMq[c] + 1
    BY <1>2, <1>4 DEF NamesInv, IdsAreBehind
  <2> QED BY <1>1, <2>1
<1>5. ASSUME NEW d \in Clients, ns[d] # 0, w[d] # "idle", n.key = KeyOf(d, lastMq[d]) PROVE FALSE
  BY <1>2, <1>5 DEF NamesInv, SessionsDiffer, KeyOf
<1> QED BY <1>3, <1>4, <1>5 DEF Owned

\* The steps about queues.
LEMMA NamesKept ==
  ASSUME TypeInv, NamesInv, Channels, UNCHANGED cnsVars
  PROVE  NamesInv'
<1>0. MqTypeOK /\ UNCHANGED <<srv, pid>>
  BY DEF TypeInv, TypeOK, cnsVars, srvVars
<1>t. /\ \A c \in Clients : ns[c] \in Nat /\ lastMq[c] \in Nat
      /\ ns \in [Clients -> Nat] /\ lastMq \in [Clients -> Nat]
      /\ w \in [Clients -> {"idle", "c2s", "both"}] /\ making \in [Clients -> 0..MaxMade]
      /\ \A ch \in chans : ch.key.id \in Nat /\ ch.key.ns \in Nat
      /\ lastNs \in Nat
  BY <1>0 DEF MqTypeOK, Sent, Keys
<1>n. AllOwned /\ SessionsDiffer /\ IdsAreBehind /\ SecondIsNew
  BY DEF NamesInv
<1>1. ASSUME NEW c \in Clients, EndSession(c) PROVE NamesInv'
  <2>1. AllOwned'
    BY <1>0, <1>t, <1>n, <1>1 DEF EndSession, AllOwned, Owned, KeyOf
  <2>2. SessionsDiffer' /\ IdsAreBehind'
    BY <1>0, <1>t, <1>n, <1>1 DEF EndSession, SessionsDiffer, IdsAreBehind
  <2>3. SecondIsNew'
    BY <1>0, <1>t, <1>n, <1>1 DEF EndSession, SecondIsNew, With, KeyOf
  <2> QED BY <2>1, <2>2, <2>3 DEF NamesInv
<1>2. ASSUME NEW c \in Clients, MakeC2s(c) PROVE NamesInv'
  <2>b. PICK new : new = [key |-> KeyOf(c, lastMq[c] + 1), dir |-> "c2s", pair |-> made + 1]
    OBVIOUS
  <2>a. /\ ns[c] # 0 /\ w[c] = "idle" /\ w' = [w EXCEPT ![c] = "c2s"]
        /\ lastMq' = [lastMq EXCEPT ![c] = @ + 1] /\ making' = [making EXCEPT ![c] = made + 1]
        /\ names' = names \cup {new} /\ UNCHANGED <<ns, chans>>
    BY <1>2, <2>b DEF MakeC2s, W, Make
  <2>c. new.key = KeyOf(c, lastMq[c] + 1) /\ new.pair = made + 1
    BY <2>b
  <2>1. AllOwned'
    <3>1. Owned(new)'
      BY <1>0, <1>t, <2>a, <2>c DEF Owned, KeyOf
    <3>2. ASSUME NEW n \in names, Owned(n) PROVE Owned(n)'
      BY <1>0, <1>t, <2>a, <3>2 DEF Owned, KeyOf
    <3> QED BY <1>0, <1>n, <2>a, <3>1, <3>2 DEF AllOwned
  <2>2. SessionsDiffer' /\ IdsAreBehind'
    BY <1>0, <1>t, <1>n, <1>2 DEF MakeC2s, W, SessionsDiffer, IdsAreBehind
  <2>3. SecondIsNew'
    <3>1. With(KeyOf(c, lastMq[c] + 1), "s2c") = {}
      BY <1>2, NextIsNew DEF MakeC2s, W, Dirs
    <3>2. \A d \in Clients : d # c /\ w[d] = "c2s" => ns[d] # ns[c]
      BY <1>2, <1>n DEF MakeC2s, W, SessionsDiffer, TypeInv, MakingHasId
    <3> QED BY <1>0, <1>t, <1>n, <1>2, <3>1, <3>2 DEF MakeC2s, W, Make, SecondIsNew, With, KeyOf
  <2> QED BY <2>1, <2>2, <2>3 DEF NamesInv
<1>3. ASSUME NEW c \in Clients, MakeS2c(c) PROVE NamesInv'
  <2>b. PICK new : new = [key |-> KeyOf(c, lastMq[c]), dir |-> "s2c", pair |-> making[c]]
    OBVIOUS
  <2>a. /\ ns[c] # 0 /\ w[c] = "c2s" /\ w' = [w EXCEPT ![c] = "both"]
        /\ names' = names \cup {new} /\ UNCHANGED <<ns, chans, lastMq, making>>
    BY <1>3, <2>b DEF MakeS2c, W, Make
  <2>c. new.key = KeyOf(c, lastMq[c]) /\ new.pair = making[c]
    BY <2>b
  <2>1. AllOwned'
    <3>1. Owned(new)'
      BY <1>0, <1>t, <2>a, <2>c DEF Owned, KeyOf
    <3>2. ASSUME NEW n \in names, Owned(n) PROVE Owned(n)'
      BY <1>0, <1>t, <2>a, <3>2 DEF Owned, KeyOf
    <3> QED BY <1>0, <1>n, <2>a, <3>1, <3>2 DEF AllOwned
  <2>2. SessionsDiffer' /\ IdsAreBehind'
    BY <1>0, <1>t, <1>n, <1>3 DEF MakeS2c, W, SessionsDiffer, IdsAreBehind
  <2>3. SecondIsNew'
    <3>2. \A d \in Clients : d # c /\ w[d] = "c2s" => ns[d] # ns[c]
      BY <1>3, <1>n DEF MakeS2c, W, SessionsDiffer, TypeInv, MakingHasId
    <3> QED BY <1>0, <1>t, <1>n, <1>3, <3>2 DEF MakeS2c, W, Make, SecondIsNew, With, KeyOf
  <2> QED BY <2>1, <2>2, <2>3 DEF NamesInv
<1>4. ASSUME NEW c \in Clients, NoS2c(c) PROVE NamesInv'
  <2>0. lastMq[c] - 1 \in Nat
    BY <1>4, MakingTypes DEF NoS2c, W
  <2>1. AllOwned'
    <3>1. \A n \in names' : n \in names /\ n.key # KeyOf(c, lastMq[c])
      <4>1. \A n \in names : n.dir \in {"c2s", "s2c"}
        BY <1>0 DEF MqTypeOK, Dirs
      <4> QED BY <1>n, <1>4, <4>1 DEF NoS2c, W, SecondIsNew, With
    <3> QED BY <1>0, <1>t, <1>n, <1>4, <3>1 DEF NoS2c, W, AllOwned, Owned, KeyOf
  <2>2. SessionsDiffer' /\ IdsAreBehind'
    BY <1>0, <1>t, <1>n, <1>4, <2>0 DEF NoS2c, W, SessionsDiffer, IdsAreBehind
  <2>3. SecondIsNew'
    BY <1>0, <1>t, <1>n, <1>4 DEF NoS2c, W, SecondIsNew, With, KeyOf
  <2> QED BY <2>1, <2>2, <2>3 DEF NamesInv
<1>5. ASSUME NEW c \in Clients, HookUp(c) PROVE NamesInv'
  <2> DEFINE sent == [key |-> KeyOf(c, lastMq[c]), pair |-> making[c]]
  <2>0. chans' = chans \cup {sent} /\ sent.key = KeyOf(c, lastMq[c]) /\ sent.pair = making[c]
    BY <1>5 DEF HookUp
  <2>a. /\ ns[c] # 0 /\ w[c] = "both" /\ w' = [w EXCEPT ![c] = "idle"]
        /\ making' = [making EXCEPT ![c] = 0] /\ UNCHANGED <<names, lastNs, ns, lastMq>>
    BY <1>5 DEF HookUp, W
  <2> HIDE DEF sent
  <2>1. AllOwned'
    <3>1. ASSUME NEW n \in names, Owned(n) PROVE Owned(n)'
      <4>1. CASE \E ch \in chans : n.key = ch.key /\ n.pair = ch.pair
        BY <2>0, <4>1 DEF Owned
      <4>2. ASSUME NEW d \in Clients, ns[d] # 0, w[d] # "idle",
                   n.key = KeyOf(d, lastMq[d]), n.pair = making[d]
            PROVE  Owned(n)'
        <5>1. CASE d = c
          BY <2>0, <4>2, <5>1 DEF Owned
        <5>2. CASE d # c
          <6>1. ns'[d] # 0 /\ w'[d] # "idle" /\ making'[d] = making[d]
            BY <1>t, <2>a, <4>2, <5>2
          <6>2. n.key = KeyOf(d, lastMq[d])'
            BY <1>0, <2>a, <4>2 DEF KeyOf
          <6> QED BY <4>2, <6>1, <6>2 DEF Owned
        <5> QED BY <5>1, <5>2
      <4> QED BY <3>1, <4>1, <4>2 DEF Owned
    <3> QED BY <1>0, <1>n, <2>a, <3>1 DEF AllOwned
  <2>2. SessionsDiffer'
    BY <1>n, <2>a DEF SessionsDiffer
  <2>3. IdsAreBehind'
    <3>1. sent.key.pid = pid /\ sent.key.ns = ns[c] /\ sent.key.id = lastMq[c]
      BY <2>0 DEF KeyOf
    <3>2. ASSUME NEW ch \in chans, NEW d \in Clients, ns[d] # 0, ns[d] = ch.key.ns
          PROVE  ch.key.id <= lastMq[d] /\ (w'[d] # "idle" => ch.key.id < lastMq[d])
      BY <1>t, <1>n, <2>a, <3>2 DEF IdsAreBehind
    <3>3. ASSUME NEW d \in Clients, ns[d] # 0, ns[d] = sent.key.ns
          PROVE  sent.key.id <= lastMq[d] /\ w'[d] = "idle"
      BY <1>t, <1>n, <2>a, <3>1, <3>3 DEF SessionsDiffer
    <3>4. sent.key.ns <= lastNs /\ \A ch \in chans : ch.key.pid = pid /\ ch.key.ns <= lastNs
      BY <1>n, <3>1 DEF SessionsDiffer, IdsAreBehind
    <3> QED BY <1>0, <2>0, <2>a, <3>1, <3>2, <3>3, <3>4 DEF IdsAreBehind
  <2>4. SecondIsNew'
    BY <1>0, <1>t, <1>n, <2>a DEF SecondIsNew, With, KeyOf
  <2> QED BY <2>1, <2>2, <2>3, <2>4 DEF NamesInv
<1>6. ASSUME NEW c \in Clients, NoHookUp(c) PROVE NamesInv'
  <2>1. AllOwned'
    BY <1>0, <1>t, <1>n, <1>6 DEF NoHookUp, W, WithoutKey, AllOwned, Owned, KeyOf
  <2>2. SessionsDiffer' /\ IdsAreBehind'
    BY <1>0, <1>t, <1>n, <1>6 DEF NoHookUp, W, SessionsDiffer, IdsAreBehind
  <2>3. SecondIsNew'
    BY <1>0, <1>t, <1>n, <1>6 DEF NoHookUp, W, WithoutKey, SecondIsNew, With, KeyOf
  <2> QED BY <2>1, <2>2, <2>3 DEF NamesInv
<1>7. ASSUME NEW c \in Clients, TakeChannel(c) \/ CannotTake(c) \/ Ignore(c) PROVE NamesInv'
  <2>1. UNCHANGED nameVars
    BY <1>7 DEF TakeChannel, CannotTake, Ignore
  <2> QED BY <1>0, <1>n, <2>1 DEF nameVars, NamesInv, AllOwned, Owned, SessionsDiffer, IdsAreBehind,
                                  SecondIsNew, With, KeyOf
<1>8. ASSUME NEW c \in Clients, NEW ch \in held[c], DropAtClient(c, ch) PROVE NamesInv'
  BY <1>0, <1>n, <1>8 DEF DropAtClient, WithoutKey, NamesInv, AllOwned, Owned, SessionsDiffer,
                          IdsAreBehind, SecondIsNew, With, KeyOf
<1>9. ASSUME NEW ch \in chans, DropAtServer(ch) PROVE NamesInv'
  BY <1>0, <1>n, <1>9 DEF DropAtServer, WithoutKey, NamesInv, AllOwned, Owned, SessionsDiffer,
                          IdsAreBehind, SecondIsNew, With, KeyOf
<1> QED BY <1>1, <1>2, <1>3, <1>4, <1>5, <1>6, <1>7, <1>8, <1>9 DEF Channels

\* Every step.
LEMMA NamesInvStep ==
  ASSUME TypeInv, NamesInv, [Next]_vars
  PROVE  NamesInv'
<1> USE DEF NamesInv
<1>1. ASSUME NEW p \in Pids, SrvStart(p), MqStart(p) PROVE NamesInv'
  <2>1. chans = {} /\ \A c \in Clients : ns[c] = 0 /\ w[c] = "idle"
    BY <1>1 DEF SrvStart, TypeInv, UpHasSessions, MakingHasId
  <2>2. lastNs' = 0 /\ names' = {} /\ UNCHANGED <<chans, ns, w, lastMq>>
    BY <1>1 DEF MqStart, RemoveAll
  <2> QED BY <2>1, <2>2 DEF AllOwned, SessionsDiffer, IdsAreBehind, SecondIsNew, With
<1>2. ASSUME Construct \/ (\E c \in Clients : CliCall(c) \/ Connect(c)), UNCHANGED mqVars
      PROVE  NamesInv'
  <2>1. pid' = pid /\ (srv' # "down" => srv # "down")
    BY <1>2 DEF Construct, SrvOpenMutex, SrvRefuse, SrvLock, SrvTruncate, SrvCannotOpen, SrvWrite,
                SrvUnlock, SrvListen, SrvStep, CliCall, Connect, CliOpenMutex, CliLock, CliRead,
                CliUnlock, CliConnect, srvVars
  <2> QED BY <1>2, <2>1 DEF mqVars, nameVars, AllOwned, Owned, SessionsDiffer, IdsAreBehind,
                            SecondIsNew, With, KeyOf
<1>3. ASSUME SrvStop, MqStop PROVE NamesInv'
  <2>1. pid' = pid /\ srv' = "down" /\ UNCHANGED nameVars
    BY <1>3 DEF SrvStop, SrvStep, MqStop, mqVars
  <2> QED BY <2>1 DEF nameVars, AllOwned, SessionsDiffer, IdsAreBehind, SecondIsNew, With, KeyOf
<1>4. ASSUME SrvCrash, MqCrash PROVE NamesInv'
  <2>1. /\ srv' = "down" /\ chans' = {} /\ lastNs' = lastNs /\ lastNs \in Nat
        /\ \A c \in Clients : ns'[c] = 0 /\ w'[c] = "idle"
    BY <1>4 DEF SrvCrash, SrvStep, MqCrash, TypeInv, TypeOK, MqTypeOK
  <2> QED BY <2>1 DEF AllOwned, SessionsDiffer, IdsAreBehind, SecondIsNew
<1>5. ASSUME NEW c \in Clients, CliConnect(c), cli'[c] = "peer", LogIn(c) PROVE NamesInv'
  <2>1. ns[c] = 0 /\ w[c] = "idle" /\ UNCHANGED <<srv, pid>>
    BY <1>5 DEF CliConnect, CliStep, TypeInv, TypeOK, CnsTypeOK, MakingHasId, UpHasSessions, srvVars
  <2>2. /\ lastNs' = lastNs + 1 /\ ns' = [ns EXCEPT ![c] = lastNs + 1]
        /\ lastMq' = [lastMq EXCEPT ![c] = 0] /\ UNCHANGED <<names, w, making, chans>>
    BY <1>5 DEF LogIn
  <2>3. ns \in [Clients -> Nat] /\ lastMq \in [Clients -> Nat] /\ lastNs \in Nat
        /\ \A ch \in chans : ch.key.ns \in Nat
    BY DEF TypeInv, TypeOK, MqTypeOK, Sent, Keys
  <2>4. AllOwned'
    <3>1. ASSUME NEW n \in names, Owned(n) PROVE Owned(n)'
      BY <2>1, <2>2, <2>3, <3>1 DEF Owned, KeyOf
    <3> QED BY <2>1, <2>2, <3>1 DEF AllOwned
  <2>5. SessionsDiffer'
    BY <2>2, <2>3 DEF SessionsDiffer
  <2>6. IdsAreBehind'
    BY <2>1, <2>2, <2>3 DEF IdsAreBehind, SessionsDiffer
  <2>7. SecondIsNew'
    BY <2>1, <2>2, <2>3 DEF SecondIsNew, With, KeyOf
  <2> QED BY <2>4, <2>5, <2>6, <2>7
<1>6. ASSUME NEW c \in Clients, \/ CliLeave(c) /\ MqLeave(c)
                                \/ CliCrash(c) /\ MqCliCrash(c) PROVE NamesInv'
  <2>1. UNCHANGED <<srv, pid, nameVars>>
    BY <1>6 DEF CliLeave, CliCrash, MqLeave, MqCliCrash, srvVars
  <2> QED BY <2>1 DEF nameVars, AllOwned, Owned, SessionsDiffer, IdsAreBehind, SecondIsNew, With, KeyOf
<1>7. ASSUME Channels, UNCHANGED cnsVars PROVE NamesInv'
  BY <1>7, NamesKept
<1>8. ASSUME UNCHANGED vars PROVE NamesInv'
  <2>1. UNCHANGED <<srv, pid, nameVars>>
    BY <1>8 DEF vars, cnsVars, srvVars, mqVars
  <2> QED BY <2>1 DEF nameVars, AllOwned, Owned, SessionsDiffer, IdsAreBehind, SecondIsNew, With, KeyOf
<1>9. ASSUME NEW c \in Clients, Connect(c) PROVE NamesInv'
  BY <1>2, <1>5, <1>9 DEF Connect
<1> QED BY <1>1, <1>2, <1>3, <1>4, <1>6, <1>7, <1>8, <1>9 DEF Next

\* It holds in the beginning.
LEMMA NamesInvInit ==
  ASSUME Init
  PROVE  NamesInv
BY DEF Init, CnsInit, MqInit, NamesInv, AllOwned, SessionsDiffer, IdsAreBehind, SecondIsNew, With

\* While a server listens every queue name is that of a channel it has or is
\* making, however many processes have died with however many channels.
THEOREM NamesAreAlwaysOwned == Spec => []NamesAreOwned
<1>1. Init => TypeInv /\ NamesInv
  BY InitIsTyped, NamesInvInit
<1>2. TypeInv /\ NamesInv /\ [Next]_vars => (TypeInv /\ NamesInv)'
  BY TypeInvStep, NamesInvStep
<1>3. NamesInv => NamesAreOwned
  BY DEF NamesInv, AllOwned, Owned, NamesAreOwned
<1> QED BY <1>1, <1>2, <1>3, PTL DEF Spec

\* The names a session makes next are new, also under a PID used before.
THEOREM NextNamesAreNew == Spec => []NextNameIsNew
<1>1. Init => TypeInv /\ NamesInv
  BY InitIsTyped, NamesInvInit
<1>2. TypeInv /\ NamesInv /\ [Next]_vars => (TypeInv /\ NamesInv)'
  BY TypeInvStep, NamesInvStep
<1>3. TypeInv /\ NamesInv => NextNameIsNew
  BY NextIsNew DEF NextNameIsNew, NamesInv, SecondIsNew
<1> QED BY <1>1, <1>2, <1>3, PTL DEF Spec

-----------------------------------------------------------------------------
(* Keys, while PIDs are unique.                                             *)

\* The channels that are anywhere: at the server, on the way to a client, at one.
Pending(c) == {inbox[c][i] : i \in DOMAIN inbox[c]}
Taken(c)   == {ch.sent : ch \in held[c]}
Past       == chans \cup UNION {Pending(c) \cup Taken(c) : c \in Clients}

\* Processes are counted by their PIDs, or there was one with a PID again.
UsedCounted ==
  IsFiniteSet(used) /\ Cardinality(used) <= starts /\ pid \in used \cup {0}

\* Their keys are behind the server and its sessions, as IdsAreBehind has it of
\* those at the server.
KeysAreBehind ==
  \A e \in Past :
    /\ e.key.pid \in used
    /\ e.key.pid = pid =>
         /\ e.key.ns <= lastNs
         /\ \A c \in Clients : ns[c] # 0 /\ ns[c] = e.key.ns =>
              /\ e.key.id <= lastMq[c]
              /\ w[c] # "idle" => e.key.id < lastMq[c]

\* A key tells which pair it is, at a channel and at a name.
KeysTell ==
  /\ \A e, f \in Past : e.key = f.key => e = f
  /\ \A e \in Past : \A n \in names : n.key = e.key => n.pair = e.pair

\* What W has made of a pair so far is there.
HasMade(c, dir) == \E n \in With(KeyOf(c, lastMq[c]), dir) : n.pair = making[c]
MadeIsThere ==
  \A c \in Clients : /\ w[c] # "idle" => HasMade(c, "c2s")
                     /\ w[c] = "both" => HasMade(c, "s2c")

\* A channel is sent once, and is on the way or taken.
SentOnce ==
  /\ \A c, d \in Clients : Pending(c) \cap Taken(d) = {}
  /\ \A c, d \in Clients : c # d => Pending(c) \cap Pending(d) = {}
  /\ \A c \in Clients : \A i, j \in DOMAIN inbox[c] : inbox[c][i] = inbox[c][j] => i = j

\* As PendingIsOpenable and OpensItsOwn.
Openable(e) ==
  \A dir \in Dirs : \E n \in With(e.key, dir) : n.pair = e.pair
PendingOpens == \A c \in Clients : \A e \in Pending(c) : e \in chans => Openable(e)
TakenOpened == \A c \in Clients : \A ch \in held[c] : ch.opened = {ch.sent.pair}

KeysOnce == KeysAreBehind /\ KeysTell /\ MadeIsThere /\ SentOnce /\ PendingOpens /\ TakenOpened

KeysInv == UsedCounted /\ (PidsUnique => KeysOnce)

LEMMA PastAre ==
  ASSUME TypeInv
  PROVE  /\ \A e \in Past : e \in Sent /\ e.key.id \in Nat /\ e.key.ns \in Nat
         /\ \A e : e \in Past <=> \/ e \in chans
                                  \/ \E c \in Clients : e \in Pending(c) \/ e \in Taken(c)
<1>1. /\ chans \subseteq Sent /\ inbox \in [Clients -> Seq(Sent)]
      /\ held \in [Clients -> SUBSET [sent : Sent, opened : SUBSET (1..MaxMade)]]
  BY DEF TypeInv, TypeOK, MqTypeOK
<1>2. \A c \in Clients : Pending(c) \subseteq Sent
  <2> SUFFICES ASSUME NEW c \in Clients PROVE \A i \in DOMAIN inbox[c] : inbox[c][i] \in Sent
    BY DEF Pending
  <2>1. inbox[c] \in Seq(Sent)
    BY <1>1
  <2> QED BY <2>1
<1>3. \A c \in Clients : Taken(c) \subseteq Sent
  BY <1>1 DEF Taken
<1>4. \A e : e \in Past <=> \/ e \in chans
                            \/ \E c \in Clients : e \in Pending(c) \/ e \in Taken(c)
  BY DEF Past
<1>5. \A e \in Sent : e.key.id \in Nat /\ e.key.ns \in Nat
  BY DEF Sent, Keys
<1> QED BY <1>1, <1>2, <1>3, <1>4, <1>5

\* A channel that was sent has a key behind that of a pair that is made or begun.
LEMMA BehindCurrent ==
  ASSUME TypeInv, KeysAreBehind, NEW c \in Clients, ns[c] # 0, NEW e \in Past
  PROVE  /\ w[c] = "idle" => e.key # KeyOf(c, lastMq[c] + 1)
         /\ w[c] # "idle" => e.key # KeyOf(c, lastMq[c])
<1>1. e.key.id \in Nat /\ lastMq[c] \in Nat
  BY PastAre DEF TypeInv, TypeOK, MqTypeOK
<1>2. \A id : e.key = KeyOf(c, id) => e.key.pid = pid /\ e.key.ns = ns[c] /\ e.key.id = id
  BY DEF KeyOf
<1>3. e.key.pid = pid /\ e.key.ns = ns[c] =>
        e.key.id <= lastMq[c] /\ (w[c] # "idle" => e.key.id < lastMq[c])
  BY DEF KeysAreBehind
<1> QED BY <1>1, <1>2, <1>3

\* Sessions have no key in common.
LEMMA KeysDiffer ==
  ASSUME SessionsDiffer, NEW c \in Clients, NEW d \in Clients, ns[c] # 0, c # d
  PROVE  \A i, j : KeyOf(c, i) # KeyOf(d, j)
BY DEF SessionsDiffer, KeyOf

\* The names of the pair that is made are of that pair.
LEMMA MakingTells ==
  ASSUME TypeInv, NamesInv, NEW c \in Clients, w[c] # "idle",
         NEW n \in names, n.key = KeyOf(c, lastMq[c])
  PROVE  n.pair = making[c]
<1>1. /\ ns[c] # 0 /\ srv # "down" /\ lastMq[c] \in Nat
      /\ \A ch \in chans : ch.key.id \in Nat
  BY DEF TypeInv, MakingHasId, UpHasSessions, TypeOK, MqTypeOK, Sent, Keys
<1>2. Owned(n)
  BY <1>1 DEF NamesInv, AllOwned
<1>3. ASSUME NEW ch \in chans, n.key = ch.key PROVE FALSE
  <2>1. ch.key.ns = ns[c] /\ ch.key.id = lastMq[c]
    BY <1>3 DEF KeyOf
  <2>2. ch.key.id < lastMq[c]
    BY <1>1, <2>1 DEF NamesInv, IdsAreBehind
  <2> QED BY <1>1, <2>1, <2>2
<1>4. ASSUME NEW d \in Clients, ns[d] # 0, n.key = KeyOf(d, lastMq[d]) PROVE d = c
  BY <1>1, <1>4, KeysDiffer DEF NamesInv
<1> QED BY <1>2, <1>3, <1>4 DEF Owned

\* What is lost leaves the rest as it was.
LEMMA FewerTell ==
  ASSUME KeysTell, Past' \subseteq Past, names' \subseteq names
  PROVE  KeysTell'
BY DEF KeysTell

LEMMA FewerPast ==
  ASSUME TypeInv, TypeInv', chans' \subseteq chans,
         \A c \in Clients : Pending(c)' \subseteq Pending(c)
                            /\ Taken(c)' \subseteq Taken(c) \cup Pending(c)
  PROVE  Past' \subseteq Past
BY DEF Past

LEMMA FewerSent ==
  ASSUME SentOnce,
         \A c \in Clients : /\ Pending(c)' \subseteq Pending(c)
                            /\ Taken(c)' \subseteq Taken(c)
                            /\ inbox'[c] = inbox[c] \/ inbox'[c] = <<>>
  PROVE  SentOnce'
<1>1. \A c \in Clients : \A i, j \in DOMAIN inbox'[c] : inbox'[c][i] = inbox'[c][j] => i = j
  BY DEF SentOnce
<1>2. /\ \A c, d \in Clients : Pending(c)' \cap Taken(d)' = {}
      /\ \A c, d \in Clients : c # d => Pending(c)' \cap Pending(d)' = {}
  BY DEF SentOnce
<1> QED BY <1>1, <1>2 DEF SentOnce

\* The oldest is taken out.
LEMMA RestPending ==
  ASSUME TypeInv, SentOnce, NEW c \in Clients, inbox[c] # <<>>, Rest(c)
  PROVE  /\ Oldest(c) \in Pending(c) /\ Oldest(c) \notin Pending(c)'
         /\ \A d \in Clients :
              /\ Pending(d)' \subseteq Pending(d)
              /\ \A i, j \in DOMAIN inbox'[d] : inbox'[d][i] = inbox'[d][j] => i = j
<1> DEFINE q == inbox[c]
           r == Tail(q)
<1>1. /\ inbox \in [Clients -> Seq(Sent)] /\ q \in Seq(Sent) /\ q # <<>>
      /\ inbox'[c] = r /\ \A d \in Clients : d # c => inbox'[d] = inbox[d]
  BY DEF TypeInv, TypeOK, MqTypeOK, Rest
<1>2. /\ 1 \in DOMAIN q /\ Head(q) = q[1] /\ DOMAIN q = 1..Len(q) /\ Len(q) \in Nat
      /\ DOMAIN r = 1..(Len(q) - 1)
      /\ \A i \in 1..(Len(q) - 1) : r[i] = q[i + 1]
  BY <1>1
<1> HIDE DEF r
<1>3. \A i \in DOMAIN r : i + 1 \in DOMAIN q /\ r[i] = q[i + 1] /\ i \in Nat /\ i + 1 # 1
  BY <1>2
<1>4. \A i, j \in DOMAIN q : q[i] = q[j] => i = j
  BY DEF SentOnce
<1>5. \A i, j \in DOMAIN r : r[i] = r[j] => i = j
  BY <1>3, <1>4
<1>6. Oldest(c) \in Pending(c) /\ \A i \in DOMAIN r : r[i] # Oldest(c)
  BY <1>2, <1>3, <1>4 DEF Oldest, Pending
<1>7. Oldest(c) \notin Pending(c)' /\ Pending(c)' \subseteq Pending(c)
  <2>1. Pending(c)' = {r[i] : i \in DOMAIN r}
    BY <1>1 DEF Pending
  <2> QED BY <1>3, <1>6, <2>1 DEF Pending
<1>8. \A d \in Clients : d # c => Pending(d)' = Pending(d)
  BY <1>1 DEF Pending
<1>9. \A d \in Clients : \A i, j \in DOMAIN inbox'[d] : inbox'[d][i] = inbox'[d][j] => i = j
  BY <1>1, <1>5 DEF SentOnce
<1> QED BY <1>6, <1>7, <1>8, <1>9

\* The client takes the oldest, or does not: it opens that channel's queues, since
\* the names with its key are of its pair.
LEMMA TakeKeys ==
  ASSUME TypeInv, TypeInv', KeysOnce, NEW c \in Clients, UNCHANGED pid,
         TakeChannel(c) \/ CannotTake(c) \/ Ignore(c)
  PROVE  KeysOnce'
<1> DEFINE new == [sent |-> Oldest(c), opened |-> Found(Oldest(c).key)]
<1>0. /\ inbox[c] # <<>> /\ Rest(c) /\ UNCHANGED <<used, nameVars>>
      /\ held \in [Clients -> SUBSET [sent : Sent, opened : SUBSET (1..MaxMade)]]
  BY DEF TakeChannel, CannotTake, Ignore, TypeInv, TypeOK, MqTypeOK
<1>1. /\ KeysAreBehind /\ KeysTell /\ MadeIsThere /\ SentOnce /\ PendingOpens /\ TakenOpened
  BY DEF KeysOnce
<1>2. /\ Oldest(c) \in Pending(c) /\ Oldest(c) \notin Pending(c)'
      /\ \A d \in Clients :
           /\ Pending(d)' \subseteq Pending(d)
           /\ \A i, j \in DOMAIN inbox'[d] : inbox'[d][i] = inbox'[d][j] => i = j
  BY <1>0, <1>1, RestPending
<1>3. \/ UNCHANGED held
      \/ held' = [held EXCEPT ![c] = @ \cup {new}] /\ \A dir \in Dirs : With(Oldest(c).key, dir) # {}
  BY DEF TakeChannel, CannotTake, Ignore
<1>4. \A d \in Clients : Taken(d)' \subseteq Taken(d) \cup (IF d = c THEN {Oldest(c)} ELSE {})
  BY <1>0, <1>3 DEF Taken
<1>5. Past' \subseteq Past
  BY <1>0, <1>2, <1>4, FewerPast DEF nameVars
<1>6. KeysTell'
  BY <1>0, <1>1, <1>5, FewerTell DEF nameVars
<1>7. KeysAreBehind' /\ MadeIsThere'
  BY <1>0, <1>1, <1>5 DEF nameVars, KeysAreBehind, MadeIsThere, HasMade, With, KeyOf
<1>8. SentOnce'
  <2>1. \A d, f \in Clients : Pending(d)' \cap Taken(f)' = {}
    BY <1>1, <1>2, <1>4 DEF SentOnce
  <2>2. \A d, f \in Clients : d # f => Pending(d)' \cap Pending(f)' = {}
    BY <1>1, <1>2 DEF SentOnce
  <2> QED BY <1>2, <2>1, <2>2 DEF SentOnce
<1>9. PendingOpens'
  BY <1>0, <1>1, <1>2 DEF nameVars, PendingOpens, Openable, With
<1>10. TakenOpened'
  <2>1. CASE UNCHANGED held
    BY <1>1, <2>1 DEF TakenOpened
  <2>2. CASE /\ held' = [held EXCEPT ![c] = @ \cup {new}]
             /\ \A dir \in Dirs : With(Oldest(c).key, dir) # {}
    <3>1. Oldest(c) \in Past
      BY <1>2, PastAre
    <3>2. \E n \in names : n.key = Oldest(c).key
      BY <2>2 DEF Dirs, With
    <3>3. Found(Oldest(c).key) = {Oldest(c).pair}
      BY <1>1, <3>1, <3>2 DEF KeysTell, Found
    <3> QED BY <1>0, <1>1, <2>2, <3>3 DEF TakenOpened
  <2> QED BY <1>3, <2>1, <2>2
<1> QED BY <1>6, <1>7, <1>8, <1>9, <1>10 DEF KeysOnce

\* Nothing happens at the clients, or less is there.
LEMMA EndsKept ==
  ASSUME TypeInv, KeysOnce, UNCHANGED <<inbox, held>>
  PROVE  /\ SentOnce' /\ TakenOpened'
         /\ \A c \in Clients : Pending(c)' = Pending(c) /\ Taken(c)' = Taken(c)
<1>1. \A c \in Clients : Pending(c)' = Pending(c) /\ Taken(c)' = Taken(c)
  BY DEF Pending, Taken
<1>2. SentOnce'
  BY <1>1, FewerSent DEF KeysOnce
<1> QED BY <1>1, <1>2 DEF KeysOnce, TakenOpened

\* A queue is made, whose key no channel has had.
LEMMA MakeKeys ==
  ASSUME TypeInv, TypeInv', NamesInv, KeysOnce, NEW c \in Clients, UNCHANGED pid,
         MakeC2s(c) \/ MakeS2c(c)
  PROVE  KeysOnce'
<1> DEFINE key == IF w[c] = "idle" THEN KeyOf(c, lastMq[c] + 1) ELSE KeyOf(c, lastMq[c])
           pair == IF w[c] = "idle" THEN made + 1 ELSE making[c]
           dir == IF w[c] = "idle" THEN "c2s" ELSE "s2c"
           new == [key |-> key, dir |-> dir, pair |-> pair]
<1>0. /\ ns[c] # 0 /\ UNCHANGED <<used, lastNs, ns, chans, inbox, held>>
      /\ w \in [Clients -> {"idle", "c2s", "both"}] /\ lastMq \in [Clients -> Nat]
      /\ making \in [Clients -> 0..MaxMade] /\ SessionsDiffer
      /\ \A d \in Clients : w[d] # "idle" => ns[d] # 0
  BY DEF MakeC2s, MakeS2c, W, endVars, TypeInv, TypeOK, MqTypeOK, NamesInv, MakingHasId
<1>1. /\ KeysAreBehind /\ KeysTell /\ MadeIsThere /\ SentOnce /\ PendingOpens /\ TakenOpened
  BY DEF KeysOnce
<1>2. /\ names' = names \cup {new} /\ new.key = key /\ new.pair = pair /\ new.dir = dir
      /\ w'[c] = (IF w[c] = "idle" THEN "c2s" ELSE "both")
      /\ lastMq'[c] = (IF w[c] = "idle" THEN lastMq[c] + 1 ELSE lastMq[c])
      /\ making'[c] = pair /\ (w[c] # "idle" => w[c] = "c2s")
      /\ \A d \in Clients : d # c => /\ w'[d] = w[d] /\ lastMq'[d] = lastMq[d]
                                     /\ making'[d] = making[d]
  <2>1. CASE MakeC2s(c)
    BY <1>0, <2>1 DEF MakeC2s, W, Make
  <2>2. CASE MakeS2c(c)
    BY <1>0, <2>2 DEF MakeS2c, W, Make
  <2> QED BY <2>1, <2>2
<1>3. \A e \in Past : e.key # key
  BY <1>0, <1>1, BehindCurrent
<1>4. KeyOf(c, lastMq[c])' = key
  BY <1>0, <1>2 DEF KeyOf
<1> HIDE DEF key, pair, dir, new
<1>5. /\ SentOnce' /\ TakenOpened'
      /\ \A d \in Clients : Pending(d)' = Pending(d) /\ Taken(d)' = Taken(d)
  BY <1>0, EndsKept
<1>6. Past' = Past
  BY <1>0, <1>5 DEF Past
<1>7. KeysAreBehind'
  <2> SUFFICES ASSUME NEW e \in Past, e.key.pid = pid, NEW d \in Clients, ns[d] # 0,
                      ns[d] = e.key.ns
               PROVE  e.key.id <= lastMq'[d] /\ (w'[d] # "idle" => e.key.id < lastMq'[d])
    BY <1>0, <1>1, <1>6 DEF KeysAreBehind
  <2>1. /\ e.key.id <= lastMq[d] /\ (w[d] # "idle" => e.key.id < lastMq[d])
        /\ e.key.id \in Nat /\ lastMq[d] \in Nat
    BY <1>0, <1>1, PastAre DEF KeysAreBehind
  <2> QED BY <1>2, <2>1
<1>8. KeysTell'
  BY <1>1, <1>2, <1>3, <1>6 DEF KeysTell
<1>9. MadeIsThere'
  <2>1. ASSUME NEW d \in Clients, NEW dd, HasMade(d, dd), d # c PROVE HasMade(d, dd)'
    BY <1>0, <1>2, <2>1 DEF HasMade, With, KeyOf
  <2>2. w[c] # "idle" /\ HasMade(c, "c2s") => HasMade(c, "c2s")'
    <3>1. w[c] # "idle" => KeyOf(c, lastMq[c])' = KeyOf(c, lastMq[c]) /\ making'[c] = making[c]
      BY <1>2, <1>4 DEF key, pair
    <3> QED BY <1>2, <3>1 DEF HasMade, With
  <2>3. ASSUME NEW dd, dir = dd PROVE HasMade(c, dd)'
    BY <1>2, <1>4, <2>3 DEF HasMade, With
  <2>4. MadeIsThere' <=> \A d \in Clients : /\ w'[d] # "idle" => HasMade(d, "c2s")'
                                            /\ w'[d] = "both" => HasMade(d, "s2c")'
    BY DEF MadeIsThere
  <2>5. /\ w'[c] # "idle" /\ (w'[c] = "both" <=> w[c] # "idle")
        /\ IF w[c] = "idle" THEN dir = "c2s" ELSE dir = "s2c"
    BY <1>2 DEF dir
  <2>6. HasMade(c, "c2s")' /\ (w'[c] = "both" => HasMade(c, "s2c")')
    BY <1>1, <2>2, <2>3, <2>5 DEF MadeIsThere
  <2> QED BY <1>1, <1>2, <2>1, <2>4, <2>6 DEF MadeIsThere
<1>10. PendingOpens'
  BY <1>0, <1>1, <1>2, <1>5 DEF PendingOpens, Openable, With
<1> QED BY <1>5, <1>7, <1>8, <1>9, <1>10 DEF KeysOnce

\* Names are removed that belong to a pair that is not there, or no longer.
LEMMA RemoveKeys ==
  ASSUME TypeInv, TypeInv', NamesInv, KeysOnce, NEW c \in Clients, UNCHANGED pid,
         NoS2c(c) \/ NoHookUp(c)
  PROVE  KeysOnce'
<1>0. /\ ns[c] # 0 /\ w[c] # "idle" /\ UNCHANGED <<used, lastNs, ns, chans, inbox, held>>
      /\ w \in [Clients -> {"idle", "c2s", "both"}] /\ lastMq \in [Clients -> Nat]
      /\ making \in [Clients -> 0..MaxMade] /\ SessionsDiffer
      /\ \A d \in Clients : w[d] # "idle" => ns[d] # 0
  BY DEF NoS2c, NoHookUp, W, endVars, TypeInv, TypeOK, MqTypeOK, NamesInv, MakingHasId
<1>1. /\ KeysAreBehind /\ KeysTell /\ MadeIsThere /\ SentOnce /\ PendingOpens /\ TakenOpened
  BY DEF KeysOnce
<1>2. /\ names' \subseteq names /\ w'[c] = "idle"
      /\ \A n \in names : n.key # KeyOf(c, lastMq[c]) => n \in names'
      /\ lastMq'[c] >= lastMq[c] - 1 /\ lastMq'[c] \in Nat
      /\ \A d \in Clients : d # c => /\ w'[d] = w[d] /\ lastMq'[d] = lastMq[d]
                                     /\ making'[d] = making[d]
  <2>1. CASE NoS2c(c)
    <3>1. lastMq[c] - 1 \in Nat
      BY <1>0, MakingTypes
    <3> QED BY <1>0, <2>1, <3>1 DEF NoS2c, W, With
  <2>2. CASE NoHookUp(c)
    BY <1>0, <2>2 DEF NoHookUp, W, WithoutKey
  <2> QED BY <2>1, <2>2
<1>3. \A e \in Past : e.key # KeyOf(c, lastMq[c])
  BY <1>0, <1>1, BehindCurrent
<1>5. /\ SentOnce' /\ TakenOpened'
      /\ \A d \in Clients : Pending(d)' = Pending(d) /\ Taken(d)' = Taken(d)
  BY <1>0, EndsKept
<1>6. Past' = Past
  BY <1>0, <1>5 DEF Past
<1>7. KeysAreBehind'
  <2> SUFFICES ASSUME NEW e \in Past, e.key.pid = pid, NEW d \in Clients, ns[d] # 0,
                      ns[d] = e.key.ns
               PROVE  e.key.id <= lastMq'[d] /\ (w'[d] # "idle" => e.key.id < lastMq'[d])
    BY <1>0, <1>1, <1>6 DEF KeysAreBehind
  <2>1. /\ e.key.id <= lastMq[d] /\ (w[d] # "idle" => e.key.id < lastMq[d])
        /\ e.key.id \in Nat /\ lastMq[d] \in Nat
    BY <1>0, <1>1, PastAre DEF KeysAreBehind
  <2> QED BY <1>0, <1>2, <2>1
<1>8. KeysTell'
  BY <1>1, <1>2, <1>6, FewerTell
<1>9. MadeIsThere'
  <2>1. ASSUME NEW d \in Clients, NEW dd, HasMade(d, dd), d # c PROVE HasMade(d, dd)'
    <3>1. PICK n \in names : n.key = KeyOf(d, lastMq[d]) /\ n.dir = dd /\ n.pair = making[d]
      BY <2>1 DEF HasMade, With
    <3>2. n \in names'
      BY <1>0, <1>2, <2>1, <3>1, KeysDiffer
    <3>3. KeyOf(d, lastMq[d])' = KeyOf(d, lastMq[d]) /\ making'[d] = making[d]
      BY <1>0, <1>2, <2>1 DEF KeyOf
    <3> QED BY <3>1, <3>2, <3>3 DEF HasMade, With
  <2>2. MadeIsThere' <=> \A d \in Clients : /\ w'[d] # "idle" => HasMade(d, "c2s")'
                                            /\ w'[d] = "both" => HasMade(d, "s2c")'
    BY DEF MadeIsThere
  <2> QED BY <1>1, <1>2, <2>1, <2>2 DEF MadeIsThere
<1>10. PendingOpens'
  <2> SUFFICES ASSUME NEW d \in Clients, NEW e \in Pending(d), e \in chans
               PROVE  Openable(e)'
    BY <1>0, <1>5 DEF PendingOpens
  <2>1. e \in Past /\ Openable(e)
    BY <1>1, PastAre DEF PendingOpens
  <2> QED BY <1>2, <1>3, <2>1 DEF Openable, With
<1> QED BY <1>5, <1>7, <1>8, <1>9, <1>10 DEF KeysOnce

\* A channel more: its key and its pair are those of what was made.
LEMMA HookUpKeys ==
  ASSUME TypeInv, TypeInv', NamesInv, UsedCounted, KeysOnce, NEW c \in Clients, UNCHANGED pid,
         HookUp(c)
  PROVE  KeysOnce'
<1> DEFINE sent == [key |-> KeyOf(c, lastMq[c]), pair |-> making[c]]
<1>0. /\ ns[c] # 0 /\ w[c] = "both" /\ UNCHANGED <<used, names, lastNs, ns, lastMq, held>>
      /\ w \in [Clients -> {"idle", "c2s", "both"}] /\ lastMq \in [Clients -> Nat]
      /\ making \in [Clients -> 0..MaxMade] /\ SessionsDiffer
      /\ inbox \in [Clients -> Seq(Sent)]
      /\ w' = [w EXCEPT ![c] = "idle"] /\ making' = [making EXCEPT ![c] = 0]
  BY DEF HookUp, W, TypeInv, TypeOK, MqTypeOK, NamesInv
<1>1. /\ KeysAreBehind /\ KeysTell /\ MadeIsThere /\ SentOnce /\ PendingOpens /\ TakenOpened
  BY DEF KeysOnce
<1>2. /\ chans' = chans \cup {sent}
      /\ inbox' = [inbox EXCEPT ![c] = Append(@, sent)] \/ inbox' = inbox
      /\ sent.key = KeyOf(c, lastMq[c]) /\ sent.pair = making[c]
      /\ sent.key.pid = pid /\ sent.key.ns = ns[c] /\ sent.key.id = lastMq[c]
  BY DEF HookUp, KeyOf
<1>3. \A e \in Past : e.key # sent.key
  BY <1>0, <1>1, <1>2, BehindCurrent
<1> HIDE DEF sent
<1>4. /\ \A d \in Clients : d # c => inbox'[d] = inbox[d] /\ Pending(d)' = Pending(d)
      /\ Pending(c)' \subseteq Pending(c) \cup {sent}
      /\ \A i, j \in DOMAIN inbox'[c] : inbox'[c][i] = inbox'[c][j] => i = j
      /\ \A d \in Clients : Taken(d)' = Taken(d)
  <2>1. \A d \in Clients : d # c => inbox'[d] = inbox[d] /\ Pending(d)' = Pending(d)
    BY <1>0, <1>2 DEF Pending
  <2>2. \A d \in Clients : Taken(d)' = Taken(d)
    BY <1>0 DEF Taken
  <2>3. CASE inbox' = inbox
    BY <1>1, <2>1, <2>2, <2>3 DEF SentOnce, Pending
  <2>4. CASE inbox' = [inbox EXCEPT ![c] = Append(@, sent)]
    <3> DEFINE q == inbox[c]
               r == Append(q, sent)
    <3>1. q \in Seq(Sent) /\ inbox'[c] = r
      BY <1>0, <2>4
    <3>2. /\ Len(q) \in Nat /\ DOMAIN q = 1..Len(q) /\ DOMAIN r = 1..(Len(q) + 1)
          /\ \A i \in 1..Len(q) : r[i] = q[i]
          /\ r[Len(q) + 1] = sent
      BY <3>1
    <3> HIDE DEF r
    <3>3. \A i \in DOMAIN q : q[i] \in Past /\ q[i] # sent
      <4>1. \A i \in DOMAIN q : q[i] \in Past
        BY PastAre DEF Pending
      <4> QED BY <1>3, <4>1
    <3>4. \A i \in DOMAIN r : (i \in DOMAIN q /\ r[i] = q[i]) \/ (i = Len(q) + 1 /\ r[i] = sent)
      BY <3>2
    <3>5. \A i, j \in DOMAIN q : q[i] = q[j] => i = j
      BY <1>1 DEF SentOnce
    <3>6. \A i, j \in DOMAIN r : r[i] = r[j] => i = j
      BY <3>3, <3>4, <3>5
    <3>7. Pending(c)' = {r[i] : i \in DOMAIN r}
      BY <3>1 DEF Pending
    <3>8. Pending(c)' \subseteq Pending(c) \cup {sent}
      BY <3>4, <3>7 DEF Pending
    <3> QED BY <2>1, <2>2, <3>1, <3>6, <3>8
  <2> QED BY <1>2, <2>3, <2>4
<1>5. Past' \subseteq Past \cup {sent}
  BY <1>2, <1>4 DEF Past
<1>6. KeysAreBehind'
  <2>1. ASSUME NEW e \in Past, e.key.pid = pid, NEW d \in Clients, ns[d] # 0, ns[d] = e.key.ns
        PROVE  e.key.id <= lastMq[d] /\ (w'[d] # "idle" => e.key.id < lastMq[d])
    BY <1>0, <1>1, <2>1 DEF KeysAreBehind
  <2>2. ASSUME NEW d \in Clients, ns[d] # 0, ns[d] = sent.key.ns PROVE d = c
    BY <1>0, <1>2, <2>2 DEF SessionsDiffer
  <2>3. sent.key.pid \in used /\ sent.key.ns <= lastNs
    <3>1. sent.key.ns <= lastNs
      BY <1>0, <1>2 DEF SessionsDiffer
    <3>2. pid \in used
      BY <1>0 DEF UsedCounted, TypeInv, UpHasSessions
    <3> QED BY <1>2, <3>1, <3>2
  <2>4. sent.key.id <= lastMq[c] /\ w'[c] = "idle"
    BY <1>0, <1>2
  <2> QED BY <1>0, <1>1, <1>2, <1>5, <2>1, <2>2, <2>3, <2>4 DEF KeysAreBehind
<1>7. KeysTell'
  <2>1. \A n \in names : n.key = sent.key => n.pair = sent.pair
    BY <1>0, <1>2, MakingTells
  <2> QED BY <1>0, <1>1, <1>3, <1>5, <2>1 DEF KeysTell
<1>8. MadeIsThere'
  BY <1>0, <1>1 DEF MadeIsThere, HasMade, With, KeyOf
<1>9. SentOnce' /\ TakenOpened'
  <2>1. sent \notin Past
    BY <1>3
  <2>2. \A d \in Clients : Pending(d) \subseteq Past /\ Taken(d) \subseteq Past
    BY PastAre
  <2>3. \A d, f \in Clients : Pending(d)' \cap Taken(f)' = {}
    BY <1>1, <1>4, <2>1, <2>2 DEF SentOnce
  <2>4. \A d, f \in Clients : d # f => Pending(d)' \cap Pending(f)' = {}
    BY <1>1, <1>4, <2>1, <2>2 DEF SentOnce
  <2>5. SentOnce'
    BY <1>1, <1>4, <2>3, <2>4 DEF SentOnce
  <2> QED BY <1>0, <1>1, <2>5 DEF TakenOpened
<1>10. PendingOpens'
  <2>1. Openable(sent)
    BY <1>0, <1>1, <1>2 DEF MadeIsThere, HasMade, Openable, Dirs
  <2>2. \A e : Openable(e) => Openable(e)'
    BY <1>0 DEF Openable, With
  <2>3. ASSUME NEW d \in Clients, NEW e \in Pending(d)', e \in chans', e # sent
        PROVE  Openable(e)
    BY <1>1, <1>2, <1>4, <2>3 DEF PendingOpens
  <2>4. \A d \in Clients : \A e \in Pending(d)' : e \in chans' => Openable(e)'
    BY <2>1, <2>2, <2>3
  <2> QED BY <2>4 DEF PendingOpens
<1> QED BY <1>6, <1>7, <1>8, <1>9, <1>10 DEF KeysOnce

\* A side of a channel is dropped, and both names with it: no other channel has them.
LEMMA DropKeys ==
  ASSUME TypeInv, TypeInv', KeysOnce, UNCHANGED pid, NEW ch \in Past,
         names' = WithoutKey(ch.key), UNCHANGED <<used, lastNs, ns, lastMq, w, making, inbox>>,
         chans' \subseteq chans,
         \A c \in Clients : held'[c] \subseteq held[c],
         \A c \in Clients : ch \in Pending(c) => ch \notin chans'
  PROVE  KeysOnce'
<1>1. /\ KeysAreBehind /\ KeysTell /\ MadeIsThere /\ SentOnce /\ PendingOpens /\ TakenOpened
  BY DEF KeysOnce
<1>2. \A c \in Clients : Pending(c)' = Pending(c) /\ Taken(c)' \subseteq Taken(c)
  BY DEF Pending, Taken
<1>3. Past' \subseteq Past
  BY <1>2, FewerPast
<1>4. names' \subseteq names /\ \A n \in names : n.key # ch.key => n \in names'
  BY DEF WithoutKey
<1>5. KeysAreBehind'
  BY <1>1, <1>3 DEF KeysAreBehind
<1>6. KeysTell'
  BY <1>1, <1>3, <1>4, FewerTell
<1>7. MadeIsThere'
  <2>1. ASSUME NEW d \in Clients, w[d] # "idle", NEW dd, HasMade(d, dd) PROVE HasMade(d, dd)'
    <3>1. PICK n \in names : n.key = KeyOf(d, lastMq[d]) /\ n.dir = dd /\ n.pair = making[d]
      BY <2>1 DEF HasMade, With
    <3>2. n.key # ch.key
      BY <1>1, <2>1, <3>1, BehindCurrent DEF TypeInv, MakingHasId
    <3>3. KeyOf(d, lastMq[d])' = KeyOf(d, lastMq[d])
      BY DEF KeyOf
    <3> QED BY <1>4, <3>1, <3>2, <3>3 DEF HasMade, With
  <2>2. MadeIsThere' <=> \A d \in Clients : /\ w'[d] # "idle" => HasMade(d, "c2s")'
                                            /\ w'[d] = "both" => HasMade(d, "s2c")'
    BY DEF MadeIsThere
  <2> QED BY <1>1, <2>1, <2>2 DEF MadeIsThere
<1>8. SentOnce'
  BY <1>1, <1>2, FewerSent
<1>9. TakenOpened'
  BY <1>1 DEF TakenOpened
<1>10. PendingOpens'
  <2> SUFFICES ASSUME NEW d \in Clients, NEW e \in Pending(d), e \in chans'
               PROVE  Openable(e)'
    BY <1>2 DEF PendingOpens
  <2>1. e \in Past /\ Openable(e) /\ e # ch
    BY <1>1, PastAre DEF PendingOpens
  <2>2. e.key # ch.key
    BY <1>1, <2>1 DEF KeysTell
  <2> QED BY <1>4, <2>1, <2>2 DEF Openable, With
<1> QED BY <1>5, <1>6, <1>7, <1>8, <1>9, <1>10 DEF KeysOnce

\* A session ends: its W is idle.
LEMMA EndKeys ==
  ASSUME TypeInv, TypeInv', KeysOnce, NEW c \in Clients, UNCHANGED pid, EndSession(c)
  PROVE  KeysOnce'
<1>0. /\ w[c] = "idle" /\ UNCHANGED <<used, names, lastNs, w, making, chans, inbox, held>>
      /\ ns'[c] = 0
      /\ \A d \in Clients : d # c => ns'[d] = ns[d] /\ lastMq'[d] = lastMq[d]
  BY DEF EndSession, endVars, TypeInv, TypeOK, MqTypeOK
<1>1. /\ KeysAreBehind /\ KeysTell /\ MadeIsThere /\ SentOnce /\ PendingOpens /\ TakenOpened
  BY DEF KeysOnce
<1>2. /\ SentOnce' /\ TakenOpened'
      /\ \A d \in Clients : Pending(d)' = Pending(d) /\ Taken(d)' = Taken(d)
  BY <1>0, EndsKept
<1>3. Past' = Past
  BY <1>0, <1>2 DEF Past
<1>4. KeysAreBehind'
  BY <1>0, <1>1, <1>3 DEF KeysAreBehind
<1>5. KeysTell'
  BY <1>0, <1>1, <1>3 DEF KeysTell
<1>6. MadeIsThere'
  BY <1>0, <1>1 DEF MadeIsThere, HasMade, With, KeyOf
<1>7. PendingOpens'
  BY <1>0, <1>1, <1>2 DEF PendingOpens, Openable, With
<1> QED BY <1>2, <1>4, <1>5, <1>6, <1>7 DEF KeysOnce

\* What the sessions do about channels.
LEMMA ChannelsKeys ==
  ASSUME TypeInv, TypeInv', NamesInv, UsedCounted, KeysOnce, Channels, UNCHANGED pid
  PROVE  KeysOnce'
<1>1. ASSUME NEW c \in Clients, EndSession(c) PROVE KeysOnce'
  BY <1>1, EndKeys
<1>2. ASSUME NEW c \in Clients, MakeC2s(c) \/ MakeS2c(c) PROVE KeysOnce'
  BY <1>2, MakeKeys
<1>3. ASSUME NEW c \in Clients, NoS2c(c) \/ NoHookUp(c) PROVE KeysOnce'
  BY <1>3, RemoveKeys
<1>4. ASSUME NEW c \in Clients, HookUp(c) PROVE KeysOnce'
  BY <1>4, HookUpKeys
<1>5. ASSUME NEW c \in Clients, TakeChannel(c) \/ CannotTake(c) \/ Ignore(c) PROVE KeysOnce'
  BY <1>5, TakeKeys
<1>6. ASSUME NEW c \in Clients, NEW ch \in held[c], DropAtClient(c, ch) PROVE KeysOnce'
  <2>1. /\ names' = WithoutKey(ch.sent.key)
        /\ UNCHANGED <<used, lastNs, ns, lastMq, w, making, chans, inbox>>
        /\ \A d \in Clients : held'[d] \subseteq held[d]
    BY <1>6 DEF DropAtClient, TypeInv, TypeOK, MqTypeOK
  <2>2. ch.sent \in Taken(c)
    BY DEF Taken
  <2>3. ch.sent \in Past /\ \A d \in Clients : ch.sent \notin Pending(d)
    BY <2>2, PastAre DEF KeysOnce, SentOnce
  <2> QED BY <2>1, <2>3, DropKeys
<1>7. ASSUME NEW ch \in chans, DropAtServer(ch) PROVE KeysOnce'
  <2>1. /\ names' = WithoutKey(ch.key) /\ chans' = chans \ {ch}
        /\ UNCHANGED <<used, lastNs, ns, lastMq, w, making, inbox, held>>
    BY <1>7 DEF DropAtServer, endVars
  <2>2. ch \in Past
    BY PastAre
  <2> QED BY <2>1, <2>2, DropKeys
<1> QED BY <1>1, <1>2, <1>3, <1>4, <1>5, <1>6, <1>7 DEF Channels

\* Nothing but the server's file and the ends of sync_connect() changes.
LEMMA SameKeys ==
  ASSUME TypeInv, TypeInv', KeysOnce, UNCHANGED pid, UNCHANGED mqVars
  PROVE  KeysOnce'
<1>0. UNCHANGED <<used, names, lastNs, ns, lastMq, w, making, chans, inbox, held>>
  BY DEF mqVars, nameVars, endVars
<1>1. /\ KeysAreBehind /\ KeysTell /\ MadeIsThere /\ SentOnce /\ PendingOpens /\ TakenOpened
  BY DEF KeysOnce
<1>2. /\ SentOnce' /\ TakenOpened'
      /\ \A d \in Clients : Pending(d)' = Pending(d) /\ Taken(d)' = Taken(d)
  BY <1>0, EndsKept
<1>3. Past' = Past
  BY <1>0, <1>2 DEF Past
<1>4. KeysAreBehind'
  BY <1>0, <1>1, <1>3 DEF KeysAreBehind
<1>5. KeysTell'
  BY <1>0, <1>1, <1>3 DEF KeysTell
<1>6. MadeIsThere'
  BY <1>0, <1>1 DEF MadeIsThere, HasMade, With, KeyOf
<1>7. PendingOpens'
  BY <1>0, <1>1, <1>2 DEF PendingOpens, Openable, With
<1> QED BY <1>2, <1>4, <1>5, <1>6, <1>7 DEF KeysOnce

\* A log-in: a cli_namespace that no key has.
LEMMA LogInKeys ==
  ASSUME TypeInv, TypeInv', KeysOnce, UNCHANGED pid, NEW c \in Clients, ns[c] = 0, w[c] = "idle",
         LogIn(c)
  PROVE  KeysOnce'
<1>0. /\ UNCHANGED <<used, names, w, making, chans, inbox, held>>
      /\ lastNs \in Nat /\ lastNs' = lastNs + 1 /\ ns'[c] = lastNs + 1
      /\ \A d \in Clients : d # c => ns'[d] = ns[d] /\ lastMq'[d] = lastMq[d]
  BY DEF LogIn, endVars, TypeInv, TypeOK, MqTypeOK
<1>1. /\ KeysAreBehind /\ KeysTell /\ MadeIsThere /\ SentOnce /\ PendingOpens /\ TakenOpened
  BY DEF KeysOnce
<1>2. /\ SentOnce' /\ TakenOpened'
      /\ \A d \in Clients : Pending(d)' = Pending(d) /\ Taken(d)' = Taken(d)
  BY <1>0, EndsKept
<1>3. Past' = Past
  BY <1>0, <1>2 DEF Past
<1>4. KeysAreBehind'
  <2>1. \A e \in Past : e.key.pid = pid => e.key.ns <= lastNs /\ e.key.ns \in Nat
    BY <1>1, PastAre DEF KeysAreBehind
  <2>2. \A e \in Past : e.key.pid = pid => e.key.ns # ns'[c] /\ e.key.ns <= lastNs'
    BY <1>0, <2>1
  <2> QED BY <1>0, <1>1, <1>3, <2>2 DEF KeysAreBehind
<1>5. KeysTell'
  BY <1>0, <1>1, <1>3 DEF KeysTell
<1>6. MadeIsThere'
  BY <1>0, <1>1 DEF MadeIsThere, HasMade, With, KeyOf
<1>7. PendingOpens'
  BY <1>0, <1>1, <1>2 DEF PendingOpens, Openable, With
<1> QED BY <1>2, <1>4, <1>5, <1>6, <1>7 DEF KeysOnce

\* A process ends or dies: the server's channels and sessions go, or what was on
\* its way to a client and with its death what it had.
LEMMA GoneKeys ==
  ASSUME TypeInv, TypeInv', KeysOnce, UNCHANGED pid,
         \/ MqCrash
         \/ \E c \in Clients : MqLeave(c) \/ MqCliCrash(c)
  PROVE  KeysOnce'
<1>1. /\ KeysAreBehind /\ KeysTell /\ MadeIsThere /\ SentOnce /\ PendingOpens /\ TakenOpened
  BY DEF KeysOnce
<1>2. /\ UNCHANGED <<used, names, lastNs>> /\ chans' \subseteq chans
      /\ \A d \in Clients : \/ ns'[d] = 0 /\ w'[d] = "idle"
                            \/ /\ ns'[d] = ns[d] /\ w'[d] = w[d] /\ lastMq'[d] = lastMq[d]
                               /\ making'[d] = making[d]
      /\ \A d \in Clients : inbox'[d] = inbox[d] \/ inbox'[d] = <<>>
      /\ \A d \in Clients : held'[d] \subseteq held[d]
  <2>1. CASE MqCrash
    BY <2>1 DEF MqCrash, endVars
  <2>2. CASE \E c \in Clients : MqLeave(c) \/ MqCliCrash(c)
    BY <2>2 DEF MqLeave, MqCliCrash, nameVars, TypeInv, TypeOK, MqTypeOK
  <2> QED BY <2>1, <2>2
<1>3. \A d \in Clients : Pending(d)' \subseteq Pending(d) /\ Taken(d)' \subseteq Taken(d)
  BY <1>2 DEF Pending, Taken
<1>4. Past' \subseteq Past
  BY <1>2, <1>3, FewerPast
<1>5. KeysAreBehind'
  BY <1>1, <1>2, <1>4 DEF KeysAreBehind
<1>6. KeysTell'
  BY <1>1, <1>2, <1>4, FewerTell
<1>7. MadeIsThere'
  BY <1>1, <1>2 DEF MadeIsThere, HasMade, With, KeyOf
<1>8. SentOnce'
  BY <1>1, <1>2, <1>3, FewerSent
<1>9. PendingOpens' /\ TakenOpened'
  BY <1>1, <1>2, <1>3 DEF PendingOpens, Openable, With, TakenOpened
<1> QED BY <1>5, <1>6, <1>7, <1>8, <1>9 DEF KeysOnce

\* A process starts with a PID: it is counted, unless there was one with it before.
LEMMA StartCounts ==
  ASSUME TypeInv, UsedCounted, NEW p \in Pids, SrvStart(p), MqStart(p)
  PROVE  /\ UsedCounted'
         /\ PidsUnique' => PidsUnique /\ p \notin used
<1>1. /\ used' = used \cup {p} /\ starts' = starts + 1 /\ pid' = p /\ starts \in Nat
      /\ IsFiniteSet(used) /\ Cardinality(used) <= starts
  BY DEF SrvStart, MqStart, UsedCounted, TypeInv, TypeOK, CnsTypeOK
<1>2. Cardinality(used) \in Nat
  BY <1>1, FS_CardinalityType
<1>3. /\ IsFiniteSet(used \cup {p})
      /\ p \in used => Cardinality(used \cup {p}) = Cardinality(used)
      /\ p \notin used => Cardinality(used \cup {p}) = Cardinality(used) + 1
  BY <1>1, FS_AddElement
<1>4. UsedCounted'
  BY <1>1, <1>2, <1>3 DEF UsedCounted
<1>5. PidsUnique' => PidsUnique /\ p \notin used
  BY <1>1, <1>2, <1>3 DEF PidsUnique
<1> QED BY <1>4, <1>5

\* Under a new PID no key is that of a channel any more, and no name is left.
LEMMA StartKeys ==
  ASSUME TypeInv, TypeInv', KeysOnce, NEW p \in Pids, SrvStart(p), MqStart(p), p \notin used
  PROVE  KeysOnce'
<1>0. /\ UNCHANGED <<ns, w, lastMq, chans, inbox, held>>
      /\ names' = {} /\ used' = used \cup {p} /\ pid' = p
      /\ chans = {} /\ \A c \in Clients : ns[c] = 0 /\ w[c] = "idle"
  BY DEF SrvStart, MqStart, RemoveAll, endVars, TypeInv, UpHasSessions, MakingHasId
<1>1. /\ KeysAreBehind /\ KeysTell /\ MadeIsThere /\ SentOnce /\ PendingOpens /\ TakenOpened
  BY DEF KeysOnce
<1>2. /\ SentOnce' /\ TakenOpened'
      /\ \A d \in Clients : Pending(d)' = Pending(d) /\ Taken(d)' = Taken(d)
  BY <1>0, EndsKept
<1>3. Past' = Past
  BY <1>0, <1>2 DEF Past
<1>4. KeysAreBehind'
  BY <1>0, <1>1, <1>3 DEF KeysAreBehind
<1>5. KeysTell'
  BY <1>0, <1>1, <1>3 DEF KeysTell
<1>6. MadeIsThere' /\ PendingOpens'
  BY <1>0 DEF MadeIsThere, PendingOpens
<1> QED BY <1>2, <1>4, <1>5, <1>6 DEF KeysOnce

\* Every step.
LEMMA KeysInvStep ==
  ASSUME TypeInv, TypeInv', NamesInv, KeysInv, [Next]_vars
  PROVE  KeysInv'
<1>0. UsedCounted
  BY DEF KeysInv
<1>1. ASSUME NEW p \in Pids, SrvStart(p), MqStart(p) PROVE KeysInv'
  <2>1. UsedCounted' /\ (PidsUnique' => PidsUnique /\ p \notin used)
    BY <1>0, <1>1, StartCounts
  <2> QED BY <1>1, <2>1, StartKeys DEF KeysInv
<1>2. ASSUME UNCHANGED <<pid, starts, used>>, KeysOnce => KeysOnce' PROVE KeysInv'
  BY <1>0, <1>2 DEF KeysInv, UsedCounted, PidsUnique
<1>3. ASSUME Construct, UNCHANGED mqVars PROVE KeysInv'
  <2>1. UNCHANGED <<pid, starts>>
    BY <1>3 DEF Construct, SrvOpenMutex, SrvRefuse, SrvLock, SrvTruncate, SrvCannotOpen, SrvWrite,
                SrvUnlock, SrvListen, SrvStep
  <2> QED BY <1>2, <1>3, <2>1, SameKeys DEF mqVars
<1>4. ASSUME SrvStop, MqStop PROVE KeysInv'
  <2>1. UNCHANGED <<pid, starts>> /\ UNCHANGED mqVars
    BY <1>4 DEF SrvStop, SrvStep, MqStop
  <2> QED BY <1>2, <2>1, SameKeys DEF mqVars
<1>5. ASSUME SrvCrash, MqCrash PROVE KeysInv'
  <2>1. UNCHANGED <<pid, starts, used>>
    BY <1>5 DEF SrvCrash, SrvStep, MqCrash
  <2> QED BY <1>2, <1>5, <2>1, GoneKeys
<1>6. ASSUME NEW c \in Clients, (CliCall(c) /\ UNCHANGED mqVars) \/ Connect(c) PROVE KeysInv'
  <2>1. UNCHANGED <<pid, starts>>
    BY <1>6 DEF CliCall, Connect, CliOpenMutex, CliLock, CliRead, CliUnlock, CliConnect, srvVars
  <2>2. CASE UNCHANGED mqVars
    BY <1>2, <2>1, <2>2, SameKeys DEF mqVars
  <2>3. CASE CliConnect(c) /\ cli'[c] = "peer" /\ LogIn(c)
    <3>1. ns[c] = 0 /\ w[c] = "idle"
      BY <2>3 DEF CliConnect, CliStep, TypeInv, TypeOK, CnsTypeOK, MakingHasId, UpHasSessions
    <3>2. UNCHANGED used
      BY <2>3 DEF LogIn
    <3> QED BY <1>2, <2>1, <2>3, <3>1, <3>2, LogInKeys
  <2> QED BY <1>6, <2>2, <2>3 DEF Connect
<1>7. ASSUME NEW c \in Clients, \/ CliLeave(c) /\ MqLeave(c)
                                \/ CliCrash(c) /\ MqCliCrash(c)
      PROVE  KeysInv'
  <2>1. UNCHANGED <<pid, starts, used>>
    BY <1>7 DEF CliLeave, CliCrash, srvVars, MqLeave, MqCliCrash
  <2> QED BY <1>2, <1>7, <2>1, GoneKeys
<1>8. ASSUME Channels, UNCHANGED cnsVars PROVE KeysInv'
  <2>1. UNCHANGED <<pid, starts>>
    BY <1>8 DEF cnsVars, srvVars
  <2>2. UNCHANGED used
    BY <1>8 DEF Channels, EndSession, MakeC2s, MakeS2c, NoS2c, HookUp, NoHookUp, TakeChannel,
                CannotTake, Ignore, DropAtClient, DropAtServer
  <2> QED BY <1>0, <1>2, <1>8, <2>1, <2>2, ChannelsKeys
<1>9. ASSUME UNCHANGED vars PROVE KeysInv'
  BY <1>2, <1>9, SameKeys DEF vars, cnsVars, srvVars, mqVars
<1> QED BY <1>1, <1>3, <1>4, <1>5, <1>6, <1>7, <1>8, <1>9 DEF Next

\* It holds in the beginning.
LEMMA KeysInvInit ==
  ASSUME Init
  PROVE  KeysInv
<1>1. /\ used = {} /\ starts = 0 /\ pid = 0 /\ names = {} /\ chans = {}
      /\ \A c \in Clients : inbox[c] = <<>> /\ held[c] = {} /\ ns[c] = 0 /\ w[c] = "idle"
  BY DEF Init, CnsInit, MqInit
<1>2. UsedCounted
  BY <1>1, FS_EmptySet DEF UsedCounted
<1>3. \A c \in Clients : Pending(c) = {} /\ Taken(c) = {}
  <2>1. DOMAIN <<>> = {}
    OBVIOUS
  <2> QED BY <1>1, <2>1 DEF Pending, Taken
<1>4. Past = {}
  BY <1>1, <1>3 DEF Past
<1>5. KeysOnce
  BY <1>1, <1>3, <1>4 DEF KeysOnce, KeysAreBehind, KeysTell, MadeIsThere, SentOnce, PendingOpens,
                          TakenOpened
<1> QED BY <1>2, <1>5 DEF KeysInv

\* What the next two theorems rest on.
LEMMA KeysInvHolds == Spec => [](TypeInv /\ NamesInv /\ KeysInv)
<1>1. Init => TypeInv /\ NamesInv /\ KeysInv
  BY InitIsTyped, NamesInvInit, KeysInvInit
<1>2. TypeInv /\ NamesInv /\ KeysInv /\ [Next]_vars => (TypeInv /\ NamesInv /\ KeysInv)'
  BY TypeInvStep, NamesInvStep, KeysInvStep
<1> QED BY <1>1, <1>2, PTL DEF Spec

\* A client that opens the names it was sent opens the queues of that channel and
\* no other's, through any number of server processes whose PIDs differ: a name
\* never comes again while somebody has it.
THEOREM OpensItsOwnHolds == Spec => []OpensItsOwn
<1>1. KeysInv => OpensItsOwn
  BY DEF KeysInv, KeysOnce, TakenOpened, OpensItsOwn
<1> QED BY <1>1, KeysInvHolds, PTL

\* As long as the server has a channel that the client has yet to open, both of
\* its names are there and are its own, whichever other channels' sides are
\* destroyed, at either end, and whoever has died.
THEOREM PendingIsOpenableHolds == Spec => []PendingIsOpenable
<1>1. ASSUME KeysInv, PidsUnique, NEW c \in Clients, NEW i \in DOMAIN inbox[c],
             inbox[c][i] \in chans, NEW dir \in Dirs
      PROVE  \E n \in With(inbox[c][i].key, dir) : n.pair = inbox[c][i].pair
  <2>1. inbox[c][i] \in Pending(c)
    BY DEF Pending
  <2>2. PendingOpens
    BY <1>1 DEF KeysInv, KeysOnce
  <2>3. Openable(inbox[c][i])
    BY <1>1, <2>1, <2>2 DEF PendingOpens
  <2> QED BY <2>3 DEF Openable
<1>2. KeysInv => PendingIsOpenable
  BY <1>1 DEF PendingIsOpenable
<1> QED BY <1>2, KeysInvHolds, PTL
=============================================================================
