---------------------------- MODULE MDNSService -----------------------------
(***************************************************************************)
(* MDNSService (Core/MDNSService.cpp): a service registered or a discovery  *)
(* run by the owner's thread, and the service thread that selects on the    *)
(* sockets of dns_sd and lets it call back.                                 *)
(*                                                                         *)
(* A DNSServiceRef lives from the call that allocates it to                 *)
(* DNSServiceRefDeallocate, which also closes its socket; the number of the *)
(* socket may be given to a later one.  dns_sd is known by how it is used:  *)
(* DNSServiceProcessResult on a live reference runs its callback.           *)
(***************************************************************************)
EXTENDS Integers, Sequences, SequencesExt, FiniteSets

CONSTANTS
  Refs,       \* bound: DNSServiceRefs that can be allocated
  Fds,        \* socket numbers
  NoRef,      \* the null DNSServiceRef
  Uses,       \* what the owner uses the object for: main() and the tools use
              \* one of "register" and "discover"
  MaxStarts   \* bound: calls of Register and StartDiscover

ASSUME MDNSAssumption ==
  NoRef \notin Refs /\ Fds # {} /\ Uses \subseteq {"register", "discover"} /\ MaxStarts \in Nat

VARIABLES
  ref,              \* each reference: "unused", "live" or "freed"
  kind,             \* the call that allocated it: "register", "discover", "resolve"
  fd,               \* its socket
  ready,            \* live references with a reply to read
  m_Ref,            \* m_DnsServiceRef and m_DnsBrowsingRef, by use
  m_ServicesInfos,
  m_ResolveInfos,
  m_ThreadRunning,
  thread,           \* where the service thread is in ServiceThreadLoop
  batch,            \* its local handles and services, those still to look at
  set,              \* the sockets select found readable
  call,             \* the owner's call: [use, start]
  owner,            \* where the owner is in it
  starts,           \* calls of Register and StartDiscover so far
  misuse            \* "none", or how the program lost its way

refVars == <<ref, kind, fd, ready>>
listVars == <<m_ServicesInfos, m_ResolveInfos>>
ownerVars == <<call, owner, starts>>
threadVars == <<thread, batch, set>>
vars == <<refVars, listVars, ownerVars, m_Ref, m_ThreadRunning, threadVars, misuse>>

AllUses == {"register", "discover"}

Info == [fd : Fds, serviceRef : Refs]

TypeOK ==
  /\ ref \in [Refs -> {"unused", "live", "freed"}]
  /\ kind \in [Refs -> AllUses \cup {"resolve"}]
  /\ fd \in [Refs -> Fds]
  /\ ready \subseteq {r \in Refs : ref[r] = "live"}
  /\ m_Ref \in [AllUses -> Refs \cup {NoRef}]
  /\ m_ServicesInfos \in Seq(Info) /\ batch \in Seq(Info)
  /\ set \subseteq Fds
  /\ m_ResolveInfos \subseteq Refs
  /\ m_ThreadRunning \in BOOLEAN
  /\ thread \in {"off", "top", "select", "handle", "finished"}
  /\ call \in [use : AllUses, start : BOOLEAN]
  /\ owner \in {"idle", "join", "free", "open"}
  /\ starts \in 0 .. MaxStarts
  /\ misuse \in {"none", "freed reference", "terminate"}

Init ==
  /\ ref = [r \in Refs |-> "unused"]
  /\ kind = [r \in Refs |-> "resolve"]
  /\ fd = [r \in Refs |-> CHOOSE n \in Fds : TRUE]
  /\ ready = {}
  /\ m_Ref = [use \in AllUses |-> NoRef]
  /\ m_ServicesInfos = <<>> /\ batch = <<>> /\ set = {}
  /\ m_ResolveInfos = {}
  /\ m_ThreadRunning = FALSE
  /\ thread = "off"
  /\ call = [use |-> "register", start |-> FALSE]
  /\ owner = "idle"
  /\ starts = 0
  /\ misuse = "none"

-----------------------------------------------------------------------------
(* dns_sd and the lists.                                                    *)

Live == {r \in Refs : ref[r] = "live"}

OpenFds == {fd[r] : r \in Live}

\* A call of DNSServiceRegister, -Browse or -Resolve that succeeds.
Allocate(r, n, k) ==
  /\ ref[r] = "unused" /\ n \notin OpenFds
  /\ ref' = [ref EXCEPT ![r] = "live"]
  /\ kind' = [kind EXCEPT ![r] = k]
  /\ fd' = [fd EXCEPT ![r] = n]

DNSServiceRefDeallocate(r) ==
  /\ ref' = [ref EXCEPT ![r] = "freed"]
  /\ ready' = ready \ {r}
  /\ UNCHANGED <<kind, fd>>

AddService(r, n) == m_ServicesInfos' = Append(m_ServicesInfos, [fd |-> n, serviceRef |-> r])

\* The list without the first entry of the reference, if it has one.
RemoveService(r) ==
  LET Mine == {i \in DOMAIN m_ServicesInfos : m_ServicesInfos[i].serviceRef = r}
  IN  m_ServicesInfos' = IF Mine = {} THEN m_ServicesInfos
                         ELSE RemoveAt(m_ServicesInfos, CHOOSE i \in Mine : \A j \in Mine : i <= j)

\* The daemon answers.
Reply(r) ==
  /\ r \in Live
  /\ ready' = ready \cup {r}
  /\ UNCHANGED <<ref, kind, fd, listVars, ownerVars, m_Ref, m_ThreadRunning, threadVars, misuse>>

-----------------------------------------------------------------------------
(* The owner: Register, UnRegister, StartDiscover and StopDiscover.         *)

\* Fault: the thread is told to stop and not waited for.
StopServiceThreadNoJoin ==
  /\ m_ThreadRunning' = FALSE
  /\ owner' = "free"

\* Fault: the thread is waited for and not told to stop.
StopServiceThreadUntold ==
  /\ UNCHANGED m_ThreadRunning
  /\ owner' = IF m_ThreadRunning THEN "join" ELSE "free"

StopServiceThread ==
  /\ m_ThreadRunning' = FALSE
  /\ owner' = IF m_ThreadRunning THEN "join" ELSE "free"

\* Assigning to a std::thread that is still joinable ends the program.
StartServiceThread ==
  /\ m_ThreadRunning' = TRUE
  /\ IF thread = "off" THEN thread' = "top" /\ UNCHANGED misuse
     ELSE misuse' = "terminate" /\ UNCHANGED thread

\* A call; a start that finds nothing to stop goes on at once.
Call(use, start) ==
  /\ owner = "idle"
  /\ call' = [use |-> use, start |-> start]
  /\ start => starts < MaxStarts
  /\ starts' = IF start THEN starts + 1 ELSE starts
  /\ IF start /\ m_Ref[use] = NoRef
       THEN owner' = "open" /\ UNCHANGED m_ThreadRunning
       ELSE StopServiceThread
  /\ UNCHANGED <<refVars, listVars, m_Ref, threadVars, misuse>>

\* m_ServiceThread.join() returns.
Join ==
  /\ owner = "join" /\ thread = "finished"
  /\ owner' = "free"
  /\ thread' = "off"
  /\ UNCHANGED <<refVars, listVars, call, starts, m_Ref, m_ThreadRunning, batch, set, misuse>>

\* The rest of a stop: the reference is set to null before
\* RemoveService is asked to remove it.
Free ==
  /\ owner = "free"
  /\ IF m_Ref[call.use] = NoRef THEN UNCHANGED refVars ELSE DNSServiceRefDeallocate(m_Ref[call.use])
  /\ m_Ref' = [m_Ref EXCEPT ![call.use] = NoRef]
  /\ RemoveService(m_Ref'[call.use])
  /\ owner' = IF call.start THEN "open" ELSE "idle"
  /\ UNCHANGED <<m_ResolveInfos, call, starts, m_ThreadRunning, threadVars, misuse>>

\* Fault: the reference is not put on the list.
OpenUnlisted ==
  /\ owner = "open"
  /\ owner' = "idle"
  /\ \E r \in Refs, n \in Fds : Allocate(r, n, call.use) /\ m_Ref' = [m_Ref EXCEPT ![call.use] = r]
  /\ m_ThreadRunning' = TRUE
  /\ thread' = "top"
  /\ UNCHANGED <<listVars, call, starts, ready, batch, set, misuse>>

\* The rest of a start, if dns_sd refuses it or grants it.
Open ==
  /\ owner = "open"
  /\ owner' = "idle"
  /\ \/ \E r \in Refs, n \in Fds :
          /\ Allocate(r, n, call.use)
          /\ m_Ref' = [m_Ref EXCEPT ![call.use] = r]
          /\ AddService(r, n)
          /\ StartServiceThread
     \/ UNCHANGED <<ref, kind, fd, m_ServicesInfos, m_Ref, m_ThreadRunning, thread, misuse>>
  /\ UNCHANGED <<m_ResolveInfos, call, starts, ready, batch, set>>

Register == call.use = "register" /\ Open

StartDiscover == call.use = "discover" /\ Open

UnRegister == call.use = "register" /\ Free

StopDiscover == call.use = "discover" /\ Free

-----------------------------------------------------------------------------
(* The service thread.                                                      *)

Snapshot ==
  /\ thread = "top"
  /\ IF m_ThreadRunning THEN thread' = "select" /\ batch' = m_ServicesInfos
     ELSE thread' = "finished" /\ UNCHANGED batch
  /\ UNCHANGED <<refVars, listVars, ownerVars, m_Ref, m_ThreadRunning, set, misuse>>

\* select returns: at the end, with an error if a socket on its list is closed,
\* or with the sockets that can be read, none of them after the timeout.
Select ==
  /\ thread = "select"
  /\ IF ~m_ThreadRunning
       THEN thread' = "finished" /\ batch' = <<>> /\ UNCHANGED set
       ELSE IF \E i \in DOMAIN batch : batch[i].fd \notin OpenFds
       THEN thread' = "top" /\ batch' = <<>> /\ UNCHANGED set
       ELSE /\ thread' = "handle" /\ UNCHANGED batch
            /\ set' = {fd[r] : r \in ready} \cap {batch[i].fd : i \in DOMAIN batch}
  /\ UNCHANGED <<refVars, listVars, ownerVars, m_Ref, m_ThreadRunning, misuse>>

Removed(info) == \A i \in DOMAIN m_ServicesInfos : m_ServicesInfos[i].serviceRef # info.serviceRef

AddResolveInfo(r) == m_ResolveInfos' = m_ResolveInfos \cup {r}

RemoveResolveInfo(r) == m_ResolveInfos' = m_ResolveInfos \ {r}

\* The browse callback for a service that was added: DNSServiceResolve.
ServiceFound(r) ==
  \E new \in Refs, n \in Fds :
    /\ Allocate(new, n, "resolve")
    /\ ready' = ready \ {r}
    /\ AddResolveInfo(new)
    /\ AddService(new, n)

\* Fault: the context of the resolve call stays.
ServiceResolvedKeeps(r) ==
  /\ RemoveService(r)
  /\ DNSServiceRefDeallocate(r)
  /\ UNCHANGED m_ResolveInfos

\* Fault: the callback frees its reference and leaves it on the thread's list.
ServiceResolvedListed(r) ==
  /\ RemoveResolveInfo(r)
  /\ DNSServiceRefDeallocate(r)
  /\ UNCHANGED m_ServicesInfos

\* The resolve callback, which ends the resolve call.
ServiceResolved(r) ==
  /\ RemoveResolveInfo(r)
  /\ RemoveService(r)
  /\ DNSServiceRefDeallocate(r)

\* A callback that changes nothing: a reply to Register, an error, a service
\* that was removed or cannot be resolved.
OtherReply(r) == ready' = ready \ {r} /\ UNCHANGED <<ref, kind, fd, listVars>>

DNSServiceProcessResult(r) ==
  /\ misuse' = IF ref[r] = "live" THEN misuse ELSE "freed reference"
  /\ IF ref[r] # "live" THEN UNCHANGED <<refVars, listVars>>
     ELSE \/ OtherReply(r)
          \/ kind[r] = "discover" /\ ServiceFound(r)
          \/ kind[r] = "resolve" /\ ServiceResolved(r)

\* One turn of the loop over the handles, or the end of it.
Handle ==
  /\ thread = "handle"
  /\ IF batch = <<>>
       THEN thread' = "top" /\ set' = {} /\ UNCHANGED <<batch, refVars, listVars, misuse>>
       ELSE /\ batch' = Tail(batch)
            /\ UNCHANGED <<thread, set>>
            /\ IF Head(batch).fd \notin set \/ Removed(Head(batch))
                 THEN UNCHANGED <<refVars, listVars, misuse>>
                 ELSE DNSServiceProcessResult(Head(batch).serviceRef)
  /\ UNCHANGED <<ownerVars, m_Ref, m_ThreadRunning>>

ServiceThreadLoop == Snapshot \/ Select \/ Handle

-----------------------------------------------------------------------------
Step ==
  \/ \E use \in Uses, start \in BOOLEAN : Call(use, start)
  \/ Join \/ UnRegister \/ StopDiscover \/ Register \/ StartDiscover
  \/ ServiceThreadLoop
  \/ \E r \in Refs : Reply(r)

Next == misuse = "none" /\ Step

\* Both threads run; nobody has to call anything, and the daemon need not
\* answer.
Fairness ==
  /\ WF_vars(misuse = "none" /\ ServiceThreadLoop)
  /\ WF_vars(misuse = "none" /\ (Join \/ Free \/ Open))

Spec == Init /\ [][Next]_vars /\ Fairness

-----------------------------------------------------------------------------
(* Properties.                                                              *)

\* While the thread runs every live reference is on its list: no reply can be
\* left unread, be it a resolve call that an earlier discovery left behind.
LiveIsListed ==
  owner \in {"idle", "join"} /\ misuse = "none" =>
    \A r \in Live : \E i \in DOMAIN m_ServicesInfos :
      m_ServicesInfos[i].serviceRef = r /\ m_ServicesInfos[i].fd = fd[r]

\* A ResolveInfo exists exactly as long as its resolve call.
ResolveInfosMatch == m_ResolveInfos = {r \in Live : kind[r] = "resolve"}

\* The object keeps its way: the thread processes no reference that was
\* deallocated, if the object is started once, as main() and the tools do ("if
\* service is removed"); a start never meets a thread that was not joined, unless
\* the object serves both uses; and what the last call started has a thread.
KeepsItsWay ==
  /\ misuse = "freed reference" => starts > 1
  /\ misuse = "terminate" => \A use \in AllUses : m_Ref[use] # NoRef
  /\ owner = "idle" /\ misuse = "none" /\ m_Ref[call.use] # NoRef =>
       m_ThreadRunning /\ thread \in {"top", "select", "handle"}

\* An entry of the list is that of a reference that was allocated, and the only
\* one, so that RemoveService removes the right one.
ListInv ==
  /\ \A i \in DOMAIN m_ServicesInfos : ref[m_ServicesInfos[i].serviceRef] # "unused"
  /\ \A i, j \in DOMAIN m_ServicesInfos :
       m_ServicesInfos[i].serviceRef = m_ServicesInfos[j].serviceRef => i = j
  /\ \A r \in Live : \E i \in DOMAIN m_ServicesInfos :
       m_ServicesInfos[i].serviceRef = r /\ m_ServicesInfos[i].fd = fd[r]

\* The references of the owner are its own.
OwnRefs == \A use \in AllUses : m_Ref[use] # NoRef => ref[m_Ref[use]] = "live" /\ kind[m_Ref[use]] = use

\* Where the two threads can be.
ThreadInv ==
  /\ owner \in {"idle", "open"} => thread # "finished" /\ (m_ThreadRunning <=> thread # "off")
  /\ owner = "join" => ~m_ThreadRunning /\ thread # "off"
  /\ owner = "free" => ~m_ThreadRunning /\ thread = "off"
  /\ owner = "open" \/ (owner = "idle" /\ thread = "off") => m_Ref[call.use] = NoRef
  /\ owner \in {"idle", "open"} /\ thread # "off" => \E use \in AllUses : m_Ref[use] # NoRef

\* In a first life a freed reference stays on the list only while there is no
\* thread to look at it.
FirstLife ==
  /\ starts = 0 =>
       /\ owner # "open"
       /\ m_Ref = [use \in AllUses |-> NoRef] /\ m_ServicesInfos = <<>>
  /\ call.start /\ owner \in {"join", "free"} => starts > 1
  /\ starts <= 1 /\ (\E i \in DOMAIN m_ServicesInfos : m_ServicesInfos[i].serviceRef \notin Live) =>
       thread = "off" /\ owner # "open"

\* What every step of either thread preserves.
IInv == TypeOK /\ ListInv /\ ResolveInfosMatch /\ OwnRefs /\ ThreadInv /\ FirstLife /\ KeepsItsWay

\* A stop returns, wherever the service thread is and whatever arrives,
\* unless the program lost its way in the meantime.
StopReturns == owner = "join" ~> (owner = "idle" \/ misuse # "none")

=============================================================================
