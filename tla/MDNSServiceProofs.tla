------------------------- MODULE MDNSServiceProofs --------------------------
(***************************************************************************)
(* Proofs about MDNSService, for any number of references, sockets and      *)
(* starts: the inductive invariant IInv and the safety properties it        *)
(* implies.                                                                 *)
(***************************************************************************)
EXTENDS MDNSService, SequenceTheorems, TLAPS

(***************************************************************************)
(* The list of services.                                                    *)
(***************************************************************************)

\* What RemoveAt leaves of a sequence.
LEMMA RemoveAtProperties ==
  ASSUME NEW T, NEW s \in Seq(T), NEW k \in 1 .. Len(s)
  PROVE  /\ RemoveAt(s, k) \in Seq(T)
         /\ Len(RemoveAt(s, k)) = Len(s) - 1
         /\ \A j \in 1 .. Len(s) - 1 : RemoveAt(s, k)[j] = IF j < k THEN s[j] ELSE s[j + 1]
<1>1. Len(s) \in Nat /\ \A i \in 1 .. Len(s) : s[i] \in T
  BY LenProperties, ElementOfSeq
<1> DEFINE before == SubSeq(s, 1, k - 1)
           after == SubSeq(s, k + 1, Len(s))
<1>2. /\ before \in Seq(T) /\ Len(before) = k - 1
      /\ \A i \in 1 .. k - 1 : before[i] = s[i]
  <2>1. \A i \in 1 .. k - 1 : s[i] \in T
    BY <1>1
  <2>2. /\ before \in Seq(T)
        /\ Len(before) = IF 1 <= k - 1 THEN (k - 1) - 1 + 1 ELSE 0
        /\ \A i \in 1 .. (k - 1) - 1 + 1 : before[i] = s[1 + i - 1]
    BY <1>1, <2>1, SubSeqProperties
  <2> QED BY <1>1, <2>2
<1>3. /\ after \in Seq(T) /\ Len(after) = Len(s) - k
      /\ \A i \in 1 .. Len(s) - k : after[i] = s[k + i]
  <2>1. \A i \in k + 1 .. Len(s) : s[i] \in T
    BY <1>1
  <2>2. /\ after \in Seq(T)
        /\ Len(after) = IF k + 1 <= Len(s) THEN Len(s) - (k + 1) + 1 ELSE 0
        /\ \A i \in 1 .. Len(s) - (k + 1) + 1 : after[i] = s[(k + 1) + i - 1]
    BY <1>1, <2>1, SubSeqProperties
  <2> QED BY <1>1, <2>2
<1> HIDE DEF before, after
<1>4. /\ before \o after \in Seq(T)
      /\ Len(before \o after) = Len(before) + Len(after)
      /\ \A i \in 1 .. Len(before) + Len(after) :
           (before \o after)[i] = IF i <= Len(before) THEN before[i] ELSE after[i - Len(before)]
  BY <1>2, <1>3, ConcatProperties
<1>5. RemoveAt(s, k) = before \o after
  BY DEF RemoveAt, before, after
<1>6. Len(before \o after) = Len(s) - 1
  BY <1>1, <1>2, <1>3, <1>4
<1>7. ASSUME NEW j \in 1 .. Len(s) - 1
      PROVE  (before \o after)[j] = IF j < k THEN s[j] ELSE s[j + 1]
  <2>1. j \in 1 .. Len(before) + Len(after)
    BY <1>1, <1>2, <1>3
  <2>2. CASE j < k
    BY <1>1, <1>2, <1>4, <2>1, <2>2
  <2>3. CASE ~(j < k)
    <3>1. (before \o after)[j] = after[j - (k - 1)] /\ j - (k - 1) \in 1 .. Len(s) - k
      BY <1>1, <1>2, <1>4, <2>1, <2>3
    <3>2. after[j - (k - 1)] = s[k + (j - (k - 1))] /\ k + (j - (k - 1)) = j + 1
      BY <1>1, <1>3, <3>1
    <3> QED BY <2>3, <3>1, <3>2
  <2> QED BY <2>2, <2>3
<1> QED BY <1>4, <1>5, <1>6, <1>7

\* RemoveService takes the one entry of the reference out and keeps the others.
LEMMA RemoveServiceProperties ==
  ASSUME TypeOK, ListInv, NEW r, RemoveService(r)
  PROVE  /\ m_ServicesInfos' \in Seq(Info)
         /\ \A i \in DOMAIN m_ServicesInfos' :
              /\ m_ServicesInfos'[i].serviceRef # r
              /\ \E j \in DOMAIN m_ServicesInfos : m_ServicesInfos'[i] = m_ServicesInfos[j]
         /\ \A i, j \in DOMAIN m_ServicesInfos' :
              m_ServicesInfos'[i].serviceRef = m_ServicesInfos'[j].serviceRef => i = j
         /\ \A j \in DOMAIN m_ServicesInfos :
              m_ServicesInfos[j].serviceRef # r =>
                \E i \in DOMAIN m_ServicesInfos' : m_ServicesInfos'[i] = m_ServicesInfos[j]
<1> DEFINE L == m_ServicesInfos
           Mine == {i \in DOMAIN L : L[i].serviceRef = r}
           k == CHOOSE i \in Mine : \A j \in Mine : i <= j
<1>1. L \in Seq(Info) /\ DOMAIN L = 1 .. Len(L) /\ Len(L) \in Nat
  BY LenProperties DEF TypeOK
<1>2. \A i, j \in DOMAIN L : L[i].serviceRef = L[j].serviceRef => i = j
  BY DEF ListInv
<1>3. CASE Mine = {}
  <2>1. m_ServicesInfos' = L
    BY <1>3 DEF RemoveService
  <2> QED BY <1>1, <1>2, <1>3, <2>1
<1>4. CASE Mine # {}
  <2>1. PICK m \in Mine : TRUE
    BY <1>4
  <2>2. Mine = {m}
    BY <1>2, <2>1
  <2>3. m \in 1 .. Len(L)
    BY <1>1, <2>1
  <2>4. k = m
    BY <2>2, <2>3
  <2>5. m_ServicesInfos' = RemoveAt(L, m)
    BY <1>4, <2>4 DEF RemoveService
  <2> HIDE DEF L, k
  <2> DEFINE M == RemoveAt(L, m)
  <2>6. /\ M \in Seq(Info) /\ Len(M) = Len(L) - 1
        /\ \A j \in 1 .. Len(L) - 1 : M[j] = IF j < m THEN L[j] ELSE L[j + 1]
    BY <1>1, <2>3, RemoveAtProperties
  <2> HIDE DEF M
  <2>7. DOMAIN M = 1 .. Len(L) - 1
    BY <2>6, LenProperties
  <2> DEFINE from(i) == IF i < m THEN i ELSE i + 1
  <2>8. ASSUME NEW i \in DOMAIN M
        PROVE  from(i) \in DOMAIN L /\ from(i) # m /\ M[i] = L[from(i)]
    BY <1>1, <2>3, <2>6, <2>7
  <2>9. ASSUME NEW i \in DOMAIN M PROVE M[i].serviceRef # r
    BY <2>2, <2>8
  <2>10. ASSUME NEW i \in DOMAIN M, NEW j \in DOMAIN M, M[i].serviceRef = M[j].serviceRef
         PROVE  i = j
    <3>1. from(i) = from(j)
      BY <1>2, <2>8, <2>10
    <3> QED BY <1>1, <2>3, <2>7, <3>1
  <2>11. ASSUME NEW j \in DOMAIN L, L[j].serviceRef # r
         PROVE  \E i \in DOMAIN M : M[i] = L[j]
    <3>1. j # m
      BY <2>1, <2>11
    <3> DEFINE i == IF j < m THEN j ELSE j - 1
    <3>2. i \in DOMAIN M /\ M[i] = L[j]
      BY <1>1, <2>3, <2>6, <2>7, <3>1
    <3> QED BY <3>2
  <2>12. m_ServicesInfos' = M
    BY <2>5 DEF M
  <2> QED BY <2>6, <2>8, <2>9, <2>10, <2>11, <2>12 DEF L
<1> QED BY <1>3, <1>4

(***************************************************************************)
(* The references.                                                          *)
(***************************************************************************)

\* A call of dns_sd that succeeds and is put on the list.
LEMMA Added ==
  ASSUME TypeOK, ListInv, NEW r \in Refs, NEW n \in Fds, NEW k \in AllUses \cup {"resolve"},
         Allocate(r, n, k), AddService(r, n)
  PROVE  /\ ref' \in [Refs -> {"unused", "live", "freed"}]
         /\ kind' \in [Refs -> AllUses \cup {"resolve"}]
         /\ fd' \in [Refs -> Fds]
         /\ m_ServicesInfos' \in Seq(Info)
         /\ Live' = Live \cup {r} /\ r \notin Live
         /\ kind'[r] = k /\ \A x \in Refs \ {r} : kind'[x] = kind[x] /\ ref'[x] = ref[x]
         /\ \A i \in DOMAIN m_ServicesInfos' :
              \/ m_ServicesInfos'[i].serviceRef = r
              \/ \E j \in DOMAIN m_ServicesInfos : m_ServicesInfos'[i] = m_ServicesInfos[j]
         /\ ListInv'
<1> DEFINE L == m_ServicesInfos
           info == [fd |-> n, serviceRef |-> r]
           M == Append(L, info)
<1>1. L \in Seq(Info) /\ DOMAIN L = 1 .. Len(L) /\ Len(L) \in Nat
  BY LenProperties DEF TypeOK
<1>2. info \in Info
  BY DEF Info
<1>3. /\ M \in Seq(Info) /\ Len(M) = Len(L) + 1
      /\ \A i \in 1 .. Len(L) : M[i] = L[i]
      /\ M[Len(L) + 1] = info
  BY <1>1, <1>2, AppendProperties
<1>4. DOMAIN M = 1 .. Len(L) + 1
  BY <1>3, LenProperties
<1>5. m_ServicesInfos' = M
  BY DEF AddService
<1> HIDE DEF M
<1>6. /\ ref' \in [Refs -> {"unused", "live", "freed"}]
      /\ kind' \in [Refs -> AllUses \cup {"resolve"}]
      /\ fd' \in [Refs -> Fds]
  BY DEF TypeOK, Allocate
<1>7. /\ ref[r] = "unused" /\ ref'[r] = "live" /\ fd'[r] = n /\ kind'[r] = k
      /\ \A x \in Refs \ {r} : ref'[x] = ref[x] /\ fd'[x] = fd[x] /\ kind'[x] = kind[x]
  BY DEF TypeOK, Allocate
<1>8. Live' = Live \cup {r} /\ r \notin Live
  BY <1>7 DEF Live
<1>9. ASSUME NEW i \in 1 .. Len(L) PROVE L[i].serviceRef \in Refs \ {r}
  <2>1. L[i] \in Info
    BY <1>1, <1>9, ElementOfSeq
  <2>2. ref[L[i].serviceRef] # "unused"
    BY <1>1, <1>9 DEF ListInv
  <2> QED BY <1>7, <2>1, <2>2 DEF Info
<1>10. ASSUME NEW i \in DOMAIN M
       PROVE  \/ i = Len(L) + 1 /\ M[i] = info
              \/ i \in 1 .. Len(L) /\ M[i] = L[i]
  BY <1>1, <1>3, <1>4
<1>11. \A i \in DOMAIN M : ref'[M[i].serviceRef] # "unused"
  <2> SUFFICES ASSUME NEW i \in DOMAIN M PROVE ref'[M[i].serviceRef] # "unused"
    OBVIOUS
  <2>1. CASE M[i] = info
    BY <1>7, <2>1
  <2>2. CASE i \in 1 .. Len(L) /\ M[i] = L[i]
    BY <1>1, <1>7, <1>9, <2>2 DEF ListInv
  <2> QED BY <1>10, <2>1, <2>2
<1>12. \A i, j \in DOMAIN M : M[i].serviceRef = M[j].serviceRef => i = j
  <2> SUFFICES ASSUME NEW i \in DOMAIN M, NEW j \in DOMAIN M, M[i].serviceRef = M[j].serviceRef
               PROVE  i = j
    OBVIOUS
  <2>1. CASE i \in 1 .. Len(L) /\ M[i] = L[i] /\ j \in 1 .. Len(L) /\ M[j] = L[j]
    BY <1>1, <2>1 DEF ListInv
  <2> QED BY <1>9, <1>10, <2>1
<1>13. \A x \in Live' : \E i \in DOMAIN M : M[i].serviceRef = x /\ M[i].fd = fd'[x]
  <2> SUFFICES ASSUME NEW x \in Live'
               PROVE  \E i \in DOMAIN M : M[i].serviceRef = x /\ M[i].fd = fd'[x]
    OBVIOUS
  <2>1. CASE x = r
    BY <1>1, <1>3, <1>4, <1>7, <2>1
  <2>2. CASE x # r
    <3>1. x \in Live /\ x \in Refs \ {r}
      BY <1>8, <2>2 DEF Live
    <3>2. PICK i \in DOMAIN L : L[i].serviceRef = x /\ L[i].fd = fd[x]
      BY <3>1 DEF ListInv
    <3>3. i \in DOMAIN M /\ M[i] = L[i]
      BY <1>1, <1>3, <1>4
    <3> QED BY <1>7, <3>1, <3>2, <3>3
  <2> QED BY <2>1, <2>2
<1>14. ListInv'
  BY <1>5, <1>11, <1>12, <1>13 DEF ListInv
<1> QED BY <1>1, <1>3, <1>5, <1>6, <1>7, <1>8, <1>10, <1>14

\* A reference is deallocated, and taken off the list or left there.
LEMMA Deallocated ==
  ASSUME TypeOK, ListInv, NEW r \in Refs, ref[r] = "live", DNSServiceRefDeallocate(r),
         NEW x \in {r, NoRef}, RemoveService(x)
  PROVE  /\ ref' \in [Refs -> {"unused", "live", "freed"}]
         /\ kind' \in [Refs -> AllUses \cup {"resolve"}]
         /\ fd' \in [Refs -> Fds]
         /\ ready' \subseteq Live'
         /\ Live' = Live \ {r}
         /\ \A y \in Refs \ {r} : ref'[y] = ref[y]
         /\ ListInv'
<1> DEFINE L == m_ServicesInfos
<1>1. /\ ref' \in [Refs -> {"unused", "live", "freed"}]
      /\ kind' \in [Refs -> AllUses \cup {"resolve"}]
      /\ fd' \in [Refs -> Fds]
      /\ kind' = kind /\ fd' = fd /\ ready' = ready \ {r}
  BY DEF TypeOK, DNSServiceRefDeallocate
<1>2. ref'[r] = "freed" /\ \A y \in Refs \ {r} : ref'[y] = ref[y]
  BY DEF TypeOK, DNSServiceRefDeallocate
<1>3. Live' = Live \ {r}
  BY <1>2 DEF Live
<1>4. ready' \subseteq Live'
  BY <1>1, <1>3 DEF TypeOK, Live
<1>5. /\ \A i \in DOMAIN L' :
           \E j \in DOMAIN L : L'[i] = L[j]
      /\ \A i, j \in DOMAIN L' : L'[i].serviceRef = L'[j].serviceRef => i = j
      /\ \A j \in DOMAIN L :
           L[j].serviceRef # x => \E i \in DOMAIN L' : L'[i] = L[j]
  BY RemoveServiceProperties
<1>6. \A i \in DOMAIN L' : ref'[L'[i].serviceRef] # "unused"
  <2> SUFFICES ASSUME NEW i \in DOMAIN L' PROVE ref'[L'[i].serviceRef] # "unused"
    OBVIOUS
  <2>1. PICK j \in DOMAIN L : L'[i] = L[j]
    BY <1>5
  <2>2. L[j] \in Info
    <3>1. L \in Seq(Info)
      BY DEF TypeOK
    <3> QED BY <3>1, LenProperties, ElementOfSeq
  <2>3. ref[L[j].serviceRef] # "unused" /\ L[j].serviceRef \in Refs
    BY <2>2 DEF ListInv, Info
  <2> QED BY <1>2, <2>1, <2>3
<1>7. \A y \in Live' : \E i \in DOMAIN L' : L'[i].serviceRef = y /\ L'[i].fd = fd'[y]
  <2> SUFFICES ASSUME NEW y \in Live'
               PROVE  \E i \in DOMAIN L' : L'[i].serviceRef = y /\ L'[i].fd = fd'[y]
    OBVIOUS
  <2>1. y \in Live /\ y # r /\ y \in Refs
    BY <1>3 DEF Live
  <2>2. PICK j \in DOMAIN L : L[j].serviceRef = y /\ L[j].fd = fd[y]
    BY <2>1 DEF ListInv
  <2>3. L[j].serviceRef # x
    BY <2>1, <2>2, MDNSAssumption
  <2> QED BY <1>1, <1>5, <2>2, <2>3
<1>8. ListInv'
  BY <1>5, <1>6, <1>7 DEF ListInv
<1> QED BY <1>1, <1>2, <1>3, <1>4, <1>8

(***************************************************************************)
(* The steps.                                                               *)
(***************************************************************************)

\* What a callback of the service thread does to the references.
LEMMA CallbackProperties ==
  ASSUME IInv, NEW r \in Refs, DNSServiceProcessResult(r)
  PROVE  /\ ref' \in [Refs -> {"unused", "live", "freed"}]
         /\ kind' \in [Refs -> AllUses \cup {"resolve"}]
         /\ fd' \in [Refs -> Fds]
         /\ ready' \subseteq Live'
         /\ m_ServicesInfos' \in Seq(Info)
         /\ m_ResolveInfos' = {x \in Live' : kind'[x] = "resolve"}
         /\ \A x \in Live : kind[x] # "resolve" => x \in Live' /\ kind'[x] = kind[x]
         /\ (\E i \in DOMAIN m_ServicesInfos' : m_ServicesInfos'[i].serviceRef \notin Live') =>
              \E i \in DOMAIN m_ServicesInfos : m_ServicesInfos[i].serviceRef \notin Live
         /\ ListInv'
<1> USE DEF IInv
<1> DEFINE L == m_ServicesInfos
<1>1. m_ResolveInfos = {x \in Live : kind[x] = "resolve"}
  BY DEF ResolveInfosMatch
<1>2. CASE UNCHANGED <<ref, kind, fd, listVars>> /\ ready' \subseteq ready
  <2>1. Live' = Live
    BY <1>2 DEF Live
  <2>2. ListInv'
    BY <1>2, <2>1 DEF ListInv, listVars
  <2>3. ready' \subseteq Live'
    BY <1>2, <2>1 DEF TypeOK, Live
  <2> QED BY <1>1, <1>2, <2>1, <2>2, <2>3 DEF listVars, TypeOK
<1>3. CASE ref[r] = "live" /\ kind[r] = "discover" /\ ServiceFound(r)
  <2>1. PICK new \in Refs, n \in Fds :
          /\ Allocate(new, n, "resolve") /\ AddService(new, n)
          /\ ready' = ready \ {r} /\ AddResolveInfo(new)
    BY <1>3 DEF ServiceFound
  <2>2. /\ ref' \in [Refs -> {"unused", "live", "freed"}]
        /\ kind' \in [Refs -> AllUses \cup {"resolve"}]
        /\ fd' \in [Refs -> Fds]
        /\ m_ServicesInfos' \in Seq(Info)
        /\ Live' = Live \cup {new} /\ new \notin Live
        /\ kind'[new] = "resolve" /\ \A x \in Refs \ {new} : kind'[x] = kind[x]
        /\ \A i \in DOMAIN L' : L'[i].serviceRef = new \/ \E j \in DOMAIN L : L'[i] = L[j]
        /\ ListInv'
    BY <2>1, Added
  <2>3. ready' \subseteq Live'
    BY <2>1, <2>2 DEF TypeOK, Live
  <2>4. m_ResolveInfos' = {x \in Live' : kind'[x] = "resolve"}
    BY <1>1, <2>1, <2>2 DEF AddResolveInfo, Live
  <2>5. \A x \in Live : kind[x] # "resolve" => x \in Live' /\ kind'[x] = kind[x]
    BY <2>2 DEF Live
  <2>6. (\E i \in DOMAIN L' : L'[i].serviceRef \notin Live') =>
          \E i \in DOMAIN L : L[i].serviceRef \notin Live
    BY <2>2
  <2> QED BY <2>2, <2>3, <2>4, <2>5, <2>6
<1>4. CASE ref[r] = "live" /\ kind[r] = "resolve" /\ ServiceResolved(r)
  <2>1. DNSServiceRefDeallocate(r) /\ RemoveService(r) /\ RemoveResolveInfo(r)
    BY <1>4 DEF ServiceResolved
  <2>2. /\ ref' \in [Refs -> {"unused", "live", "freed"}]
        /\ kind' \in [Refs -> AllUses \cup {"resolve"}]
        /\ fd' \in [Refs -> Fds]
        /\ ready' \subseteq Live'
        /\ Live' = Live \ {r}
        /\ ListInv'
    BY <1>4, <2>1, Deallocated
  <2>3. /\ m_ServicesInfos' \in Seq(Info)
        /\ \A i \in DOMAIN L' : L'[i].serviceRef # r /\ \E j \in DOMAIN L : L'[i] = L[j]
    BY <2>1, RemoveServiceProperties
  <2>4. kind' = kind
    BY <2>1 DEF DNSServiceRefDeallocate
  <2>5. m_ResolveInfos' = {x \in Live' : kind'[x] = "resolve"}
    BY <1>1, <2>1, <2>2, <2>4 DEF RemoveResolveInfo
  <2>6. (\E i \in DOMAIN L' : L'[i].serviceRef \notin Live') =>
          \E i \in DOMAIN L : L[i].serviceRef \notin Live
    BY <2>2, <2>3
  <2> QED BY <1>4, <2>2, <2>3, <2>4, <2>5, <2>6
<1>5. \/ UNCHANGED <<ref, kind, fd, listVars>> /\ ready' \subseteq ready
      \/ ref[r] = "live" /\ kind[r] = "discover" /\ ServiceFound(r)
      \/ ref[r] = "live" /\ kind[r] = "resolve" /\ ServiceResolved(r)
  BY DEF DNSServiceProcessResult, OtherReply, refVars
<1> QED BY <1>2, <1>3, <1>4, <1>5

\* Steps that leave the references and the lists alone.
LEMMA RefsUntouched ==
  ASSUME IInv, UNCHANGED <<ref, kind, fd, listVars>>
  PROVE  /\ Live' = Live
         /\ ListInv' /\ ResolveInfosMatch'
         /\ m_Ref' = m_Ref => OwnRefs'
<1>1. Live' = Live
  BY DEF Live
<1>2. ListInv'
  BY <1>1 DEF IInv, ListInv, listVars
<1>3. ResolveInfosMatch'
  BY <1>1 DEF IInv, ResolveInfosMatch, listVars
<1>4. m_Ref' = m_Ref => OwnRefs'
  BY DEF IInv, OwnRefs
<1> QED BY <1>1, <1>2, <1>3, <1>4

\* The daemon answers.
LEMMA ReplyPreserves ==
  ASSUME IInv, misuse = "none", NEW r \in Refs, Reply(r)
  PROVE  IInv'
<1> USE DEF Reply, ownerVars, threadVars, listVars
<1>1. ListInv' /\ ResolveInfosMatch' /\ OwnRefs' /\ Live' = Live
  BY RefsUntouched
<1>2. TypeOK'
  BY <1>1 DEF IInv, TypeOK, Live
<1>3. ThreadInv' /\ KeepsItsWay'
  BY DEF IInv, ThreadInv, KeepsItsWay
<1>4. FirstLife'
  BY <1>1 DEF IInv, FirstLife
<1> QED BY <1>1, <1>2, <1>3, <1>4 DEF IInv

\* The owner calls.
LEMMA CallPreserves ==
  ASSUME IInv, misuse = "none", NEW use \in AllUses, NEW start \in BOOLEAN, Call(use, start)
  PROVE  IInv'
<1> USE DEF Call, StopServiceThread, refVars, threadVars, listVars
<1>1. ListInv' /\ ResolveInfosMatch' /\ OwnRefs' /\ Live' = Live
  BY RefsUntouched
<1>2. starts \in Nat /\ starts' \in 0 .. MaxStarts /\ starts' \in Nat
  BY MDNSAssumption DEF IInv, TypeOK
<1>3. call' = [use |-> use, start |-> start]
  OBVIOUS
<1>4. owner = "idle" /\ owner' \in {"join", "free", "open"}
  OBVIOUS
<1>5. TypeOK'
  <2>1. call' \in [use : AllUses, start : BOOLEAN] /\ owner' \in {"idle", "join", "free", "open"}
    BY <1>3, <1>4
  <2>2. m_ThreadRunning' \in BOOLEAN
    BY DEF IInv, TypeOK
  <2> QED BY <1>1, <1>2, <2>1, <2>2 DEF IInv, TypeOK, Live
<1>6. thread # "finished" /\ (m_ThreadRunning <=> thread # "off")
  BY <1>4 DEF IInv, ThreadInv
<1>7. CASE start /\ m_Ref[use] = NoRef
  <2>1. owner' = "open" /\ m_ThreadRunning' = m_ThreadRunning /\ starts' = starts + 1
    BY <1>7
  <2>2. ThreadInv'
    BY <1>3, <1>4, <1>6, <1>7, <2>1 DEF IInv, ThreadInv
  <2>3. FirstLife'
    <3>1. starts' # 0
      BY <1>2, <2>1
    <3>2. starts' <= 1 => \A i \in DOMAIN m_ServicesInfos' : m_ServicesInfos'[i].serviceRef \in Live'
      <4>1. starts' <= 1 => starts = 0
        BY <1>2, <2>1
      <4>2. starts = 0 => DOMAIN m_ServicesInfos = {}
        BY DEF IInv, FirstLife
      <4> QED BY <4>1, <4>2
    <3> QED BY <2>1, <3>1, <3>2 DEF FirstLife
  <2> QED BY <1>1, <1>5, <2>1, <2>2, <2>3 DEF IInv, KeepsItsWay
<1>8. CASE ~(start /\ m_Ref[use] = NoRef)
  <2>1. /\ m_ThreadRunning' = FALSE
        /\ owner' = IF m_ThreadRunning THEN "join" ELSE "free"
    BY <1>8
  <2>2. ThreadInv'
    BY <1>6, <2>1 DEF IInv, ThreadInv
  <2>3. FirstLife'
    <3>1. starts = 0 => m_Ref = [u \in AllUses |-> NoRef] /\ m_ServicesInfos = <<>>
      BY DEF IInv, FirstLife
    <3>2. start => starts # 0
      BY <1>8, <3>1
    <3>3. starts' = 0 => starts = 0 /\ owner' # "open"
      BY <1>2, <2>1
    <3>4. call'.start /\ owner' \in {"join", "free"} => starts' > 1
      BY <1>2, <1>3, <3>2
    <3>5. starts' <= 1 => starts <= 1
      BY <1>2
    <3>6. starts <= 1 /\ (\E i \in DOMAIN m_ServicesInfos : m_ServicesInfos[i].serviceRef \notin Live) =>
            thread = "off"
      BY DEF IInv, FirstLife
    <3>7. starts' <= 1 /\ (\E i \in DOMAIN m_ServicesInfos' : m_ServicesInfos'[i].serviceRef \notin Live') =>
            thread' = "off" /\ owner' # "open"
      BY <1>1, <2>1, <3>5, <3>6
    <3> QED BY <3>1, <3>3, <3>4, <3>7 DEF FirstLife
  <2> QED BY <1>1, <1>5, <2>1, <2>2, <2>3 DEF IInv, KeepsItsWay
<1> QED BY <1>7, <1>8

\* The service thread is joined.
LEMMA JoinPreserves ==
  ASSUME IInv, misuse = "none", Join
  PROVE  IInv'
<1> USE DEF Join, refVars, listVars
<1>1. ListInv' /\ ResolveInfosMatch' /\ OwnRefs' /\ Live' = Live
  BY RefsUntouched
<1>2. TypeOK'
  BY <1>1 DEF IInv, TypeOK, Live
<1>3. ThreadInv' /\ KeepsItsWay'
  BY DEF IInv, ThreadInv, KeepsItsWay
<1>4. FirstLife'
  BY <1>1 DEF IInv, FirstLife
<1> QED BY <1>1, <1>2, <1>3, <1>4 DEF IInv

\* UnRegister and StopDiscover: the reference goes, its entry stays, and no
\* thread is there.
LEMMA FreePreserves ==
  ASSUME IInv, misuse = "none", Free
  PROVE  IInv'
<1> USE DEF Free, refVars, threadVars
<1> DEFINE L == m_ServicesInfos
<1>1. /\ TypeOK /\ ListInv /\ OwnRefs
      /\ call.use \in AllUses /\ m_Ref \in [AllUses -> Refs \cup {NoRef}]
      /\ m_ResolveInfos = {x \in Live : kind[x] = "resolve"}
  BY DEF IInv, TypeOK, ResolveInfosMatch
<1>2. /\ m_Ref'[call.use] = NoRef /\ m_Ref' \in [AllUses -> Refs \cup {NoRef}]
      /\ \A use \in AllUses : use # call.use => m_Ref'[use] = m_Ref[use]
  BY <1>1
<1>3. RemoveService(NoRef)
  BY <1>2
<1>4. owner = "free" /\ thread = "off" /\ ~m_ThreadRunning /\ thread' = "off" /\ ~m_ThreadRunning'
  BY DEF IInv, ThreadInv
<1>5. m_ServicesInfos' \in Seq(Info)
  BY <1>1, <1>3, RemoveServiceProperties
<1>6. ASSUME TRUE
      PROVE  /\ ref' \in [Refs -> {"unused", "live", "freed"}]
             /\ kind' \in [Refs -> AllUses \cup {"resolve"}]
             /\ fd' \in [Refs -> Fds]
             /\ ready' \subseteq Live'
             /\ m_ResolveInfos' = {x \in Live' : kind'[x] = "resolve"}
             /\ OwnRefs' /\ ListInv'
  <2>1. CASE m_Ref[call.use] = NoRef
    <3>1. UNCHANGED <<ref, kind, fd, ready>>
      BY <2>1
    <3>2. Live' = Live
      BY <3>1 DEF Live
    <3>3. L' = L
      <4>1. \A i \in DOMAIN L : L[i].serviceRef # NoRef
        <5> SUFFICES ASSUME NEW i \in DOMAIN L PROVE L[i].serviceRef # NoRef
          OBVIOUS
        <5>1. L \in Seq(Info)
          BY <1>1 DEF TypeOK
        <5>2. L[i] \in Info
          BY <5>1, LenProperties, ElementOfSeq
        <5> QED BY <5>2, MDNSAssumption DEF Info
      <4> QED BY <1>3, <4>1 DEF RemoveService
    <3>4. OwnRefs'
      BY <1>1, <1>2, <3>1 DEF OwnRefs
    <3>5. ListInv'
      BY <1>1, <3>1, <3>2, <3>3 DEF ListInv
    <3> QED BY <1>1, <3>1, <3>2, <3>4, <3>5 DEF TypeOK, Live
  <2>2. CASE m_Ref[call.use] # NoRef
    <3> DEFINE r == m_Ref[call.use]
    <3>1. r \in Refs /\ ref[r] = "live" /\ kind[r] = call.use /\ DNSServiceRefDeallocate(r)
      BY <1>1, <2>2 DEF OwnRefs
    <3> HIDE DEF r
    <3>2. /\ ref' \in [Refs -> {"unused", "live", "freed"}]
          /\ kind' \in [Refs -> AllUses \cup {"resolve"}]
          /\ fd' \in [Refs -> Fds]
          /\ ready' \subseteq Live'
          /\ Live' = Live \ {r}
          /\ \A y \in Refs \ {r} : ref'[y] = ref[y]
          /\ ListInv'
      BY <1>1, <1>3, <3>1, Deallocated
    <3>3. kind' = kind
      BY <3>1 DEF DNSServiceRefDeallocate
    <3>4. kind[r] # "resolve"
      BY <1>1, <3>1 DEF AllUses
    <3>5. m_ResolveInfos' = {x \in Live' : kind'[x] = "resolve"}
      BY <1>1, <3>2, <3>3, <3>4
    <3>6. OwnRefs'
      <4> SUFFICES ASSUME NEW use \in AllUses, m_Ref'[use] # NoRef
                   PROVE  ref'[m_Ref'[use]] = "live" /\ kind'[m_Ref'[use]] = use
        BY DEF OwnRefs
      <4>1. use # call.use /\ m_Ref'[use] = m_Ref[use]
        BY <1>2
      <4>2. m_Ref[use] \in Refs /\ ref[m_Ref[use]] = "live" /\ kind[m_Ref[use]] = use
        BY <1>1, <4>1 DEF OwnRefs
      <4>3. m_Ref[use] # r
        BY <3>1, <4>1, <4>2
      <4> QED BY <3>2, <3>3, <4>1, <4>2, <4>3
    <3> QED BY <3>2, <3>5, <3>6
  <2> QED BY <2>1, <2>2
<1>7. TypeOK'
  BY <1>1, <1>2, <1>5, <1>6 DEF TypeOK, Live
<1>8. ThreadInv'
  BY <1>2, <1>4 DEF ThreadInv
<1>9. FirstLife'
  <2>1. starts \in Nat
    BY <1>1 DEF TypeOK
  <2>2. call.start => starts > 1
    BY <1>4 DEF IInv, FirstLife
  <2>3. owner' \in {"idle", "open"} /\ (owner' = "open" => starts > 1)
    BY <2>2
  <2>4. starts = 0 => m_Ref' = m_Ref /\ m_Ref = [use \in AllUses |-> NoRef] /\ L = <<>>
    BY <1>1 DEF IInv, FirstLife
  <2>5. L = <<>> => L' = <<>>
    BY <1>3 DEF RemoveService
  <2>6. starts' = starts /\ (starts' <= 1 => owner' # "open")
    BY <2>1, <2>3
  <2>7. ASSUME starts' = 0
        PROVE  owner' # "open" /\ m_Ref' = [use \in AllUses |-> NoRef] /\ L' = <<>>
    <3>1. starts = 0 /\ starts' <= 1
      BY <2>1, <2>6, <2>7
    <3>2. owner' # "open"
      BY <2>6, <3>1
    <3>3. m_Ref' = [use \in AllUses |-> NoRef]
      BY <2>4, <3>1, Zenon
    <3>4. L' = <<>>
      BY <2>4, <2>5, <3>1, Zenon
    <3> QED BY <3>2, <3>3, <3>4
  <2>8. owner' \notin {"join", "free"}
    BY <2>3
  <2>9. starts' <= 1 => thread' = "off" /\ owner' # "open"
    BY <1>4, <2>6
  <2> QED BY <2>7, <2>8, <2>9 DEF FirstLife
<1>10. KeepsItsWay'
  BY <1>2 DEF KeepsItsWay
<1> QED BY <1>6, <1>7, <1>8, <1>9, <1>10 DEF IInv, ResolveInfosMatch

\* Register and StartDiscover: a new reference, its entry and a thread.
LEMMA OpenPreserves ==
  ASSUME IInv, misuse = "none", Open
  PROVE  IInv'
<1> USE DEF Open, refVars
<1> DEFINE L == m_ServicesInfos
<1>1. /\ TypeOK /\ ListInv /\ OwnRefs
      /\ call.use \in AllUses /\ m_Ref \in [AllUses -> Refs \cup {NoRef}]
      /\ m_ResolveInfos = {x \in Live : kind[x] = "resolve"}
      /\ m_Ref[call.use] = NoRef
  BY DEF IInv, TypeOK, ResolveInfosMatch, ThreadInv
<1>2. /\ owner = "open" /\ owner' = "idle" /\ UNCHANGED <<call, starts, m_ResolveInfos, ready, batch, set>>
      /\ thread # "finished" /\ (m_ThreadRunning <=> thread # "off")
      /\ thread # "off" => \E use \in AllUses : m_Ref[use] # NoRef
  BY DEF IInv, ThreadInv
<1>3. starts \in Nat /\ starts # 0
  BY <1>1, <1>2 DEF TypeOK, IInv, FirstLife
<1>4. CASE UNCHANGED <<ref, kind, fd, m_ServicesInfos, m_Ref, m_ThreadRunning, thread, misuse>>
  <2>1. ListInv' /\ ResolveInfosMatch' /\ OwnRefs' /\ Live' = Live
    BY <1>2, <1>4, RefsUntouched DEF listVars
  <2>2. TypeOK'
    BY <1>1, <1>2, <1>4, <2>1 DEF TypeOK, Live
  <2>3. ThreadInv' /\ KeepsItsWay'
    BY <1>1, <1>2, <1>4 DEF ThreadInv, KeepsItsWay
  <2>4. FirstLife'
    BY <1>2, <1>3, <1>4, <2>1 DEF IInv, FirstLife
  <2> QED BY <2>1, <2>2, <2>3, <2>4 DEF IInv
<1>5. ASSUME NEW r \in Refs, NEW n \in Fds,
             Allocate(r, n, call.use), m_Ref' = [m_Ref EXCEPT ![call.use] = r],
             AddService(r, n), StartServiceThread
      PROVE  IInv'
  <2>1. /\ ref' \in [Refs -> {"unused", "live", "freed"}]
        /\ kind' \in [Refs -> AllUses \cup {"resolve"}]
        /\ fd' \in [Refs -> Fds]
        /\ m_ServicesInfos' \in Seq(Info)
        /\ Live' = Live \cup {r} /\ r \notin Live
        /\ kind'[r] = call.use /\ \A x \in Refs \ {r} : kind'[x] = kind[x] /\ ref'[x] = ref[x]
        /\ \A i \in DOMAIN L' : L'[i].serviceRef = r \/ \E j \in DOMAIN L : L'[i] = L[j]
        /\ ListInv'
    BY <1>1, <1>5, Added
  <2>2. /\ m_Ref' \in [AllUses -> Refs \cup {NoRef}] /\ m_Ref'[call.use] = r
        /\ \A use \in AllUses : use # call.use => m_Ref'[use] = m_Ref[use]
        /\ r # NoRef
    BY <1>1, <1>5, MDNSAssumption
  <2>3. /\ m_ThreadRunning' = TRUE
        /\ thread = "off" => thread' = "top" /\ misuse' = "none"
        /\ thread # "off" => thread' = thread /\ misuse' = "terminate"
    BY <1>5 DEF StartServiceThread
  <2>4. ResolveInfosMatch'
    <3>1. call.use # "resolve"
      BY <1>1 DEF AllUses
    <3>2. m_ResolveInfos' = {x \in Live' : kind'[x] = "resolve"}
      BY <1>1, <1>2, <2>1, <3>1 DEF Live
    <3> QED BY <3>2 DEF ResolveInfosMatch
  <2>5. OwnRefs'
    <3> SUFFICES ASSUME NEW use \in AllUses, m_Ref'[use] # NoRef
                 PROVE  ref'[m_Ref'[use]] = "live" /\ kind'[m_Ref'[use]] = use
      BY DEF OwnRefs
    <3>1. CASE use = call.use
      BY <2>1, <2>2, <3>1 DEF Live
    <3>2. CASE use # call.use
      <4>1. m_Ref'[use] = m_Ref[use] /\ m_Ref[use] \in Refs
        BY <1>1, <2>2, <3>2
      <4>2. ref[m_Ref[use]] = "live" /\ kind[m_Ref[use]] = use
        BY <1>1, <4>1, MDNSAssumption DEF OwnRefs
      <4>3. m_Ref[use] # r
        BY <2>1, <4>1, <4>2 DEF Live
      <4> QED BY <2>1, <4>1, <4>2, <4>3
    <3> QED BY <3>1, <3>2
  <2>6. TypeOK'
    <3>1. misuse' \in {"none", "freed reference", "terminate"}
          /\ thread' \in {"off", "top", "select", "handle", "finished"}
      BY <1>1, <2>3 DEF TypeOK
    <3>2. ready' \subseteq {x \in Refs : ref'[x] = "live"}
      BY <1>1, <1>2, <2>1 DEF TypeOK, Live
    <3>3. /\ batch' \in Seq(Info) /\ set' \subseteq Fds /\ m_ResolveInfos' \subseteq Refs
          /\ call' \in [use : AllUses, start : BOOLEAN] /\ starts' \in 0 .. MaxStarts
      BY <1>1, <1>2 DEF TypeOK
    <3>4. m_ThreadRunning' \in BOOLEAN /\ owner' \in {"idle", "join", "free", "open"}
      BY <1>2, <2>3
    <3> QED BY <2>1, <2>2, <3>1, <3>2, <3>3, <3>4 DEF TypeOK
  <2>7. ThreadInv'
    BY <1>1, <1>2, <2>2, <2>3 DEF ThreadInv
  <2>8. FirstLife'
    <3>1. starts <= 1 => \A i \in DOMAIN L : L[i].serviceRef \in Live
      BY <1>2 DEF IInv, FirstLife
    <3>2. starts <= 1 => \A i \in DOMAIN L' : L'[i].serviceRef \in Live'
      BY <2>1, <3>1
    <3> QED BY <1>2, <1>3, <3>2 DEF FirstLife
  <2>9. KeepsItsWay'
    <3>1. misuse' = "terminate" => \A use \in AllUses : m_Ref'[use] # NoRef
      <4> SUFFICES ASSUME thread # "off", NEW use \in AllUses PROVE m_Ref'[use] # NoRef
        BY <2>3
      <4>1. PICK u \in AllUses : m_Ref[u] # NoRef
        BY <1>2
      <4>2. use = call.use \/ use = u
        BY <1>1, <4>1 DEF AllUses
      <4> QED BY <1>1, <2>2, <4>1, <4>2
    <3>2. misuse' = "none" => m_ThreadRunning' /\ thread' = "top"
      BY <2>3
    <3> QED BY <2>3, <3>1, <3>2 DEF KeepsItsWay
  <2> QED BY <2>1, <2>4, <2>5, <2>6, <2>7, <2>8, <2>9 DEF IInv
<1> QED BY <1>4, <1>5

\* The service thread takes its copy of the list, and waits in select.
LEMMA WaitPreserves ==
  ASSUME IInv, misuse = "none", Snapshot \/ Select
  PROVE  IInv'
<1>1. UNCHANGED <<refVars, listVars, ownerVars, m_Ref, m_ThreadRunning, misuse>>
  BY DEF Snapshot, Select
<1>2. thread \in {"top", "select"}
  BY DEF Snapshot, Select
<1>3. thread' \in {"top", "select", "handle", "finished"}
  BY DEF Snapshot, Select
<1>4. m_ThreadRunning => thread' # "finished"
  BY DEF Snapshot, Select
<1>5. ListInv' /\ ResolveInfosMatch' /\ OwnRefs' /\ Live' = Live
  BY <1>1, RefsUntouched DEF refVars
<1>6. batch' \in Seq(Info)
  BY EmptySeq DEF Snapshot, Select, IInv, TypeOK
<1>7. set' \subseteq Fds
  <2>1. CASE Snapshot
    BY <2>1 DEF Snapshot, IInv, TypeOK
  <2>2. CASE Select
    <3>1. \A r \in ready : fd[r] \in Fds
      BY DEF IInv, TypeOK
    <3>2. set' = set \/ set' \subseteq {fd[r] : r \in ready}
      BY <2>2 DEF Select
    <3> QED BY <3>1, <3>2 DEF IInv, TypeOK
  <2> QED BY <2>1, <2>2
<1>8. TypeOK'
  BY <1>1, <1>5, <1>6, <1>7, <1>3 DEF IInv, TypeOK, Live, refVars, listVars, ownerVars
<1>9. ThreadInv' /\ KeepsItsWay'
  BY <1>1, <1>2, <1>3, <1>4 DEF IInv, ThreadInv, KeepsItsWay, ownerVars
<1>10. FirstLife'
  BY <1>1, <1>5, <1>2 DEF IInv, FirstLife, ownerVars, listVars
<1> QED BY <1>5, <1>8, <1>9, <1>10 DEF IInv

\* The service thread looks at a handle: what is on the list is live in a first
\* life, because there is a thread.
LEMMA HandlePreserves ==
  ASSUME IInv, misuse = "none", Handle
  PROVE  IInv'
<1> DEFINE L == m_ServicesInfos
<1>1. /\ thread = "handle" /\ thread' \in {"top", "handle"}
      /\ UNCHANGED <<ownerVars, m_Ref, m_ThreadRunning>>
  BY DEF Handle
<1>2. batch' \in Seq(Info) /\ set' \subseteq Fds
  <2>1. batch \in Seq(Info) /\ set \subseteq Fds
    BY DEF IInv, TypeOK
  <2> QED BY <2>1, HeadTailProperties DEF Handle
<1>3. ThreadInv'
  BY <1>1 DEF IInv, ThreadInv, ownerVars
<1>4. CASE UNCHANGED <<refVars, listVars, misuse>>
  <2>1. ListInv' /\ ResolveInfosMatch' /\ OwnRefs' /\ Live' = Live
    BY <1>1, <1>4, RefsUntouched DEF refVars
  <2>2. TypeOK'
    BY <1>1, <1>2, <1>4, <2>1 DEF IInv, TypeOK, Live, refVars, listVars, ownerVars
  <2>3. KeepsItsWay' /\ FirstLife'
    BY <1>1, <1>4, <2>1 DEF IInv, KeepsItsWay, FirstLife, ownerVars, listVars
  <2> QED BY <1>3, <2>1, <2>2, <2>3 DEF IInv
<1>5. CASE ~Removed(Head(batch)) /\ DNSServiceProcessResult(Head(batch).serviceRef)
  <2> DEFINE r == Head(batch).serviceRef
  <2>1. PICK i \in DOMAIN L : L[i].serviceRef = r
    BY <1>5 DEF Removed
  <2>2. L \in Seq(Info)
    BY DEF IInv, TypeOK
  <2>3. r \in Refs
    <3>1. L[i] \in Info
      BY <2>2, LenProperties, ElementOfSeq
    <3> QED BY <2>1, <3>1 DEF Info
  <2> HIDE DEF r
  <2>4. DNSServiceProcessResult(r)
    BY <1>5 DEF r
  <2>5. /\ ref' \in [Refs -> {"unused", "live", "freed"}]
        /\ kind' \in [Refs -> AllUses \cup {"resolve"}]
        /\ fd' \in [Refs -> Fds]
        /\ ready' \subseteq Live'
        /\ m_ServicesInfos' \in Seq(Info)
        /\ m_ResolveInfos' = {x \in Live' : kind'[x] = "resolve"}
        /\ \A x \in Live : kind[x] # "resolve" => x \in Live' /\ kind'[x] = kind[x]
        /\ (\E j \in DOMAIN L' : L'[j].serviceRef \notin Live') =>
             \E j \in DOMAIN L : L[j].serviceRef \notin Live
        /\ ListInv'
    BY <2>3, <2>4, CallbackProperties
  <2>6. misuse' = IF ref[r] = "live" THEN misuse ELSE "freed reference"
    BY <2>4 DEF DNSServiceProcessResult
  <2>7. starts \in Nat /\ (starts <= 1 => starts' = starts /\ r \in Live)
    BY <1>1, <2>1 DEF IInv, TypeOK, FirstLife, ownerVars
  <2>8. misuse' = "none" \/ (misuse' = "freed reference" /\ starts' > 1)
    <3>1. CASE ref[r] = "live"
      BY <2>6, <3>1
    <3>2. CASE ref[r] # "live"
      <4>1. r \notin Live
        BY <3>2 DEF Live
      <4>2. starts > 1 /\ starts' = starts
        BY <1>1, <2>7, <4>1 DEF ownerVars
      <4> QED BY <2>6, <3>2, <4>2
    <3> QED BY <3>1, <3>2
  <2>9. KeepsItsWay'
    <3>1. owner = "idle" /\ m_Ref[call.use] # NoRef => m_ThreadRunning
      BY DEF IInv, KeepsItsWay
    <3> QED BY <1>1, <2>8, <3>1 DEF KeepsItsWay, ownerVars
  <2>10. OwnRefs'
    <3> SUFFICES ASSUME NEW use \in AllUses, m_Ref'[use] # NoRef
                 PROVE  ref'[m_Ref'[use]] = "live" /\ kind'[m_Ref'[use]] = use
      BY DEF OwnRefs
    <3>1. m_Ref'[use] = m_Ref[use] /\ m_Ref[use] \in Refs
      BY <1>1 DEF IInv, TypeOK
    <3>2. m_Ref[use] \in Live /\ kind[m_Ref[use]] = use /\ use # "resolve"
      BY <1>1, <3>1 DEF IInv, OwnRefs, Live, AllUses
    <3> QED BY <2>5, <3>1, <3>2 DEF Live
  <2>11. FirstLife'
    <3>1. starts # 0
      BY <2>1 DEF IInv, FirstLife
    <3> QED BY <1>1, <2>5, <3>1 DEF IInv, FirstLife, ownerVars
  <2>12. TypeOK'
    <3>1. m_ResolveInfos' \subseteq Refs /\ ready' \subseteq {x \in Refs : ref'[x] = "live"}
      BY <2>5 DEF Live
    <3> QED BY <1>1, <1>2, <2>5, <2>8, <3>1 DEF IInv, TypeOK, ownerVars
  <2> QED BY <1>3, <2>5, <2>9, <2>10, <2>11, <2>12 DEF IInv, ResolveInfosMatch
<1> QED BY <1>4, <1>5 DEF Handle

-----------------------------------------------------------------------------
(* The theorems.                                                            *)

\* The list, the references and the two threads stay as the calls of the owner
\* and the callbacks of dns_sd leave them, in whatever order they come.
THEOREM Invariance == Spec => []IInv
<1>1. Init => IInv
  <2> SUFFICES ASSUME Init PROVE IInv
    OBVIOUS
  <2>1. (CHOOSE n \in Fds : TRUE) \in Fds
    BY MDNSAssumption
  <2>2. m_ServicesInfos \in Seq(Info) /\ batch \in Seq(Info) /\ DOMAIN m_ServicesInfos = {}
    BY EmptySeq DEF Init
  <2>3. TypeOK
    <3>1. starts \in 0 .. MaxStarts
      BY MDNSAssumption DEF Init
    <3>2. fd \in [Refs -> Fds] /\ ready \subseteq {r \in Refs : ref[r] = "live"}
      BY <2>1 DEF Init
    <3> QED BY <2>2, <3>1, <3>2 DEF Init, TypeOK, AllUses
  <2>4. Live = {}
    BY DEF Init, Live
  <2>5. ListInv /\ ResolveInfosMatch
    BY <2>2, <2>4 DEF Init, ListInv, ResolveInfosMatch
  <2>6. \A use \in AllUses : m_Ref[use] = NoRef
    BY DEF Init
  <2>7. call.use \in AllUses
    BY DEF Init, AllUses
  <2>8. OwnRefs /\ ThreadInv /\ KeepsItsWay
    BY <2>6, <2>7 DEF Init, OwnRefs, ThreadInv, KeepsItsWay
  <2>9. FirstLife
    BY <2>2 DEF Init, FirstLife
  <2> QED BY <2>3, <2>5, <2>8, <2>9 DEF IInv
<1>2. IInv /\ [Next]_vars => IInv'
  <2> SUFFICES ASSUME IInv, [Next]_vars PROVE IInv'
    OBVIOUS
  <2>1. CASE UNCHANGED vars
    <3>1. UNCHANGED <<ref, kind, fd, ready, m_ServicesInfos, m_ResolveInfos, call, owner, starts,
                      m_Ref, m_ThreadRunning, thread, batch, set, misuse>>
      BY <2>1 DEF vars, refVars, listVars, ownerVars, threadVars
    <3>2. ListInv' /\ ResolveInfosMatch' /\ OwnRefs' /\ Live' = Live
      BY <3>1, RefsUntouched DEF listVars
    <3>3. TypeOK' /\ ThreadInv' /\ KeepsItsWay'
      BY <3>1 DEF IInv, TypeOK, ThreadInv, KeepsItsWay
    <3>4. FirstLife'
      BY <3>1, <3>2 DEF IInv, FirstLife
    <3> QED BY <3>2, <3>3, <3>4 DEF IInv
  <2>2. ASSUME misuse = "none", NEW use \in Uses, NEW start \in BOOLEAN, Call(use, start)
        PROVE  IInv'
    <3>1. use \in AllUses
      BY <2>2, MDNSAssumption DEF AllUses
    <3> QED BY <2>2, <3>1, CallPreserves
  <2>3. ASSUME misuse = "none", UnRegister \/ StopDiscover PROVE IInv'
    BY <2>3, FreePreserves DEF UnRegister, StopDiscover
  <2>4. ASSUME misuse = "none", Register \/ StartDiscover PROVE IInv'
    BY <2>4, OpenPreserves DEF Register, StartDiscover
  <2>5. ASSUME misuse = "none", ServiceThreadLoop PROVE IInv'
    BY <2>5, WaitPreserves, HandlePreserves DEF ServiceThreadLoop
  <2>6. ASSUME misuse = "none", NEW r \in Refs, Reply(r) PROVE IInv'
    BY <2>6, ReplyPreserves
  <2>7. ASSUME misuse = "none", Join PROVE IInv'
    BY <2>7, JoinPreserves
  <2> QED BY <2>1, <2>2, <2>3, <2>4, <2>5, <2>6, <2>7 DEF Next, Step
<1> QED BY <1>1, <1>2, PTL DEF Spec

\* Every live reference is on the list, with its socket.
THEOREM LiveStaysListed == Spec => []LiveIsListed
<1>1. IInv => LiveIsListed
  BY DEF IInv, ListInv, LiveIsListed
<1> QED BY <1>1, Invariance, PTL

\* The resolve contexts are those of the resolve calls under way.
THEOREM ResolveInfosStayMatched == Spec => []ResolveInfosMatch
<1>1. IInv => ResolveInfosMatch
  BY DEF IInv
<1> QED BY <1>1, Invariance, PTL

\* No freed reference is processed in a first life, no thread is replaced while
\* the object serves one use, and what was started last has its thread.
THEOREM StaysOnItsWay == Spec => []KeepsItsWay
<1>1. IInv => KeepsItsWay
  BY DEF IInv
<1> QED BY <1>1, Invariance, PTL
=============================================================================
