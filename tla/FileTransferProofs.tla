------------------------- MODULE FileTransferProofs -------------------------
(***************************************************************************)
(* Theorems about FileTransfer, for any number of connections, uploads and  *)
(* downloads, and files and blocks of any size.  IInv is inductive: a step  *)
(* takes at most one message or block from a channel and puts at most one   *)
(* of the same file on a channel, so that what is known of every other file *)
(* is kept, and of this one only what was put is new.                       *)
(***************************************************************************)
EXTENDS FileTransfer, SequenceTheorems, TLAPS

-----------------------------------------------------------------------------
(* Channels.                                                                *)

\* At most one message or block of x on a channel.
One(x, channel) ==
  \A c, d \in DOMAIN channel : \A i \in DOMAIN channel[c], j \in DOMAIN channel[d] :
    channel[c][i].uuid = x /\ channel[d][j].uuid = x => c = d /\ i = j

\* What a step from channel to new leaves alone of x: nothing of x came.
Kept(x, channel, new) ==
  /\ One(x, channel) => One(x, new)
  /\ \A m \in UnderWay(new) : m.uuid = x => m \in UnderWay(channel)

\* m is all there is of x on a channel.
Only(x, channel, m) == One(x, channel) /\ \A n \in UnderWay(channel) : n.uuid = x => n = m

\* The two ways a channel is used.
Reading(channel, c, new) == channel[c] # <<>> /\ new = [channel EXCEPT ![c] = Tail(@)]

\* A message is added to one connection of a channel.
Writing(channel, c, m, new) == new = [channel EXCEPT ![c] = Append(@, m)]

\* What is under way is at some place of some connection.
LEMMA UnderWayDef ==
  ASSUME NEW K, NEW M, NEW channel \in [K -> Seq(M)]
  PROVE  /\ UnderWay(channel) \subseteq M
         /\ \A c \in K : \A i \in 1 .. Len(channel[c]) : channel[c][i] \in UnderWay(channel)
         /\ \A m \in UnderWay(channel) : \E c \in K : \E i \in 1 .. Len(channel[c]) : m = channel[c][i]
BY DEF UnderWay, Range

\* Reading takes the head, which was all there was of its file.
LEMMA Taken ==
  ASSUME NEW K, NEW M, NEW channel \in [K -> Seq(M)], NEW c \in K, NEW new,
         Reading(channel, c, new)
  PROVE  /\ new \in [K -> Seq(M)]
         /\ Head(channel[c]) \in M /\ Head(channel[c]) \in UnderWay(channel)
         /\ \A x : Kept(x, channel, new)
         /\ One(Head(channel[c]).uuid, channel) => Absent(Head(channel[c]).uuid, new)
<1> DEFINE s == channel[c]
<1>1. s \in Seq(M) /\ Len(s) \in Nat \ {0} /\ Head(s) = s[1] /\ DOMAIN s = 1 .. Len(s)
  BY DEF Reading
<1>2. /\ Tail(s) \in Seq(M) /\ Len(Tail(s)) = Len(s) - 1
      /\ \A i \in 1 .. Len(s) - 1 : Tail(s)[i] = s[i + 1]
  BY <1>1
<1>3. new \in [K -> Seq(M)] /\ new[c] = Tail(s) /\ \A d \in K \ {c} : new[d] = channel[d]
  BY <1>2 DEF Reading
<1>4. \A d \in K : channel[d] \in Seq(M) /\ DOMAIN channel[d] = 1 .. Len(channel[d])
                   /\ DOMAIN new[d] = 1 .. Len(new[d])
  BY <1>3
<1> DEFINE was(d, i) == IF d = c THEN i + 1 ELSE i
<1>5. ASSUME NEW d \in K, NEW i \in DOMAIN new[d]
      PROVE  was(d, i) \in DOMAIN channel[d] /\ new[d][i] = channel[d][was(d, i)] /\ i \in Nat
             /\ (d = c => was(d, i) # 1)
  <2>0. i \in 1 .. Len(new[d]) /\ i \in Nat
    BY <1>3, <1>4
  <2>1. CASE d = c
    <3>1. i \in 1 .. Len(s) - 1 /\ new[d][i] = Tail(s)[i]
      BY <1>2, <1>3, <2>0, <2>1, Zenon
    <3>2. i + 1 \in 1 .. Len(s) /\ i + 1 # 1
      BY <1>1, <3>1
    <3> QED BY <1>1, <1>2, <2>0, <2>1, <3>1, <3>2, Zenon
  <2>2. CASE d # c
    <3>1. new[d] = channel[d]
      BY <1>3, <2>2, Zenon
    <3> QED BY <2>0, <2>2, <3>1, Zenon
  <2> QED BY <2>1, <2>2
<1>6. Head(s) \in M /\ Head(s) \in UnderWay(channel)
  BY <1>1, UnderWayDef
<1>7. \A m \in UnderWay(new) : \E d \in K : \E i \in DOMAIN new[d] : m = new[d][i]
  <2>1. \A m \in UnderWay(new) : \E d \in K : \E i \in 1 .. Len(new[d]) : m = new[d][i]
    BY <1>3 DEF UnderWay, Range
  <2> SUFFICES ASSUME NEW m \in UnderWay(new) PROVE \E d \in K : \E i \in DOMAIN new[d] : m = new[d][i]
    OBVIOUS
  <2>2. PICK d \in K : \E i \in 1 .. Len(new[d]) : m = new[d][i]
    BY <2>1
  <2> QED BY <1>4, <2>2
<1>10. \A d \in K : \A i \in DOMAIN channel[d] : channel[d][i] \in UnderWay(channel)
  BY <1>4, UnderWayDef
<1>8. ASSUME NEW x, One(x, channel) PROVE One(x, new)
  <2> SUFFICES ASSUME NEW d \in K, NEW e \in K, NEW i \in DOMAIN new[d], NEW j \in DOMAIN new[e],
                      new[d][i].uuid = x, new[e][j].uuid = x
               PROVE  d = e /\ i = j
    BY <1>3 DEF One
  <2>1. d = e /\ was(d, i) = was(e, j)
    BY <1>5, <1>8 DEF One
  <2> QED BY <1>5, <2>1
<1>9. ASSUME One(Head(s).uuid, channel), NEW m \in UnderWay(new), m.uuid = Head(s).uuid PROVE FALSE
  <2>1. PICK d \in K : \E i \in DOMAIN new[d] : m = new[d][i]
    BY <1>7
  <2>2. PICK i \in DOMAIN new[d] : m = new[d][i]
    BY <2>1
  <2>3. d = c /\ was(d, i) = 1
    BY <1>1, <1>4, <1>5, <1>9, <2>2 DEF One
  <2> QED BY <1>5, <2>3
<1>11. UnderWay(new) \subseteq UnderWay(channel)
  <2> SUFFICES ASSUME NEW m \in UnderWay(new) PROVE m \in UnderWay(channel)
    OBVIOUS
  <2>1. PICK d \in K : \E i \in DOMAIN new[d] : m = new[d][i]
    BY <1>7
  <2>2. PICK i \in DOMAIN new[d] : m = new[d][i]
    BY <2>1
  <2>3. was(d, i) \in DOMAIN channel[d] /\ new[d][i] = channel[d][was(d, i)]
    BY <1>5, Zenon
  <2> QED BY <1>10, <2>2, <2>3, Zenon
<1> QED BY <1>3, <1>6, <1>8, <1>9, <1>11 DEF Kept, Absent

\* Sending adds one, which is all there is of its file if nothing was.
LEMMA Put ==
  ASSUME NEW K, NEW M, NEW channel \in [K -> Seq(M)], NEW c \in K, NEW m \in M,
         NEW new, Writing(channel, c, m, new)
  PROVE  /\ new \in [K -> Seq(M)]
         /\ \A x : x # m.uuid => Kept(x, channel, new)
         /\ Absent(m.uuid, channel) => Only(m.uuid, new, m)
<1> DEFINE s == channel[c]
<1>1. s \in Seq(M) /\ Len(s) \in Nat /\ DOMAIN s = 1 .. Len(s)
  OBVIOUS
<1>2. /\ Append(s, m) \in Seq(M) /\ Len(Append(s, m)) = Len(s) + 1
      /\ \A i \in 1 .. Len(s) + 1 : Append(s, m)[i] = IF i = Len(s) + 1 THEN m ELSE s[i]
  BY <1>1
<1>3. new \in [K -> Seq(M)] /\ new[c] = Append(s, m) /\ \A d \in K \ {c} : new[d] = channel[d]
  BY <1>2 DEF Writing
<1>4. \A d \in K : channel[d] \in Seq(M) /\ DOMAIN channel[d] = 1 .. Len(channel[d])
                   /\ DOMAIN new[d] = 1 .. Len(new[d])
  BY <1>3
<1>5. ASSUME NEW d \in K, NEW i \in DOMAIN new[d]
      PROVE  \/ d = c /\ i = Len(s) + 1 /\ new[d][i] = m
             \/ i \in DOMAIN channel[d] /\ new[d][i] = channel[d][i]
  <2>1. CASE d = c
    <3>1. i \in 1 .. Len(s) + 1 /\ new[d][i] = IF i = Len(s) + 1 THEN m ELSE s[i]
      BY <1>2, <1>3, <1>4, <2>1
    <3>2. i = Len(s) + 1 \/ i \in DOMAIN s
      BY <1>1, <3>1
    <3> QED BY <1>1, <2>1, <3>1, <3>2
  <2>2. CASE d # c
    BY <1>3, <2>2
  <2> QED BY <2>1, <2>2
<1>6. \A n \in UnderWay(new) : n = m \/ n \in UnderWay(channel)
  <2> SUFFICES ASSUME NEW n \in UnderWay(new) PROVE n = m \/ n \in UnderWay(channel)
    OBVIOUS
  <2>1. \E d \in K : \E i \in 1 .. Len(new[d]) : n = new[d][i]
    BY <1>3 DEF UnderWay, Range
  <2>2. \A d \in K : \A i \in 1 .. Len(channel[d]) : channel[d][i] \in UnderWay(channel)
    BY UnderWayDef
  <2> QED BY <1>4, <1>5, <2>1, <2>2
<1>7. ASSUME NEW x, x # m.uuid, One(x, channel) PROVE One(x, new)
  <2> SUFFICES ASSUME NEW d \in K, NEW e \in K, NEW i \in DOMAIN new[d], NEW j \in DOMAIN new[e],
                      new[d][i].uuid = x, new[e][j].uuid = x
               PROVE  d = e /\ i = j
    BY <1>3 DEF One
  <2>1. /\ i \in DOMAIN channel[d] /\ channel[d][i].uuid = x
        /\ j \in DOMAIN channel[e] /\ channel[e][j].uuid = x
    BY <1>5, <1>7
  <2>2. d \in DOMAIN channel /\ e \in DOMAIN channel
    OBVIOUS
  <2> QED BY <1>7, <2>1, <2>2 DEF One
<1>8. ASSUME Absent(m.uuid, channel) PROVE One(m.uuid, new)
  <2> SUFFICES ASSUME NEW d \in K, NEW e \in K, NEW i \in DOMAIN new[d], NEW j \in DOMAIN new[e],
                      new[d][i].uuid = m.uuid, new[e][j].uuid = m.uuid
               PROVE  d = e /\ i = j
    BY <1>3 DEF One
  <2>1. \A b \in K : \A k \in DOMAIN channel[b] : channel[b][k].uuid # m.uuid
    BY <1>4, <1>8, UnderWayDef DEF Absent
  <2> QED BY <1>5, <2>1
<1> QED BY <1>3, <1>6, <1>7, <1>8 DEF Kept, Absent, Only

\* A connection that ends takes what was under way with it.
LEMMA Cleared ==
  ASSUME NEW K, NEW M, NEW channel \in [K -> Seq(M)], NEW c \in K,
         NEW new, new = [channel EXCEPT ![c] = <<>>]
  PROVE  new \in [K -> Seq(M)] /\ \A x : Kept(x, channel, new)
<1>1. new \in [K -> Seq(M)] /\ new[c] = <<>> /\ \A d \in K \ {c} : new[d] = channel[d]
  OBVIOUS
<1>2. ASSUME NEW d \in K, NEW i \in 1 .. Len(new[d])
      PROVE  i \in 1 .. Len(channel[d]) /\ new[d][i] = channel[d][i]
  <2>1. d # c
    BY <1>1
  <2> QED BY <1>1, <2>1
<1>3. UnderWay(new) \subseteq UnderWay(channel)
  <2>1. \A m \in UnderWay(new) : \E d \in K : \E i \in 1 .. Len(new[d]) : m = new[d][i]
    BY <1>1 DEF UnderWay, Range
  <2>2. \A d \in K : \A i \in 1 .. Len(channel[d]) : channel[d][i] \in UnderWay(channel)
    BY UnderWayDef
  <2> SUFFICES ASSUME NEW m \in UnderWay(new) PROVE m \in UnderWay(channel)
    OBVIOUS
  <2>3. PICK d \in K : \E i \in 1 .. Len(new[d]) : m = new[d][i]
    BY <2>1
  <2> QED BY <1>2, <2>2, <2>3
<1>4. \A d \in K : DOMAIN channel[d] = 1 .. Len(channel[d]) /\ DOMAIN new[d] = 1 .. Len(new[d])
  BY <1>1
<1>5. ASSUME NEW x, One(x, channel) PROVE One(x, new)
  <2> SUFFICES ASSUME NEW d \in K, NEW e \in K, NEW i \in DOMAIN new[d], NEW j \in DOMAIN new[e],
                      new[d][i].uuid = x, new[e][j].uuid = x
               PROVE  d = e /\ i = j
    BY <1>1 DEF One
  <2> QED BY <1>2, <1>4, <1>5 DEF One
<1> QED BY <1>1, <1>3, <1>5 DEF Kept

\* A channel that is left alone.
LEMMA Same == \A x, channel : Kept(x, channel, channel)
BY DEF Kept

\* Absence is kept.
LEMMA KeptAbsent ==
  ASSUME NEW x, NEW channel, NEW new, Kept(x, channel, new), Absent(x, channel)
  PROVE  Absent(x, new)
BY DEF Kept, Absent

-----------------------------------------------------------------------------
(* Files.                                                                   *)

\* At most one message or block of x on all channels.
Single(x) ==
  /\ One(x, toServer) /\ One(x, toPhone) /\ One(x, blocksIn) /\ One(x, blocksOut)
  /\ \/ Absent(x, toPhone) /\ Absent(x, blocksIn) /\ Absent(x, blocksOut)
     \/ Absent(x, toServer) /\ Absent(x, blocksIn) /\ Absent(x, blocksOut)
     \/ Absent(x, toServer) /\ Absent(x, toPhone) /\ Absent(x, blocksOut)
     \/ Absent(x, toServer) /\ Absent(x, toPhone) /\ Absent(x, blocksIn)

\* Nothing of x came on any channel.
Rest(x) ==
  /\ Kept(x, toServer, toServer') /\ Kept(x, toPhone, toPhone')
  /\ Kept(x, blocksIn, blocksIn') /\ Kept(x, blocksOut, blocksOut')

\* Places, one channel at a time.
LEMMA PlacesOf ==
  ASSUME NEW x, NEW channel
  PROVE  /\ (\A p, q \in Places(x, channel) : p = q) <=> One(x, channel)
         /\ Places(x, channel) = {} <=> Absent(x, channel)
         /\ \A p : p \in Places(x, channel) <=>
              \E c \in DOMAIN channel : \E i \in DOMAIN channel[c] :
                channel[c][i].uuid = x /\ p = <<c, i>>
<1>1. \A p : p \in Places(x, channel) <=>
              \E c \in DOMAIN channel : \E i \in DOMAIN channel[c] :
                channel[c][i].uuid = x /\ p = <<c, i>>
  BY DEF Places
<1>2. (\A p, q \in Places(x, channel) : p = q) => One(x, channel)
  <2> SUFFICES ASSUME \A p, q \in Places(x, channel) : p = q,
                      NEW c \in DOMAIN channel, NEW d \in DOMAIN channel,
                      NEW i \in DOMAIN channel[c], NEW j \in DOMAIN channel[d],
                      channel[c][i].uuid = x, channel[d][j].uuid = x
               PROVE  c = d /\ i = j
    BY DEF One
  <2>1. <<c, i>> \in Places(x, channel) /\ <<d, j>> \in Places(x, channel)
    BY <1>1
  <2>2. <<c, i>> = <<d, j>>
    BY <2>1
  <2> QED BY <2>2
<1>3. One(x, channel) => (\A p, q \in Places(x, channel) : p = q)
  <2> SUFFICES ASSUME One(x, channel), NEW p \in Places(x, channel), NEW q \in Places(x, channel)
               PROVE  p = q
    OBVIOUS
  <2>1. PICK c \in DOMAIN channel : \E i \in DOMAIN channel[c] :
          channel[c][i].uuid = x /\ p = <<c, i>>
    BY <1>1
  <2>2. PICK i \in DOMAIN channel[c] : channel[c][i].uuid = x /\ p = <<c, i>>
    BY <2>1
  <2>3. PICK d \in DOMAIN channel : \E j \in DOMAIN channel[d] :
          channel[d][j].uuid = x /\ q = <<d, j>>
    BY <1>1
  <2>4. PICK j \in DOMAIN channel[d] : channel[d][j].uuid = x /\ q = <<d, j>>
    BY <2>3
  <2> QED BY <2>2, <2>4 DEF One
<1>4. Places(x, channel) = {} <=> Absent(x, channel)
  <2>1. \A m : m \in UnderWay(channel) <=>
          \E c \in DOMAIN channel : \E i \in DOMAIN channel[c] : m = channel[c][i]
    BY DEF UnderWay, Range
  <2>2. Absent(x, channel) <=>
          ~ \E c \in DOMAIN channel : \E i \in DOMAIN channel[c] : channel[c][i].uuid = x
    BY <2>1 DEF Absent
  <2>3. Places(x, channel) = {} <=>
          ~ \E c \in DOMAIN channel : \E i \in DOMAIN channel[c] : channel[c][i].uuid = x
    BY <1>1
  <2> QED BY <2>2, <2>3
<1> QED BY <1>1, <1>2, <1>3, <1>4

\* OneUnderWay, file by file.
LEMMA Singles == OneUnderWay <=> \A x \in Uploads \cup Downloads : Single(x)
<1>1. ASSUME NEW x
      PROVE  Single(x) <=>
               \A k \in DOMAIN netVars : \A p \in Places(x, netVars[k]) :
                 \A l \in DOMAIN netVars : \A q \in Places(x, netVars[l]) : k = l /\ p = q
  <2> DEFINE P(k) == Places(x, netVars[k])
  <2>1. /\ DOMAIN netVars = {1, 2, 3, 4}
        /\ P(1) = Places(x, toServer) /\ P(2) = Places(x, toPhone)
        /\ P(3) = Places(x, blocksIn) /\ P(4) = Places(x, blocksOut)
    BY DEF netVars
  <2>2. Single(x) <=>
          /\ \A k \in {1, 2, 3, 4} : \A p, q \in P(k) : p = q
          /\ \/ P(2) = {} /\ P(3) = {} /\ P(4) = {}
             \/ P(1) = {} /\ P(3) = {} /\ P(4) = {}
             \/ P(1) = {} /\ P(2) = {} /\ P(4) = {}
             \/ P(1) = {} /\ P(2) = {} /\ P(3) = {}
    BY <2>1, PlacesOf DEF Single
  <2> HIDE DEF P
  <2>3. (\A k \in {1, 2, 3, 4} : \A p \in P(k) : \A l \in {1, 2, 3, 4} : \A q \in P(l) :
           k = l /\ p = q) <=>
          /\ \A k \in {1, 2, 3, 4} : \A p, q \in P(k) : p = q
          /\ \/ P(2) = {} /\ P(3) = {} /\ P(4) = {}
             \/ P(1) = {} /\ P(3) = {} /\ P(4) = {}
             \/ P(1) = {} /\ P(2) = {} /\ P(4) = {}
             \/ P(1) = {} /\ P(2) = {} /\ P(3) = {}
    <3>1. (\A k, l \in {1, 2, 3, 4} : k # l => P(k) = {} \/ P(l) = {}) <=>
             \/ P(2) = {} /\ P(3) = {} /\ P(4) = {}
             \/ P(1) = {} /\ P(3) = {} /\ P(4) = {}
             \/ P(1) = {} /\ P(2) = {} /\ P(4) = {}
             \/ P(1) = {} /\ P(2) = {} /\ P(3) = {}
      OBVIOUS
    <3>2. (\A k \in {1, 2, 3, 4} : \A p \in P(k) : \A l \in {1, 2, 3, 4} : \A q \in P(l) :
             k = l /\ p = q) <=>
             /\ \A k \in {1, 2, 3, 4} : \A p, q \in P(k) : p = q
             /\ \A k, l \in {1, 2, 3, 4} : k # l => P(k) = {} \/ P(l) = {}
      OBVIOUS
    <3> QED BY <3>1, <3>2
  <2> QED BY <2>1, <2>2, <2>3 DEF P
<1> QED BY <1>1 DEF OneUnderWay

\* A file nothing came of keeps what is known of it.
LEMMA SingleKept == ASSUME NEW x, Single(x), Rest(x) PROVE Single(x)'
BY DEF Single, Rest, Kept, Absent

\* What is known of an upload stays, when a step leaves it alone.
LEMMA UploadKept ==
  ASSUME NEW u, UploadInv(u), Rest(u),
         m_ReceiveFileMap'[u] = m_ReceiveFileMap[u], upload'[u] = upload[u]
  PROVE  UploadInv(u)'
BY DEF UploadInv, Rest, Kept, Absent, BlockAt, Bytes

\* What is known of a download stays, when a step leaves it alone.
LEMMA DownloadKept ==
  ASSUME NEW f, DownloadInv(f), Rest(f), downloaded'[f] = downloaded[f],
         f \in m_SendFileMap' <=> f \in m_SendFileMap, f \in picked' <=> f \in picked
  PROVE  DownloadInv(f)'
BY DEF DownloadInv, Rest, Kept, Absent, BlockAt, Bytes

-----------------------------------------------------------------------------
(* The session.                                                             *)

\* What the session guarantees the transfers.
SessionInv == S!TypeOK /\ (m_DataSocket # Null => conn[m_DataSocket] # "new")

\* The steps of the session.
SessionSteps ==
  \/ \E c \in Controls : S!ControlConnects(c) \/ S!ControlDisconnects(c)
  \/ \E d \in Datas : S!DataConnects(d) \/ S!DataDisconnects(d)
  \/ \E s \in Controls \cup Datas : S!DeleteSocket(s)
  \/ S!OnLogin \/ S!OnLogout

\* A step of the session keeps its types, and a data socket it stores is one
\* that was accepted.
LEMMA SessionStep == ASSUME SessionInv, SessionSteps PROVE SessionInv'
<1> USE FileAssumption DEF SessionInv, S!TypeOK, S!Connections
<1>1. ASSUME NEW c \in Controls, S!ControlConnects(c) PROVE SessionInv'
  BY <1>1 DEF S!ControlConnects, S!DoOnConnected
<1>2. ASSUME NEW c \in Controls, S!ControlDisconnects(c) PROVE SessionInv'
  <2>1. \/ m_ControlSocket' = m_ControlSocket /\ m_DataSocket' = m_DataSocket /\ uiQueue' = uiQueue
        \/ m_ControlSocket' = Null /\ m_DataSocket' = Null /\ uiQueue' = Append(uiQueue, "OnDisConnected")
    BY <1>2 DEF S!ControlDisconnects, S!DoOnDisConnected
  <2>2. /\ conn' \in [Controls \cup Datas -> {"new", "open", "closed", "deleted"}]
        /\ window' \in {"LoginView", "Widget"}
        /\ m_DataSocket # Null => conn'[m_DataSocket] # "new"
    BY <1>2 DEF S!ControlDisconnects
  <2>3. m_ControlSocket' \in Controls \cup {Null} /\ m_DataSocket' \in Datas \cup {Null}
    BY <2>1
  <2>4. uiQueue' \in Seq({"OnConnected", "OnDisConnected"})
    BY <2>1
  <2>5. m_DataSocket' # Null => conn'[m_DataSocket'] # "new"
    BY <2>1, <2>2, Zenon
  <2> QED BY <2>2, <2>3, <2>4, <2>5
<1>3. ASSUME NEW d \in Datas, S!DataConnects(d) PROVE SessionInv'
  BY <1>3 DEF S!DataConnects, S!DoOnConnected
<1>4. ASSUME NEW d \in Datas, S!DataDisconnects(d) PROVE SessionInv'
  BY <1>4 DEF S!DataDisconnects
<1>5. ASSUME NEW s \in Controls \cup Datas, S!DeleteSocket(s) PROVE SessionInv'
  BY <1>5 DEF S!DeleteSocket
<1>6. CASE S!OnLogin
  BY <1>6 DEF S!OnLogin
<1>7. CASE S!OnLogout
  BY <1>7 DEF S!OnLogout
<1> QED BY <1>1, <1>2, <1>3, <1>4, <1>5, <1>6, <1>7 DEF SessionSteps

\* A step that leaves the session alone.
LEMMA SessionSame == ASSUME SessionInv, UNCHANGED sessionVars PROVE SessionInv'
BY DEF SessionInv, sessionVars, S!TypeOK, S!Connections

-----------------------------------------------------------------------------
(* The invariant in parts.                                                  *)

\* The types of the four channels.
NetTypes ==
  /\ toServer \in [Controls -> Seq(Message)] /\ toPhone \in [Controls -> Seq(Message)]
  /\ blocksIn \in [Datas -> Seq(Block)] /\ blocksOut \in [Datas -> Seq(Block)]

\* The types of contexts, files and what the phone knows.
FileTypes ==
  /\ m_ReceiveFileMap \in [Uploads -> Context \cup {Null}]
  /\ disk \in [Names -> Seq(Byte \cup {Gap})]
  /\ m_SendFileMap \subseteq Downloads /\ picked \subseteq Downloads
  /\ upload \in [Uploads -> {"idle", "offered", "done"}]
  /\ downloaded \in [Downloads -> Seq(Nat)]

\* What is known of each file.
FilesInv ==
  /\ \A x \in Uploads \cup Downloads : Single(x)
  /\ \A u \in Uploads : UploadInv(u)
  /\ \A f \in Downloads : DownloadInv(f)

\* What may have gone wrong, and since when.
TroubleInv == trouble \in {"none", "assert", "dangling"} /\ TroubleNeedsLoss

\* IInv in these parts.
LEMMA InParts ==
  IInv <=> SessionInv /\ NetTypes /\ FileTypes /\ FilesInv /\ FilesArePrefixes /\ TroubleInv
BY Singles DEF IInv, SessionInv, NetTypes, FileTypes, FilesInv, TroubleInv, TypeOK

\* The last but one: what is on either side's disk.
LEMMA PrefixesSame ==
  ASSUME FilesArePrefixes, UNCHANGED <<fileVars, downloaded>>
  PROVE  FilesArePrefixes'
BY DEF FilesArePrefixes, AtItsPlace, fileVars, Shares, Image, Bytes

\* Steps that take from the channels at most.
LEMMA FilesSame ==
  ASSUME FilesInv, \A x : Rest(x), UNCHANGED <<fileVars, m_SendFileMap, picked, phoneVars>>
  PROVE  FilesInv'
BY SingleKept, UploadKept, DownloadKept DEF FilesInv, fileVars, phoneVars

\* The steps of the session.
LEMMA SessionStepKeeps ==
  ASSUME IInv, trouble = "none",
         Connects \/ (\E c \in Controls : ControlLost(c)) \/ (\E d \in Datas : DataLost(d))
  PROVE  IInv'
<1> USE DEF netVars, fileVars, phoneVars
<1>1. /\ SessionSteps
      /\ UNCHANGED <<fileVars, m_SendFileMap, picked, phoneVars, trouble>>
  BY DEF SessionSteps, Connects, ControlLost, DataLost
<1>2. NetTypes
  BY InParts
<1>3. NetTypes' /\ \A x : Rest(x)
  <2>1. CASE Connects
    BY <1>2, <2>1, Same DEF Connects, NetTypes, Rest
  <2>2. ASSUME NEW c \in Controls, ControlLost(c) PROVE NetTypes' /\ \A x : Rest(x)
    BY <1>2, <2>2, Same, Cleared DEF ControlLost, NetTypes, Rest
  <2>3. ASSUME NEW d \in Datas, DataLost(d) PROVE NetTypes' /\ \A x : Rest(x)
    BY <1>2, <2>3, Same, Cleared DEF DataLost, NetTypes, Rest
  <2> QED BY <2>1, <2>2, <2>3
<1>4. SessionInv' /\ FileTypes' /\ FilesInv' /\ FilesArePrefixes'
  BY <1>1, <1>3, InParts, SessionStep, FilesSame, PrefixesSame DEF FileTypes
<1>5. TroubleInv'
  BY <1>1 DEF TroubleInv, TroubleNeedsLoss
<1> QED BY <1>3, <1>4, <1>5, InParts, PTL

-----------------------------------------------------------------------------
(* What the handlers do with messages, blocks and files.                    *)

\* The block at a position ends where a step of Transfer does.
LEMMA BlockIs ==
  ASSUME NEW x \in Uploads \cup Downloads, NEW pos \in Nat
  PROVE  /\ BlockAt(x, pos) \in Block /\ BlockAt(x, pos).uuid = x
         /\ \E n \in Nat :
              /\ BlockAt(x, pos).data = Bytes(pos, n)
              /\ pos <= FileSize[x] =>
                   pos + n = IF pos + BLOCK_SIZE < FileSize[x] THEN pos + BLOCK_SIZE ELSE FileSize[x]
<1> DEFINE left == FileSize[x] - pos
           least == IF left < BLOCK_SIZE THEN left ELSE BLOCK_SIZE
           n == IF least < 0 THEN 0 ELSE least
<1>1. left \in Int /\ BLOCK_SIZE \in Nat \ {0} /\ FileSize[x] \in Nat
  BY FileAssumption
<1>2. n \in Nat
  BY <1>1
<1>3. BlockAt(x, pos) = [uuid |-> x, data |-> Bytes(pos, n)]
  BY DEF BlockAt
<1>4. Bytes(pos, n) \in Seq(Nat)
  BY <1>2 DEF Bytes
<1>5. pos <= FileSize[x] =>
        pos + n = IF pos + BLOCK_SIZE < FileSize[x] THEN pos + BLOCK_SIZE ELSE FileSize[x]
  BY <1>1
<1> QED BY <1>2, <1>3, <1>4, <1>5 DEF Block

\* Each byte of a file that was written to is the old one, one of u's, or a
\* gap.
Adds(u, content, written, lost) ==
  \A i \in DOMAIN written :
    \/ written[i] = <<u, lost + i>> \/ written[i] = Gap
    \/ i \in DOMAIN content /\ written[i] = content[i]

\* Writing bytes of u at its end makes a file longer, and at their place keeps
\* an image an image; whatever was there, nothing but these bytes is added.
LEMMA WrittenIs ==
  ASSUME NEW u \in Uploads, NEW pos \in Nat, NEW from \in Nat, NEW n \in Nat, pos <= from,
         NEW content \in Seq(Byte \cup {Gap}),
         NEW written, written = Written(content, pos, u, Bytes(from, n))
  PROVE  /\ written \in Seq(Byte \cup {Gap})
         /\ Len(content) = pos => Len(written) = pos + n
         /\ from = pos /\ content = Image(u, pos) => written = Image(u, pos + n)
         /\ Adds(u, content, written, from - pos)
<1> DEFINE data == Bytes(from, n)
           end == pos + n
           length == IF data # <<>> /\ end > Len(content) THEN end ELSE Len(content)
           result == [i \in 1 .. length |->
                         IF i \in pos + 1 .. end THEN <<u, data[i - pos]>>
                         ELSE IF i <= Len(content) THEN content[i] ELSE Gap]
<1>1. /\ data \in Seq(Nat) /\ Len(data) = n /\ (data = <<>> <=> n = 0)
      /\ \A j \in 1 .. n : data[j] = from + j
  BY DEF Bytes
<1>2. written = result
  BY <1>1 DEF Written
<1> HIDE DEF data
<1>3. Len(content) \in Nat /\ length \in Nat /\ DOMAIN result = 1 .. length
  BY <1>1
<1>4. ASSUME NEW i \in 1 .. length
      PROVE  IF i \in pos + 1 .. end THEN result[i] = <<u, (from - pos) + i>>
             ELSE IF i <= Len(content) THEN result[i] = content[i] ELSE result[i] = Gap
  <2>1. i \in pos + 1 .. end => data[i - pos] = (from - pos) + i
    <3>1. i \in pos + 1 .. end => i - pos \in 1 .. n /\ from + (i - pos) = (from - pos) + i
      BY <1>3
    <3> QED BY <1>1, <3>1
  <2> QED BY <2>1
<1>5. \A i \in 1 .. length : result[i] \in Byte \cup {Gap}
  <2> SUFFICES ASSUME NEW i \in 1 .. length PROVE result[i] \in Byte \cup {Gap}
    OBVIOUS
  <2>1. i \in Nat /\ (i <= Len(content) => content[i] \in Byte \cup {Gap})
    BY <1>3
  <2>2. <<u, (from - pos) + i>> \in Byte
    BY <2>1 DEF Byte
  <2> QED BY <1>4, <2>1, <2>2
<1>6. result \in Seq(Byte \cup {Gap})
  <2>1. result \in [1 .. length -> Byte \cup {Gap}]
    BY <1>5
  <2> HIDE DEF result
  <2> QED BY <1>3, <2>1
<1>7. Len(content) = pos => Len(result) = end
  <2>1. Len(result) = length
    BY <1>3, <1>6
  <2> HIDE DEF result
  <2> QED BY <1>1, <2>1
<1>8. ASSUME from = pos, content = Image(u, pos) PROVE result = Image(u, end)
  <2>1. /\ Len(content) = pos /\ length = end
        /\ \A i \in 1 .. pos : content[i] = <<u, i>>
    BY <1>1, <1>8 DEF Image
  <2>2. \A i \in 1 .. end : result[i] = <<u, i>>
    <3> SUFFICES ASSUME NEW i \in 1 .. end PROVE result[i] = <<u, i>>
      OBVIOUS
    <3>1. i \in 1 .. length /\ (i \in pos + 1 .. end \/ i \in 1 .. pos)
      BY <2>1
    <3> HIDE DEF length, result
    <3>2. (from - pos) + i = i
      BY <1>8
    <3> QED BY <1>4, <2>1, <3>1, <3>2
  <2> HIDE DEF length
  <2>3. result = [i \in 1 .. end |-> result[i]]
    BY <2>1
  <2> HIDE DEF result
  <2> QED BY <2>2, <2>3 DEF Image
<1>9. ASSUME NEW i \in DOMAIN result
      PROVE  \/ result[i] = <<u, (from - pos) + i>> \/ result[i] = Gap
             \/ i \in DOMAIN content /\ result[i] = content[i]
  <2>1. i \in 1 .. length /\ DOMAIN content = 1 .. Len(content)
    BY <1>3
  <2> HIDE DEF result
  <2>2. i <= Len(content) => i \in DOMAIN content
    BY <1>3, <2>1
  <2> QED BY <1>4, <2>1, <2>2
<1> QED BY <1>2, <1>6, <1>8, <1>9, <1>7 DEF Adds

\* A channel without x.
LEMMA AbsentOnly ==
  ASSUME NEW K, NEW M, NEW channel \in [K -> Seq(M)], NEW x, Absent(x, channel)
  PROVE  One(x, channel) /\ \A m : Only(x, channel, m)
<1>1. \A c \in K : \A i \in DOMAIN channel[c] : channel[c][i] \in UnderWay(channel)
  BY DEF UnderWay, Range
<1> QED BY <1>1 DEF Absent, One, Only

\* What all of a file's messages and blocks are after one was put where there
\* was none.
Sole(x, m) ==
  \/ Only(x, toServer, m) /\ Absent(x, toPhone) /\ Absent(x, blocksIn) /\ Absent(x, blocksOut)
  \/ Absent(x, toServer) /\ Only(x, toPhone, m) /\ Absent(x, blocksIn) /\ Absent(x, blocksOut)
  \/ Absent(x, toServer) /\ Absent(x, toPhone) /\ Only(x, blocksIn, m) /\ Absent(x, blocksOut)
  \/ Absent(x, toServer) /\ Absent(x, toPhone) /\ Absent(x, blocksIn) /\ Only(x, blocksOut, m)

\* Who is alone on one channel is alone on all.
LEMMA SoleSingle == NetTypes => \A x, m : Sole(x, m) => Single(x)
<1> SUFFICES ASSUME NetTypes, NEW x, NEW m, Sole(x, m) PROVE Single(x)
  OBVIOUS
<1>1. /\ Absent(x, toServer) => One(x, toServer)
      /\ Absent(x, toPhone) => One(x, toPhone)
      /\ Absent(x, blocksIn) => One(x, blocksIn)
      /\ Absent(x, blocksOut) => One(x, blocksOut)
  BY AbsentOnly DEF NetTypes
<1> QED BY <1>1 DEF Single, Only, Sole

\* The same of the state after a step.
LEMMA SoleSingleNext == (NetTypes => \A x, m : Sole(x, m) => Single(x))'
BY SoleSingle, PTL

\* A message is on its way to the phone or its connection ended; a pointer to
\* it may dangle only then.
LEMMA Sent ==
  ASSUME NetTypes, trouble = "none", NEW s \in Controls, NEW type, NEW x, NEW pos,
         sendMessage(s, type, x, pos), [type |-> type, uuid |-> x, pos |-> pos] \in Message,
         Absent(x, toPhone)
  PROVE  /\ toPhone' \in [Controls -> Seq(Message)]
         /\ \A y : y # x => Kept(y, toPhone, toPhone')
         /\ Only(x, toPhone', [type |-> type, uuid |-> x, pos |-> pos])
         /\ trouble' \in {"none", "dangling"} /\ (trouble' # "none" => conn[s] = "deleted")
<1> DEFINE m == [type |-> type, uuid |-> x, pos |-> pos]
<1>1. CASE conn[s] = "open"
  <2>1. toPhone' = [toPhone EXCEPT ![s] = Append(@, m)] /\ m.uuid = x
    BY <1>1 DEF sendMessage
  <2>2. trouble' = "none"
    BY <1>1 DEF sendMessage
  <2> HIDE DEF m
  <2>3. m \in Message
    BY DEF m
  <2>4. /\ toPhone' \in [Controls -> Seq(Message)]
        /\ \A y : y # m.uuid => Kept(y, toPhone, toPhone')
        /\ Absent(m.uuid, toPhone) => Only(m.uuid, toPhone', m)
    <3>1. toPhone \in [Controls -> Seq(Message)]
      BY DEF NetTypes
    <3>2. Writing(toPhone, s, m, toPhone')
      BY <2>1 DEF Writing
    <3> QED BY <2>3, <3>1, <3>2, Put
  <2> QED BY <2>1, <2>2, <2>4 DEF m
<1>2. CASE conn[s] # "open"
  <2>1. toPhone' = toPhone
    BY <1>2 DEF sendMessage
  <2>2. trouble' \in {"none", "dangling"} /\ (trouble' # "none" => conn[s] = "deleted")
    BY DEF sendMessage
  <2>3. Only(x, toPhone, m)
    BY AbsentOnly DEF NetTypes
  <2> QED BY <2>1, <2>2, <2>3, Same DEF NetTypes
<1> QED BY <1>1, <1>2

\* The parts of the invariant after a step about file y.
Others(y) ==
  \A x \in Uploads \cup Downloads : x # y =>
    /\ Rest(x)
    /\ x \in Uploads => m_ReceiveFileMap'[x] = m_ReceiveFileMap[x] /\ upload'[x] = upload[x]
    /\ x \in Downloads =>
         /\ downloaded'[x] = downloaded[x]
         /\ x \in m_SendFileMap' <=> x \in m_SendFileMap
         /\ x \in picked' <=> x \in picked

\* A step that has to do with one file needs to be looked at for that file.
LEMMA FilesStep ==
  ASSUME FilesInv, NEW y, Others(y), Single(y)',
         y \in Uploads => UploadInv(y)', y \in Downloads => DownloadInv(y)'
  PROVE  FilesInv'
<1>1. \A x \in Uploads \cup Downloads : Single(x)'
  BY SingleKept DEF FilesInv, Others
<1>2. \A u \in Uploads : UploadInv(u)'
  BY UploadKept DEF FilesInv, Others
<1>3. \A f \in Downloads : DownloadInv(f)'
  BY DownloadKept DEF FilesInv, Others
<1> QED BY <1>1, <1>2, <1>3 DEF FilesInv

\* A step in which nothing goes wrong, and one in which a pointer turns out to
\* be stale.
LEMMA TroubleStep ==
  ASSUME NEW s \in Controls \cup Datas, UNCHANGED conn,
         trouble' \in {"none", "assert", "dangling"},
         trouble' # "none" => conn[s] \in {"closed", "deleted"}
  PROVE  TroubleInv'
BY DEF TroubleInv, TroubleNeedsLoss, Lost

\* A step in which nothing goes wrong.
LEMMA NoTrouble == ASSUME trouble' = "none" PROVE TroubleInv'
BY DEF TroubleInv, TroubleNeedsLoss

\* What is known of the file of a message or block under way: it is one of the
\* files, and nothing else of it is under way.
LEMMA Alone ==
  ASSUME IInv, NEW x \in Uploads \cup Downloads
  PROVE  /\ Single(x)
         /\ ~Absent(x, toServer) => Absent(x, toPhone) /\ Absent(x, blocksIn) /\ Absent(x, blocksOut)
         /\ ~Absent(x, toPhone) => Absent(x, toServer) /\ Absent(x, blocksIn) /\ Absent(x, blocksOut)
         /\ ~Absent(x, blocksIn) => Absent(x, toServer) /\ Absent(x, toPhone) /\ Absent(x, blocksOut)
         /\ ~Absent(x, blocksOut) => Absent(x, toServer) /\ Absent(x, toPhone) /\ Absent(x, blocksIn)
BY InParts DEF FilesInv, Single

\* A message the server reads.
LEMMA ServerGets ==
  ASSUME IInv, NEW c \in Controls, NEW type, Reads(c, type)
  PROVE  \E m \in Message :
           /\ m = Head(toServer[c]) /\ m.type = type /\ m \in UnderWay(toServer)
           /\ toServer' \in [Controls -> Seq(Message)]
           /\ \A x : Kept(x, toServer, toServer')
           /\ Absent(m.uuid, toServer') /\ Absent(m.uuid, toPhone)
           /\ Absent(m.uuid, blocksIn) /\ Absent(m.uuid, blocksOut)
<1> DEFINE m == Head(toServer[c])
<1>1. NetTypes
  BY InParts
<1>2. toServer \in [Controls -> Seq(Message)] /\ Reading(toServer, c, toServer')
  BY <1>1 DEF NetTypes, Reads, Reading
<1>3. /\ toServer' \in [Controls -> Seq(Message)]
      /\ m \in Message /\ m \in UnderWay(toServer)
      /\ \A x : Kept(x, toServer, toServer')
      /\ One(m.uuid, toServer) => Absent(m.uuid, toServer')
  BY <1>2, Taken
<1>4. m.uuid \in Uploads \cup Downloads /\ ~Absent(m.uuid, toServer)
  BY <1>3 DEF Message, Absent
<1>5. One(m.uuid, toServer)
  BY <1>4, Alone DEF Single
<1> QED BY <1>3, <1>4, <1>5, Alone DEF Reads

\* A message the phone reads.
LEMMA PhoneGets ==
  ASSUME IInv, NEW c \in Controls, Reading(toPhone, c, toPhone')
  PROVE  \E m \in Message :
           /\ m = Head(toPhone[c]) /\ m \in UnderWay(toPhone)
           /\ toPhone' \in [Controls -> Seq(Message)]
           /\ \A x : Kept(x, toPhone, toPhone')
           /\ Absent(m.uuid, toServer) /\ Absent(m.uuid, toPhone')
           /\ Absent(m.uuid, blocksIn) /\ Absent(m.uuid, blocksOut)
<1> DEFINE m == Head(toPhone[c])
<1>1. NetTypes
  BY InParts
<1>2. toPhone \in [Controls -> Seq(Message)]
  BY <1>1 DEF NetTypes
<1>3. /\ toPhone' \in [Controls -> Seq(Message)]
      /\ m \in Message /\ m \in UnderWay(toPhone)
      /\ \A x : Kept(x, toPhone, toPhone')
      /\ One(m.uuid, toPhone) => Absent(m.uuid, toPhone')
  BY <1>2, Taken
<1>4. m.uuid \in Uploads \cup Downloads /\ ~Absent(m.uuid, toPhone)
  BY <1>3 DEF Message, Absent
<1>5. One(m.uuid, toPhone)
  BY <1>4, Alone DEF Single
<1> QED BY <1>3, <1>4, <1>5, Alone

\* A block the server reads: it is one of an upload.
LEMMA ServerGetsBlock ==
  ASSUME IInv, NEW d \in Datas, Reading(blocksIn, d, blocksIn')
  PROVE  \E b \in Block :
           /\ b = Head(blocksIn[d]) /\ b \in UnderWay(blocksIn) /\ b.uuid \in Uploads
           /\ blocksIn' \in [Datas -> Seq(Block)]
           /\ \A x : Kept(x, blocksIn, blocksIn')
           /\ Absent(b.uuid, toServer) /\ Absent(b.uuid, toPhone)
           /\ Absent(b.uuid, blocksIn') /\ Absent(b.uuid, blocksOut)
<1> DEFINE b == Head(blocksIn[d])
<1>1. NetTypes
  BY InParts
<1>2. blocksIn \in [Datas -> Seq(Block)]
  BY <1>1 DEF NetTypes
<1>3. /\ blocksIn' \in [Datas -> Seq(Block)]
      /\ b \in Block /\ b \in UnderWay(blocksIn)
      /\ \A x : Kept(x, blocksIn, blocksIn')
      /\ One(b.uuid, blocksIn) => Absent(b.uuid, blocksIn')
  BY <1>2, Taken
<1>4. b.uuid \in Uploads \cup Downloads /\ ~Absent(b.uuid, blocksIn)
  BY <1>3 DEF Block, Absent
<1>5. One(b.uuid, blocksIn)
  BY <1>4, Alone DEF Single
<1>6. b.uuid \in Uploads
  BY <1>4, InParts DEF FilesInv, DownloadInv
<1> QED BY <1>3, <1>4, <1>5, <1>6, Alone

\* A block the phone reads: it is one of a download.
LEMMA PhoneGetsBlock ==
  ASSUME IInv, NEW d \in Datas, Reading(blocksOut, d, blocksOut')
  PROVE  \E b \in Block :
           /\ b = Head(blocksOut[d]) /\ b \in UnderWay(blocksOut) /\ b.uuid \in Downloads
           /\ blocksOut' \in [Datas -> Seq(Block)]
           /\ \A x : Kept(x, blocksOut, blocksOut')
           /\ Absent(b.uuid, toServer) /\ Absent(b.uuid, toPhone)
           /\ Absent(b.uuid, blocksIn) /\ Absent(b.uuid, blocksOut')
<1> DEFINE b == Head(blocksOut[d])
<1>1. NetTypes
  BY InParts
<1>2. blocksOut \in [Datas -> Seq(Block)]
  BY <1>1 DEF NetTypes
<1>3. /\ blocksOut' \in [Datas -> Seq(Block)]
      /\ b \in Block /\ b \in UnderWay(blocksOut)
      /\ \A x : Kept(x, blocksOut, blocksOut')
      /\ One(b.uuid, blocksOut) => Absent(b.uuid, blocksOut')
  BY <1>2, Taken
<1>4. b.uuid \in Uploads \cup Downloads /\ ~Absent(b.uuid, blocksOut)
  BY <1>3 DEF Block, Absent
<1>5. One(b.uuid, blocksOut)
  BY <1>4, Alone DEF Single
<1>6. b.uuid \in Downloads
  BY <1>4, InParts DEF FilesInv, UploadInv
<1> QED BY <1>3, <1>4, <1>5, <1>6, Alone

\* A file of the disk that is written to, or begun, for upload u.
Stores(u, context, content) ==
  /\ m_ReceiveFileMap' = [m_ReceiveFileMap EXCEPT ![u] = context]
  /\ disk' = [disk EXCEPT ![FileName[u]] = content]

\* A file that is written by its upload is a prefix again, if all of it was
\* written, and other files stay; the bytes others wrote to it are among those
\* that were there.
LEMMA DiskStep ==
  ASSUME FileTypes, FilesArePrefixes, NEW u \in Uploads, NEW context, context # Null,
         NEW content \in Seq(Byte \cup {Gap}),
         Stores(u, context, content), UNCHANGED downloaded,
         ~Shares(u) =>
           /\ Len(content) = context.written
           /\ context.written = context.receivedSize => content = Image(u, context.receivedSize),
         \A i \in DOMAIN content : content[i] # Gap =>
           IF content[i][1] = u
             THEN content[i][2] >= i /\ (context.written = context.receivedSize => content[i][2] = i)
             ELSE i \in DOMAIN disk[FileName[u]] /\ content[i] = disk[FileName[u]][i]
  PROVE  FilesArePrefixes'
<1>1. /\ m_ReceiveFileMap'[u] = context
      /\ \A v \in Uploads \ {u} : m_ReceiveFileMap'[v] = m_ReceiveFileMap[v]
  BY DEF FileTypes, Stores
<1>2. /\ disk'[FileName[u]] = content
      /\ \A n \in Names \ {FileName[u]} : disk'[n] = disk[n]
      /\ \A v \in Uploads : FileName[v] \in Names
  BY DEF FileTypes, Names, Stores
<1>3. ASSUME NEW v \in Uploads, m_ReceiveFileMap'[v] # Null, ~Shares(v)'
      PROVE  /\ Len(disk'[FileName[v]]) = m_ReceiveFileMap'[v].written
             /\ m_ReceiveFileMap'[v].written = m_ReceiveFileMap'[v].receivedSize =>
                  disk'[FileName[v]] = Image(v, m_ReceiveFileMap'[v].receivedSize)
  <2>1. ~Shares(v)
    BY <1>1, <1>3 DEF Shares
  <2>2. CASE v = u
    BY <1>1, <1>2, <2>1, <2>2
  <2>3. CASE v # u
    <3>1. FileName[v] # FileName[u]
      BY <1>1, <1>3, <2>3 DEF Shares
    <3> QED BY <1>1, <1>2, <1>3, <2>1, <2>3, <3>1 DEF FilesArePrefixes
  <2> QED BY <2>2, <2>3
<1>4. ASSUME NEW n \in Names, NEW i \in DOMAIN disk'[n], disk'[n][i] # Gap
      PROVE  AtItsPlace(disk[n][i], n, i)'
  <2>1. PICK byte : byte = disk'[n][i]
    OBVIOUS
  <2>4. AtItsPlace(disk[n][i], n, i)' <=>
          /\ FileName[byte[1]] = n /\ byte[2] >= i
          /\ m_ReceiveFileMap'[byte[1]] # Null
          /\ m_ReceiveFileMap'[byte[1]].written = m_ReceiveFileMap'[byte[1]].receivedSize => byte[2] = i
    BY <2>1 DEF AtItsPlace
  <2>2. CASE n = FileName[u] /\ byte[1] = u
    BY <1>1, <1>2, <1>4, <2>1, <2>2, <2>4
  <2>3. CASE ~(n = FileName[u] /\ byte[1] = u)
    <3>1. i \in DOMAIN disk[n] /\ byte = disk[n][i]
      BY <1>2, <1>4, <2>1, <2>3
    <3>2. AtItsPlace(byte, n, i) /\ byte # Gap
      BY <1>4, <2>1, <3>1 DEF FilesArePrefixes
    <3>3. byte[1] \in Uploads /\ byte[1] # u
      BY <1>2, <2>3, <3>1, <3>2 DEF AtItsPlace, FileTypes, Byte
    <3>4. m_ReceiveFileMap'[byte[1]] = m_ReceiveFileMap[byte[1]]
      BY <1>1, <3>3
    <3> QED BY <2>4, <3>2, <3>4 DEF AtItsPlace
  <2> QED BY <2>2, <2>3
<1> QED BY <1>3, <1>4 DEF FilesArePrefixes, Image, Bytes

-----------------------------------------------------------------------------
(* The handlers of the server.                                              *)

\* An offer read is that of an upload without a context.
LEMMA OnSendFileKeeps ==
  ASSUME IInv, trouble = "none", NEW c \in Controls, OnSendFile(c)
  PROVE  /\ IInv'
         /\ UNCHANGED upload
         /\ \/ UNCHANGED m_ReceiveFileMap
            \/ \E u \in Uploads :
                 /\ m_ReceiveFileMap[u] = Null /\ upload[u] = "offered"
                 /\ m_ReceiveFileMap' = [m_ReceiveFileMap EXCEPT ![u] =
                        [receivedSize |-> 0, written |-> 0, controlSocket |-> c, complete |-> FALSE]]
<1> USE DEF fileVars, phoneVars
<1>1. PICK m \in Message :
        /\ m = Head(toServer[c]) /\ m.type = "SendFile" /\ m \in UnderWay(toServer)
        /\ toServer' \in [Controls -> Seq(Message)]
        /\ \A x : Kept(x, toServer, toServer')
        /\ Absent(m.uuid, toServer') /\ Absent(m.uuid, toPhone)
        /\ Absent(m.uuid, blocksIn) /\ Absent(m.uuid, blocksOut)
  BY ServerGets DEF OnSendFile
<1> DEFINE u == m.uuid
           ack == [type |-> "AckSendFile", uuid |-> u, pos |-> 0]
           begun == [receivedSize |-> 0, written |-> 0, controlSocket |-> c, complete |-> FALSE]
<1>2. SessionInv /\ NetTypes /\ FileTypes /\ FilesInv /\ FilesArePrefixes
  BY InParts
<1>3. u \in Uploads /\ UploadInv(u) /\ m_ReceiveFileMap[u] = Null /\ upload[u] = "offered"
  <2>1. u \in Uploads \cup Downloads /\ ~Absent(u, toServer)
    BY <1>1 DEF Message, Absent
  <2>2. u \notin Downloads
    BY <1>1, <1>2 DEF FilesInv, DownloadInv
  <2>3. UploadInv(u)
    BY <1>2, <2>1, <2>2 DEF FilesInv
  <2>4. upload[u] \in {"idle", "offered", "done"}
    BY <1>2, <2>1, <2>2 DEF FileTypes
  <2> QED BY <1>1, <2>1, <2>2, <2>3, <2>4 DEF UploadInv
<1>4. willReceiveFile(u, c) /\ sendMessage(c, "AckSendFile", u, 0)
  BY <1>1 DEF OnSendFile
<1>5. UNCHANGED <<sessionVars, blocksIn, blocksOut, m_SendFileMap, picked, phoneVars>>
  BY DEF OnSendFile
<1>6. /\ toPhone' \in [Controls -> Seq(Message)]
      /\ \A y : y # u => Kept(y, toPhone, toPhone')
      /\ Only(u, toPhone', ack)
      /\ trouble' \in {"none", "dangling"} /\ (trouble' # "none" => conn[c] = "deleted")
  <2>1. ack \in Message
    BY <1>3 DEF Message
  <2> QED BY <1>1, <1>2, <1>4, <2>1, Sent
<1> HIDE DEF u
<1>7. NetTypes'
  BY <1>1, <1>2, <1>5, <1>6 DEF NetTypes
<1>8. \/ UNCHANGED fileVars
      \/ /\ m_ReceiveFileMap' = [m_ReceiveFileMap EXCEPT ![u] = begun]
         /\ disk' = [disk EXCEPT ![FileName[u]] = <<>>]
  BY <1>4 DEF willReceiveFile
<1>9. begun \in Context /\ begun # Null
  <2>1. begun \in Context
    BY DEF Context
  <2> QED BY <2>1, FileAssumption
<1>10. FileTypes'
  <2>1. <<>> \in Seq(Byte \cup {Gap})
    OBVIOUS
  <2>2. m_ReceiveFileMap' \in [Uploads -> Context \cup {Null}]
    BY <1>2, <1>8, <1>9 DEF FileTypes, fileVars
  <2>3. disk' \in [Names -> Seq(Byte \cup {Gap})]
    BY <1>2, <1>8, <2>1 DEF FileTypes, fileVars
  <2> QED BY <1>2, <1>5, <2>2, <2>3 DEF FileTypes
<1>11. FilesInv'
  <2>1. Others(u)
    BY <1>1, <1>2, <1>3, <1>5, <1>6, <1>8, Same DEF Others, Rest, FileTypes
  <2>2. Absent(u, toServer)' /\ Only(u, toPhone, ack)' /\ Absent(u, blocksIn)' /\ Absent(u, blocksOut)'
    BY <1>1, <1>5, <1>6 DEF u
  <2>3. Single(u)'
    BY <1>7, <2>2, SoleSingleNext DEF Sole
  <2>4. m_ReceiveFileMap'[u] \in {Null, begun} /\ upload'[u] = "offered"
    BY <1>2, <1>3, <1>5, <1>8 DEF FileTypes
  <2>5. UploadInv(u)'
    BY <1>9, <2>2, <2>4 DEF UploadInv, Absent, Only
  <2> QED BY <1>2, <1>3, <2>1, <2>3, <2>5, FileAssumption, FilesStep
<1>12. FilesArePrefixes'
  <2>1. CASE UNCHANGED fileVars
    BY <1>2, <1>5, <2>1, PrefixesSame
  <2>2. CASE /\ m_ReceiveFileMap' = [m_ReceiveFileMap EXCEPT ![u] = begun]
             /\ disk' = [disk EXCEPT ![FileName[u]] = <<>>]
    <3>1. /\ <<>> = Image(u, begun.receivedSize) /\ Len(<<>>) = begun.written /\ DOMAIN <<>> = {}
          /\ <<>> \in Seq(Byte \cup {Gap})
      BY DEF Image
    <3>2. u \in Uploads
      BY <1>3 DEF u
    <3>3. Stores(u, begun, <<>>)
      BY <2>2 DEF Stores
    <3> HIDE DEF begun
    <3> QED BY <1>2, <1>5, <1>9, <3>1, <3>2, <3>3, DiskStep
  <2> QED BY <1>8, <2>1, <2>2
<1>13. SessionInv' /\ TroubleInv'
  BY <1>2, <1>5, <1>6, SessionSame, TroubleStep DEF sessionVars
<1>14. IInv'
  BY <1>7, <1>10, <1>11, <1>12, <1>13, InParts, PTL
<1> QED BY <1>3, <1>5, <1>8, <1>14 DEF u

\* A request for the next block of a download, or nothing is sent.
LEMMA OnAckSendFileKeeps ==
  ASSUME IInv, trouble = "none", NEW c \in Controls, OnAckSendFile(c)
  PROVE  IInv'
<1> USE DEF fileVars, phoneVars
<1>1. PICK m \in Message :
        /\ m = Head(toServer[c]) /\ m.type = "AckSendFile" /\ m \in UnderWay(toServer)
        /\ toServer' \in [Controls -> Seq(Message)]
        /\ \A x : Kept(x, toServer, toServer')
        /\ Absent(m.uuid, toServer') /\ Absent(m.uuid, toPhone)
        /\ Absent(m.uuid, blocksIn) /\ Absent(m.uuid, blocksOut)
  BY ServerGets DEF OnAckSendFile
<1> DEFINE f == m.uuid
           block == BlockAt(f, m.pos)
<1>2. SessionInv /\ NetTypes /\ FileTypes /\ FilesInv /\ FilesArePrefixes
  BY InParts
<1>3. /\ UNCHANGED <<sessionVars, toPhone, blocksIn, fileVars, m_SendFileMap, picked, phoneVars>>
      /\ \/ f \in m_SendFileMap /\ WriteBlock(block)
         \/ UNCHANGED <<blocksOut, trouble>>
  BY <1>1 DEF OnAckSendFile
<1>4. SessionInv' /\ FileTypes' /\ FilesArePrefixes'
  BY <1>2, <1>3, SessionSame, PrefixesSame DEF FileTypes
<1>5. CASE UNCHANGED <<blocksOut, trouble>>
  <2>1. NetTypes' /\ \A x : Rest(x)
    BY <1>1, <1>2, <1>3, <1>5, Same DEF NetTypes, Rest
  <2>2. FilesInv'
    BY <1>2, <1>3, <2>1, FilesSame
  <2>3. TroubleInv'
    BY <1>5, NoTrouble
  <2> QED BY <1>4, <2>1, <2>2, <2>3, InParts, PTL
<1>6. CASE f \in m_SendFileMap /\ WriteBlock(block) /\ ~UNCHANGED <<blocksOut, trouble>>
  <2>1. m_DataSocket \in Datas /\ conn[m_DataSocket] \in {"open", "closed", "deleted"}
    BY <1>2, <1>6 DEF SessionInv, S!TypeOK, S!Connections, WriteBlock
  <2>2. f \in Downloads /\ DownloadInv(f) /\ m.pos = Len(downloaded[f])
    BY <1>1, <1>2, <1>6 DEF FilesInv, FileTypes, DownloadInv
  <2>3. block \in Block /\ block.uuid = f
    BY <2>2, BlockIs DEF Message
  <2> HIDE DEF f, block
  <2>4. /\ blocksOut' \in [Datas -> Seq(Block)]
        /\ \A x : x # f => Kept(x, blocksOut, blocksOut')
        /\ Only(f, blocksOut', block)
        /\ trouble' \in {"none", "assert", "dangling"}
        /\ trouble' # "none" => conn[m_DataSocket] \in {"closed", "deleted"}
    <3>1. blocksOut \in [Datas -> Seq(Block)] /\ Absent(f, blocksOut)
      BY <1>1, <1>2 DEF NetTypes, f
    <3>2. CASE conn[m_DataSocket] = "open"
      <4>1. Writing(blocksOut, m_DataSocket, block, blocksOut') /\ trouble' = "none"
        BY <1>6, <2>1, <3>2, FileAssumption DEF WriteBlock, Writing
      <4> QED BY <2>1, <2>3, <3>1, <4>1, Put
    <3>3. CASE conn[m_DataSocket] # "open"
      <4>1. blocksOut' = blocksOut
        BY <1>6, <3>3 DEF WriteBlock
      <4>2. trouble' \in {"assert", "dangling"}
        BY <1>6, <2>1, <3>3, FileAssumption DEF WriteBlock
      <4>3. Only(f, blocksOut, block)
        BY <3>1, AbsentOnly
      <4> QED BY <2>1, <3>1, <3>3, <4>1, <4>2, <4>3, Same
    <3> QED BY <3>2, <3>3
  <2>5. NetTypes'
    BY <1>1, <1>2, <1>3, <2>4 DEF NetTypes
  <2>6. Others(f)
    BY <1>1, <1>3, <2>4, Same DEF Others, Rest
  <2>7. Absent(f, toServer)' /\ Absent(f, toPhone)' /\ Absent(f, blocksIn)' /\ Only(f, blocksOut, block)'
    BY <1>1, <1>3, <2>4 DEF f, block, BlockAt, Bytes
  <2>8. Single(f)'
    BY <2>5, <2>7, SoleSingleNext DEF Sole
  <2>9. DownloadInv(f)'
    <3>1. block = BlockAt(f, Len(downloaded[f]))
      BY <2>2 DEF block
    <3> QED BY <1>3, <1>6, <2>2, <2>7, <3>1 DEF DownloadInv, Absent, Only, f, BlockAt, Bytes
  <2>10. FilesInv' /\ TroubleInv'
    BY <1>2, <1>3, <2>1, <2>2, <2>4, <2>6, <2>8, <2>9, FileAssumption, FilesStep, TroubleStep DEF sessionVars
  <2> QED BY <1>4, <2>5, <2>10, InParts, PTL
<1> QED BY <1>3, <1>5, <1>6

\* The end of a download is only noted.
LEMMA OnAckSendCompleteKeeps ==
  ASSUME IInv, trouble = "none", NEW c \in Controls, OnAckSendComplete(c)
  PROVE  IInv'
<1> USE DEF fileVars, phoneVars
<1>1. toServer' \in [Controls -> Seq(Message)] /\ \A x : Kept(x, toServer, toServer')
  BY ServerGets DEF OnAckSendComplete
<1>2. SessionInv /\ NetTypes /\ FileTypes /\ FilesInv /\ FilesArePrefixes
  BY InParts
<1>3. UNCHANGED <<sessionVars, toPhone, blocksIn, blocksOut, fileVars, m_SendFileMap, picked,
                  phoneVars, trouble>>
  BY DEF OnAckSendComplete
<1>4. NetTypes' /\ \A x : Rest(x)
  BY <1>1, <1>2, <1>3, Same DEF NetTypes, Rest
<1>5. SessionInv' /\ FileTypes' /\ FilesInv' /\ FilesArePrefixes' /\ TroubleInv'
  BY <1>2, <1>3, <1>4, SessionSame, FilesSame, PrefixesSame, NoTrouble DEF FileTypes
<1> QED BY <1>4, <1>5, InParts, PTL

\* The context after a block.
LEMMA ReceivedIs ==
  ASSUME NEW u \in Uploads, NEW old \in Context, NEW data \in Seq(Nat), NEW n \in Nat
  PROVE  LET new == Received(old, u, data, n)
         IN  /\ new \in Context /\ new # Null
             /\ new.receivedSize = old.receivedSize + Len(data) /\ new.written = old.written + n
             /\ new.controlSocket = old.controlSocket
             /\ new.complete <=> old.receivedSize + Len(data) >= FileSize[u]
<1> DEFINE size == old.receivedSize + Len(data)
           new == [old EXCEPT !.receivedSize = size, !.written = @ + n, !.complete = size >= FileSize[u]]
<1>1. size \in Nat /\ old.receivedSize \in Nat /\ old.written \in Nat /\ old.controlSocket \in Controls /\ FileSize[u] \in Nat
  BY FileAssumption DEF Context
<1>2. (size >= FileSize[u]) \in BOOLEAN
  BY <1>1
<1>3. PICK full \in BOOLEAN : full = (size >= FileSize[u])
  BY <1>2
<1>w. PICK written \in Nat : written = old.written + n
  BY <1>1
<1>4. new = [old EXCEPT !.receivedSize = size, !.written = written, !.complete = full]
  BY <1>3, <1>w
<1>5. /\ new \in Context /\ new.receivedSize = size /\ new.written = old.written + n
      /\ new.controlSocket = old.controlSocket
      /\ new.complete = full
  BY <1>1, <1>4, <1>w DEF Context
<1>6. new # Null
  BY <1>5, FileAssumption
<1>7. Received(old, u, data, n) = new
  BY DEF Received
<1> HIDE DEF new
<1> QED BY <1>3, <1>5, <1>6, <1>7

\* A context takes the n bytes of a block, writes k of them, becomes new, and
\* answers type.
TakesBlock(old, u, n, k, new, type) ==
  /\ old \in Context /\ ~old.complete /\ old.written <= old.receivedSize
  /\ old.receivedSize + n = IF old.receivedSize + BLOCK_SIZE < FileSize[u]
                              THEN old.receivedSize + BLOCK_SIZE ELSE FileSize[u]
  /\ new # Null /\ new.receivedSize = old.receivedSize + n
  /\ k <= n /\ new.written = old.written + k
  /\ new.complete <=> old.receivedSize + n = FileSize[u]
  /\ type = "AckSendComplete" <=> new.complete
  /\ disk' = [disk EXCEPT ![FileName[u]] =
                 Written(disk[FileName[u]], old.written, u, Bytes(old.receivedSize, k))]
  /\ m_ReceiveFileMap' = [m_ReceiveFileMap EXCEPT ![u] = new]
  /\ sendMessage(old.controlSocket, type, u, old.receivedSize + n)

\* A block read is the one its context waits for; the context takes it whole
\* and says so.
LEMMA BlockTaken ==
  ASSUME IInv, NEW d \in Datas, OnReadData(d), NEW b, b = Head(blocksIn[d]),
         b \in UnderWay(blocksIn), NEW u \in Uploads, b.uuid = u,
         NEW old, old = m_ReceiveFileMap[u]
  PROVE  /\ old = Null => UNCHANGED <<toPhone, fileVars, trouble>>
         /\ old # Null => \E n, k \in Nat, new \in Context, type \in {"AckSendFile", "AckSendComplete"} :
                            TakesBlock(old, u, n, k, new, type)
<1> DEFINE pos == old.receivedSize
<1>1. CASE old = Null
  BY <1>1 DEF OnReadData
<1>2. CASE old # Null
  <2>1. FileTypes /\ UploadInv(u)
    BY InParts DEF FilesInv
  <2>2. old \in Context
    BY <1>2, <2>1 DEF FileTypes
  <2>3. ~old.complete /\ b = BlockAt(u, pos) /\ (pos = 0 \/ pos < FileSize[u]) /\ old.written <= pos
    BY <1>2, <2>1 DEF UploadInv
  <2>4. pos \in Nat /\ FileSize[u] \in Nat /\ pos <= FileSize[u] /\ BLOCK_SIZE \in Nat \ {0}
    BY <2>2, <2>3, FileAssumption DEF Context
  <2>5. PICK n \in Nat :
          /\ b.data = Bytes(pos, n)
          /\ pos + n = IF pos + BLOCK_SIZE < FileSize[u] THEN pos + BLOCK_SIZE ELSE FileSize[u]
    BY <2>3, <2>4, BlockIs
  <2>6. Len(b.data) = n /\ b.data \in Seq(Nat)
    BY <2>4, <2>5 DEF Bytes
  <2>7. PICK k \in 0 .. Len(b.data) :
           LET context == Received(old, u, b.data, k)
           IN  /\ disk' = [disk EXCEPT ![FileName[u]] = Written(@, old.written, u, SubSeq(b.data, 1, k))]
               /\ m_ReceiveFileMap' = [m_ReceiveFileMap EXCEPT ![u] = context]
               /\ sendMessage(context.controlSocket,
                              IF context.complete THEN "AckSendComplete" ELSE "AckSendFile",
                              u, context.receivedSize)
    BY <1>2, <2>3 DEF OnReadData
  <2>8. k \in Nat /\ k <= n /\ SubSeq(b.data, 1, k) = Bytes(pos, k)
    <3>1. k \in Nat /\ k <= n
      BY <2>6
    <3>2. SubSeq(Bytes(pos, n), 1, k) = Bytes(pos, k)
      BY <3>1 DEF Bytes
    <3> QED BY <2>5, <3>1, <3>2
  <2>9. PICK new : new = Received(old, u, b.data, k)
    OBVIOUS
  <2>10. /\ new \in Context /\ new # Null /\ new.receivedSize = pos + n /\ new.written = old.written + k
        /\ new.controlSocket = old.controlSocket /\ (new.complete <=> pos + n >= FileSize[u])
    BY <2>2, <2>6, <2>9, <2>8, ReceivedIs
  <2>11. new.complete <=> pos + n = FileSize[u]
    BY <2>4, <2>5, <2>10
  <2>12. PICK type \in {"AckSendFile", "AckSendComplete"} :
           type = IF new.complete THEN "AckSendComplete" ELSE "AckSendFile"
    OBVIOUS
  <2>13. /\ disk' = [disk EXCEPT ![FileName[u]] =
                        Written(disk[FileName[u]], old.written, u, Bytes(pos, k))]
         /\ m_ReceiveFileMap' = [m_ReceiveFileMap EXCEPT ![u] = new]
         /\ sendMessage(new.controlSocket, type, u, new.receivedSize)
    BY <2>9, <2>12, <2>7, <2>8
  <2>14. sendMessage(old.controlSocket, type, u, pos + n)
    BY <2>10, <2>13
  <2>15. TakesBlock(old, u, n, k, new, type)
    BY <2>2, <2>3, <2>5, <2>10, <2>11, <2>12, <2>13, <2>14, <2>8 DEF TakesBlock
  <2> QED BY <1>2, <2>8, <2>10, <2>15
<1> QED BY <1>1, <1>2

\* A block read is acknowledged with what its context says then.
LEMMA OnReadDataKeeps ==
  ASSUME IInv, trouble = "none", NEW d \in Datas, OnReadData(d)
  PROVE  IInv'
<1> USE DEF fileVars, phoneVars
<1>1. PICK b \in Block :
        /\ b = Head(blocksIn[d]) /\ b \in UnderWay(blocksIn) /\ b.uuid \in Uploads
        /\ blocksIn' \in [Datas -> Seq(Block)]
        /\ \A x : Kept(x, blocksIn, blocksIn')
        /\ Absent(b.uuid, toServer) /\ Absent(b.uuid, toPhone)
        /\ Absent(b.uuid, blocksIn') /\ Absent(b.uuid, blocksOut)
  BY ServerGetsBlock DEF OnReadData, Reading
<1>u. PICK u \in Uploads : u = b.uuid
  BY <1>1
<1>o. PICK old : old = m_ReceiveFileMap[u]
  OBVIOUS
<1>2. SessionInv /\ NetTypes /\ FileTypes /\ FilesInv /\ FilesArePrefixes
  BY InParts
<1>3. UNCHANGED <<sessionVars, toServer, blocksOut, m_SendFileMap, picked, phoneVars>>
  BY DEF OnReadData
<1>4. SessionInv'
  BY <1>2, <1>3, SessionSame
<1>5. CASE old = Null
  <2>1. UNCHANGED <<toPhone, fileVars, trouble>>
    BY <1>1, <1>u, <1>o, <1>5, BlockTaken
  <2>2. NetTypes' /\ \A x : Rest(x)
    BY <1>1, <1>2, <1>3, <2>1, Same DEF NetTypes, Rest
  <2>3. FileTypes' /\ FilesInv' /\ FilesArePrefixes' /\ TroubleInv'
    BY <1>2, <1>3, <2>1, <2>2, FilesSame, PrefixesSame, NoTrouble DEF FileTypes
  <2> QED BY <1>4, <2>2, <2>3, InParts, PTL
<1>6. CASE old # Null
  <2> DEFINE pos == old.receivedSize
             size(n) == pos + n
  <2>0. PICK n \in Nat, k \in Nat, new \in Context, type \in {"AckSendFile", "AckSendComplete"} :
          TakesBlock(old, u, n, k, new, type)
    BY <1>1, <1>u, <1>o, <1>6, BlockTaken
  <2>1. /\ old \in Context /\ ~old.complete /\ old.written <= pos
        /\ k <= n /\ new.written = old.written + k
        /\ size(n) = IF pos + BLOCK_SIZE < FileSize[u] THEN pos + BLOCK_SIZE ELSE FileSize[u]
        /\ new # Null /\ new.receivedSize = size(n) /\ (new.complete <=> size(n) = FileSize[u])
        /\ type = "AckSendComplete" <=> new.complete
        /\ disk' = [disk EXCEPT ![FileName[u]] =
                       Written(disk[FileName[u]], old.written, u, Bytes(pos, k))]
        /\ m_ReceiveFileMap' = [m_ReceiveFileMap EXCEPT ![u] = new]
        /\ sendMessage(old.controlSocket, type, u, size(n))
    BY <2>0 DEF TakesBlock
  <2>2. /\ pos \in Nat /\ old.written \in Nat /\ old.controlSocket \in Controls /\ FileSize[u] \in Nat
        /\ BLOCK_SIZE \in Nat \ {0} /\ size(n) \in Nat /\ size(n) <= FileSize[u]
    BY <2>1, FileAssumption DEF Context
  <2>3. PICK ack : ack = [type |-> type, uuid |-> u, pos |-> size(n)]
    OBVIOUS
  <2>4. /\ toPhone' \in [Controls -> Seq(Message)]
        /\ \A y : y # u => Kept(y, toPhone, toPhone')
        /\ Only(u, toPhone', ack)
        /\ trouble' \in {"none", "dangling"}
        /\ trouble' # "none" => conn[old.controlSocket] = "deleted"
    <3>1. ack \in Message
      BY <2>2, <2>3 DEF Message
    <3> HIDE DEF size
    <3> QED BY <1>1, <1>u, <1>2, <2>1, <2>2, <2>3, <3>1, Sent
  <2> HIDE DEF pos, size
  <2>5. NetTypes'
    BY <1>1, <1>2, <1>3, <2>4 DEF NetTypes
  <2>6. m_ReceiveFileMap'[u] = new /\ \A v \in Uploads \ {u} : m_ReceiveFileMap'[v] = m_ReceiveFileMap[v]
    BY <1>2, <2>1 DEF FileTypes
  <2>7. PICK was, content :
          was = disk[FileName[u]] /\ content = Written(was, old.written, u, Bytes(pos, k))
    OBVIOUS
  <2>8. /\ content \in Seq(Byte \cup {Gap})
        /\ Len(was) = old.written => Len(content) = old.written + k
        /\ pos = old.written /\ was = Image(u, old.written) => content = Image(u, old.written + k)
        /\ \A i \in DOMAIN content :
             \/ content[i] = <<u, (pos - old.written) + i>> \/ content[i] = Gap
             \/ i \in DOMAIN was /\ content[i] = was[i]
        /\ FileName[u] \in Names
    <3>1. FileName[u] \in Names /\ was \in Seq(Byte \cup {Gap})
      BY <1>2, <2>7 DEF FileTypes, Names
    <3>2. PICK at \in Nat : at = old.written
      BY <2>2
    <3>3. pos \in Nat /\ at <= pos /\ content = Written(was, at, u, Bytes(pos, k))
      BY <2>1, <2>2, <2>7, <3>2
    <3>4. /\ content \in Seq(Byte \cup {Gap})
          /\ Len(was) = at => Len(content) = at + k
          /\ pos = at /\ was = Image(u, at) => content = Image(u, at + k)
          /\ Adds(u, was, content, pos - at)
      BY <3>1, <3>3, WrittenIs
    <3> QED BY <3>1, <3>2, <3>4 DEF Adds
  <2>9. new.written = new.receivedSize => pos = old.written /\ k = n
    BY <2>1, <2>2 DEF size
  <2>10. disk' = [disk EXCEPT ![FileName[u]] = content]
    BY <2>1, <2>7
  <2>11. FileTypes'
    BY <1>2, <1>3, <2>1, <2>8, <2>10 DEF FileTypes
  <2>12. FilesArePrefixes'
    <3>1. ASSUME ~Shares(u)
          PROVE  /\ Len(content) = new.written
                 /\ new.written = new.receivedSize => content = Image(u, new.receivedSize)
      <4>1. Len(was) = old.written /\ (old.written = pos => was = Image(u, pos))
        BY <1>2, <1>o, <1>6, <2>7, <3>1 DEF FilesArePrefixes, pos
      <4> QED BY <2>1, <2>8, <2>9, <4>1 DEF size
    <3>2. ASSUME NEW i \in DOMAIN content, content[i] # Gap
          PROVE  IF content[i][1] = u
                   THEN content[i][2] >= i /\ (new.written = new.receivedSize => content[i][2] = i)
                   ELSE i \in DOMAIN was /\ content[i] = was[i]
      <4>1. CASE content[i] = <<u, (pos - old.written) + i>>
        <5>1. i \in Nat
          BY <2>8
        <5>2. (pos - old.written) + i >= i /\ (pos = old.written => (pos - old.written) + i = i)
          BY <2>1, <2>2, <5>1
        <5> QED BY <2>9, <4>1, <5>2
      <4>2. CASE i \in DOMAIN was /\ content[i] = was[i]
        <5>1. AtItsPlace(was[i], FileName[u], i)
          BY <1>2, <2>7, <2>8, <3>2, <4>2 DEF FilesArePrefixes
        <5>2. was[i][1] = u => was[i][2] >= i /\ (old.written = pos => was[i][2] = i)
          BY <1>o, <5>1 DEF AtItsPlace, pos
        <5> QED BY <2>9, <4>2, <5>2
      <4> QED BY <2>8, <3>2, <4>1, <4>2
    <3>3. Stores(u, new, content) /\ UNCHANGED downloaded
      BY <1>3, <2>1, <2>10 DEF Stores
    <3> QED BY <1>2, <2>1, <2>7, <2>8, <3>1, <3>2, <3>3, DiskStep
  <2>13. FilesInv'
    <3>1. Others(u)
      BY <1>1, <1>u, <1>2, <1>3, <2>4, <2>6, Same DEF Others, Rest, FileTypes
    <3>2. Absent(u, toServer)' /\ Only(u, toPhone, ack)' /\ Absent(u, blocksIn)' /\ Absent(u, blocksOut)'
      BY <1>1, <1>u, <1>3, <2>4
    <3>3. Single(u)'
      BY <2>5, <3>2, SoleSingleNext DEF Sole
    <3>4. UploadInv(u)'
      <4>1. upload'[u] = upload[u] /\ upload[u] # "idle" /\ upload[u] # "done"
        <5>1. ~Absent(u, blocksIn)
          BY <1>1, <1>u DEF Absent
        <5> QED BY <1>o, <1>2, <1>3, <2>1, <5>1 DEF FilesInv, UploadInv
      <4>2. ack.type # "SendFile" /\ ack.pos = size(n) /\ (ack.type = "AckSendComplete" <=> new.complete)
        BY <2>1, <2>3
      <4>3. /\ IF new.complete THEN size(n) = FileSize[u] ELSE size(n) < FileSize[u]
            /\ new.written <= size(n)
        BY <2>1, <2>2 DEF size
      <4> QED BY <2>1, <2>6, <3>2, <4>1, <4>2, <4>3 DEF UploadInv, Absent, Only
    <3> QED BY <1>2, <3>1, <3>3, <3>4, FileAssumption, FilesStep
  <2>14. TroubleInv'
    BY <1>3, <2>2, <2>4, TroubleStep DEF sessionVars
  <2> QED BY <1>4, <2>5, <2>11, <2>12, <2>13, <2>14, InParts, PTL
<1> QED BY <1>5, <1>6

\* A file picked is not yet known to the server thread.
LEMMA PickFileKeeps ==
  ASSUME IInv, trouble = "none", NEW f \in Downloads, PickFile(f)
  PROVE  IInv'
<1> USE DEF fileVars, phoneVars, netVars
<1>1. SessionInv /\ NetTypes /\ FileTypes /\ FilesInv /\ FilesArePrefixes
  BY InParts
<1>2. /\ UNCHANGED <<sessionVars, netVars, fileVars, m_SendFileMap, phoneVars, trouble>>
      /\ f \notin m_SendFileMap /\ picked' = picked \cup {f}
  BY DEF PickFile
<1>3. NetTypes' /\ FileTypes' /\ \A x : Rest(x)
  BY <1>1, <1>2, Same DEF NetTypes, FileTypes, Rest
<1>4. Single(f)' /\ DownloadInv(f)' /\ Others(f)
  <2>1. Single(f) /\ DownloadInv(f)
    BY <1>1 DEF FilesInv
  <2>2. Single(f)'
    BY <1>3, <2>1, SingleKept
  <2>3. DownloadInv(f)'
    BY <1>2, <2>1 DEF DownloadInv, Absent, UnderWay, BlockAt, Bytes
  <2> QED BY <1>2, <1>3, <2>2, <2>3 DEF Others
<1>5. FilesInv'
  BY <1>1, <1>4, FileAssumption, FilesStep
<1>6. SessionInv' /\ FilesArePrefixes' /\ TroubleInv'
  BY <1>1, <1>2, SessionSame, PrefixesSame, NoTrouble
<1> QED BY <1>3, <1>5, <1>6, InParts, PTL

\* A download is offered when nothing of it is under way, or it is dropped.
LEMMA SendFileKeeps ==
  ASSUME IInv, trouble = "none", NEW f \in Downloads, SendFile(f)
  PROVE  IInv'
<1> USE DEF fileVars, phoneVars
<1>1. SessionInv /\ NetTypes /\ FileTypes /\ FilesInv /\ FilesArePrefixes
  BY InParts
<1>2. /\ f \in picked /\ picked' = picked \ {f}
      /\ m_SendFileMap' \in {m_SendFileMap, m_SendFileMap \cup {f}}
      /\ f \notin m_SendFileMap' => UNCHANGED <<toPhone, trouble>>
      /\ UNCHANGED <<sessionVars, toServer, blocksIn, blocksOut, fileVars, phoneVars>>
  BY DEF SendFile
<1>3. /\ DownloadInv(f) /\ Len(downloaded[f]) = 0
      /\ Absent(f, toServer) /\ Absent(f, toPhone) /\ Absent(f, blocksIn) /\ Absent(f, blocksOut)
  BY <1>1, <1>2 DEF FilesInv, DownloadInv
<1>4. PICK m : m = [type |-> "SendFile", uuid |-> f, pos |-> 0]
  OBVIOUS
<1>5. /\ toPhone' \in [Controls -> Seq(Message)]
      /\ \A y : y # f => Kept(y, toPhone, toPhone')
      /\ Only(f, toPhone', m) /\ (f \notin m_SendFileMap' => Absent(f, toPhone'))
      /\ TroubleInv'
  <2>1. CASE UNCHANGED <<toPhone, trouble>>
    <3>1. toPhone' = toPhone /\ trouble' = "none"
      BY <2>1
    <3>2. Only(f, toPhone, m)
      BY <1>1, <1>3, AbsentOnly DEF NetTypes
    <3> QED BY <1>1, <1>3, <3>1, <3>2, Same, NoTrouble DEF NetTypes
  <2>2. CASE ~UNCHANGED <<toPhone, trouble>>
    <3>0. m_ControlSocket # Null /\ f \in m_SendFileMap'
      BY <2>2 DEF SendFile
    <3>1. m_ControlSocket \in Controls
      BY <1>1, <3>0 DEF SessionInv, S!TypeOK
    <3>2. m \in Message
      BY <1>4 DEF Message
    <3>3. sendMessage(m_ControlSocket, "SendFile", f, 0)
      BY <2>2, <3>0 DEF SendFile
    <3>4. /\ toPhone' \in [Controls -> Seq(Message)]
          /\ \A y : y # f => Kept(y, toPhone, toPhone')
          /\ Only(f, toPhone', m)
          /\ trouble' \in {"none", "dangling"} /\ (trouble' # "none" => conn[m_ControlSocket] = "deleted")
      BY <1>1, <1>3, <1>4, <3>1, <3>2, <3>3, Sent
    <3> QED BY <1>2, <3>0, <3>1, <3>4, TroubleStep DEF sessionVars
  <2> QED BY <2>1, <2>2
<1>6. NetTypes' /\ FileTypes'
  BY <1>1, <1>2, <1>5 DEF NetTypes, FileTypes
<1>7. Others(f)
  BY <1>2, <1>5, Same DEF Others, Rest
<1>8. Absent(f, toServer)' /\ Only(f, toPhone, m)' /\ Absent(f, blocksIn)' /\ Absent(f, blocksOut)'
  BY <1>2, <1>3, <1>5
<1>9. Single(f)'
  BY <1>6, <1>8, SoleSingleNext DEF Sole
<1>10. DownloadInv(f)'
  BY <1>2, <1>3, <1>4, <1>5, <1>8 DEF DownloadInv, Absent, Only
<1>11. FilesInv'
  BY <1>1, <1>7, <1>9, <1>10, FileAssumption, FilesStep
<1>12. SessionInv' /\ FilesArePrefixes'
  BY <1>1, <1>2, SessionSame, PrefixesSame
<1> QED BY <1>5, <1>6, <1>11, <1>12, InParts, PTL

-----------------------------------------------------------------------------
(* The phone.                                                               *)

\* Sending where nothing of the file was.
LEMMA PutOnly ==
  ASSUME NEW K, NEW M, NEW channel \in [K -> Seq(M)], NEW c \in K, NEW m \in M, NEW x, m.uuid = x,
         NEW new, Writing(channel, c, m, new), Absent(x, channel)
  PROVE  /\ new \in [K -> Seq(M)]
         /\ \A y : y # x => Kept(y, channel, new)
         /\ Only(x, new, m)
BY Put

\* A message of the phone's is all there is of its file.
LEMMA PhoneSent ==
  ASSUME NetTypes, NEW c \in Controls, NEW type, NEW x, NEW pos, NEW m \in Message,
         m = [type |-> type, uuid |-> x, pos |-> pos],
         Sends(c, type, x, pos), Absent(x, toServer)
  PROVE  /\ toServer' \in [Controls -> Seq(Message)]
         /\ \A y : y # x => Kept(y, toServer, toServer')
         /\ Only(x, toServer', m)
<1>1. Writing(toServer, c, m, toServer') /\ m.uuid = x
  BY DEF Writing, Sends
<1>2. toServer \in [Controls -> Seq(Message)]
  BY DEF NetTypes
<1> QED BY <1>1, <1>2, PutOnly

\* An upload is offered once.
LEMMA OfferFileKeeps ==
  ASSUME IInv, trouble = "none", NEW u \in Uploads, OfferFile(u)
  PROVE  IInv'
<1> USE DEF fileVars, phoneVars
<1>1. SessionInv /\ NetTypes /\ FileTypes /\ FilesInv /\ FilesArePrefixes
  BY InParts
<1>2. /\ upload[u] = "idle" /\ upload' = [upload EXCEPT ![u] = "offered"]
      /\ UNCHANGED <<sessionVars, toPhone, blocksIn, blocksOut, fileVars, m_SendFileMap, picked,
                     downloaded, trouble>>
  BY DEF OfferFile
<1>3. /\ m_ReceiveFileMap[u] = Null
      /\ Absent(u, toServer) /\ Absent(u, toPhone) /\ Absent(u, blocksIn) /\ Absent(u, blocksOut)
  BY <1>1, <1>2 DEF FilesInv, UploadInv
<1>4. PICK m \in Message : m = [type |-> "SendFile", uuid |-> u, pos |-> 0]
  BY DEF Message
<1>5. /\ toServer' \in [Controls -> Seq(Message)]
      /\ \A y : y # u => Kept(y, toServer, toServer')
      /\ Only(u, toServer', m)
  <2>1. PICK c \in Controls : Sends(c, "SendFile", u, 0)
    BY DEF OfferFile
  <2> QED BY <1>1, <1>3, <1>4, <2>1, PhoneSent
<1>6. NetTypes' /\ FileTypes'
  BY <1>1, <1>2, <1>5 DEF NetTypes, FileTypes
<1>7. Others(u)
  BY <1>1, <1>2, <1>5, Same DEF Others, Rest, FileTypes
<1>8. Only(u, toServer, m)' /\ Absent(u, toPhone)' /\ Absent(u, blocksIn)' /\ Absent(u, blocksOut)'
  BY <1>2, <1>3, <1>5
<1>9. Single(u)'
  BY <1>6, <1>8, SoleSingleNext DEF Sole
<1>10. UploadInv(u)'
  <2>1. upload'[u] = "offered"
    BY <1>1, <1>2 DEF FileTypes
  <2> QED BY <1>2, <1>3, <1>4, <1>8, <2>1 DEF UploadInv, Absent, Only
<1>11. FilesInv'
  BY <1>1, <1>7, <1>9, <1>10, FileAssumption, FilesStep
<1>12. SessionInv' /\ FilesArePrefixes' /\ TroubleInv'
  BY <1>1, <1>2, SessionSame, PrefixesSame, NoTrouble
<1> QED BY <1>6, <1>11, <1>12, InParts, PTL

\* An acknowledgement is answered with the block it asks for.
LEMMA PhoneReadsAckKeeps ==
  ASSUME IInv, trouble = "none", NEW c \in Controls, PhoneReads(c),
         Head(toPhone[c]).type = "AckSendFile"
  PROVE  IInv'
<1> USE DEF fileVars, phoneVars
<1>1. PICK m \in Message :
        /\ m = Head(toPhone[c]) /\ m \in UnderWay(toPhone)
        /\ toPhone' \in [Controls -> Seq(Message)]
        /\ \A x : Kept(x, toPhone, toPhone')
        /\ Absent(m.uuid, toServer) /\ Absent(m.uuid, toPhone')
        /\ Absent(m.uuid, blocksIn) /\ Absent(m.uuid, blocksOut)
  BY PhoneGets DEF PhoneReads, Reading
<1>2. SessionInv /\ NetTypes /\ FileTypes /\ FilesInv /\ FilesArePrefixes
  BY InParts
<1>3. PICK u : u = m.uuid
  OBVIOUS
<1>4. u \in Uploads /\ UploadInv(u) /\ ~Absent(u, toPhone) /\ m.pos \in Nat
  <2>1. m.uuid \in Uploads \cup Downloads /\ m.pos \in Nat
    BY DEF Message
  <2> QED BY <1>1, <1>2, <1>3, <2>1 DEF FilesInv, DownloadInv, Absent
<1>5. PICK b : b = BlockAt(u, m.pos)
  OBVIOUS
<1>6. b \in Block /\ b.uuid = u
  BY <1>4, <1>5, BlockIs
<1>7. UNCHANGED <<sessionVars, toServer, blocksOut, fileVars, m_SendFileMap, picked, phoneVars, trouble>>
  BY <1>1 DEF PhoneReads
<1>8. /\ blocksIn' \in [Datas -> Seq(Block)]
      /\ \A y : y # u => Kept(y, blocksIn, blocksIn')
      /\ Only(u, blocksIn', b)
  <2>1. PICK d \in Datas : blocksIn' = [blocksIn EXCEPT ![d] = Append(@, BlockAt(m.uuid, m.pos))]
    BY <1>1 DEF PhoneReads
  <2>2. blocksIn \in [Datas -> Seq(Block)] /\ Writing(blocksIn, d, b, blocksIn')
    BY <1>2, <1>3, <1>5, <2>1 DEF NetTypes, Writing
  <2> QED BY <1>1, <1>3, <1>6, <2>2, Put
<1>9. NetTypes' /\ FileTypes'
  BY <1>1, <1>2, <1>7, <1>8 DEF NetTypes, FileTypes
<1>10. Others(u)
  BY <1>1, <1>7, <1>8, Same DEF Others, Rest
<1>11. Absent(u, toServer)' /\ Absent(u, toPhone)' /\ Only(u, blocksIn, b)' /\ Absent(u, blocksOut)'
  BY <1>1, <1>3, <1>7, <1>8
<1>12. Single(u)'
  BY <1>9, <1>11, SoleSingleNext DEF Sole
<1>13. UploadInv(u)'
  <2>1. upload[u] # "idle"
    BY <1>4 DEF UploadInv
  <2>2. PICK context : context = m_ReceiveFileMap[u] /\ context = m_ReceiveFileMap'[u]
    BY <1>7
  <2>3. context # Null => ~context.complete /\ b = BlockAt(u, context.receivedSize)
    BY <1>1, <1>3, <1>4, <1>5, <2>2 DEF UploadInv
  <2>4. context # Null =>
          IF context.complete THEN context.receivedSize = FileSize[u]
          ELSE context.receivedSize = 0 \/ context.receivedSize < FileSize[u]
    BY <1>4, <2>2 DEF UploadInv
  <2>5. upload'[u] # "idle" /\ (upload'[u] = "done" => context # Null /\ context.complete)
    BY <1>4, <1>7, <2>1, <2>2 DEF UploadInv
  <2>6. context # Null => context.written <= context.receivedSize
    BY <1>4, <2>2 DEF UploadInv
  <2> QED BY <1>11, <2>2, <2>3, <2>4, <2>5, <2>6 DEF UploadInv, Absent, Only, BlockAt, Bytes
<1>14. FilesInv'
  BY <1>2, <1>4, <1>10, <1>12, <1>13, FileAssumption, FilesStep
<1>15. SessionInv' /\ FilesArePrefixes' /\ TroubleInv'
  BY <1>2, <1>7, SessionSame, PrefixesSame, NoTrouble
<1> QED BY <1>9, <1>14, <1>15, InParts, PTL

\* An upload said to be complete is.
LEMMA PhoneReadsCompleteKeeps ==
  ASSUME IInv, trouble = "none", NEW c \in Controls, PhoneReads(c),
         Head(toPhone[c]).type = "AckSendComplete"
  PROVE  /\ IInv'
         /\ \E u \in Uploads :
              /\ m_ReceiveFileMap[u] # Null /\ m_ReceiveFileMap[u].complete
              /\ upload' = [upload EXCEPT ![u] = "done"]
<1> USE DEF fileVars, phoneVars
<1>1. PICK m \in Message :
        /\ m = Head(toPhone[c]) /\ m \in UnderWay(toPhone)
        /\ toPhone' \in [Controls -> Seq(Message)]
        /\ \A x : Kept(x, toPhone, toPhone')
        /\ Absent(m.uuid, toServer) /\ Absent(m.uuid, toPhone')
        /\ Absent(m.uuid, blocksIn) /\ Absent(m.uuid, blocksOut)
  BY PhoneGets DEF PhoneReads, Reading
<1>2. SessionInv /\ NetTypes /\ FileTypes /\ FilesInv /\ FilesArePrefixes
  BY InParts
<1>3. PICK u : u = m.uuid
  OBVIOUS
<1>4. u \in Uploads /\ UploadInv(u) /\ m_ReceiveFileMap[u] # Null /\ m_ReceiveFileMap[u].complete
  <2>1. m.uuid \in Uploads \cup Downloads
    BY DEF Message
  <2>2. u \in Uploads /\ UploadInv(u)
    BY <1>1, <1>2, <1>3, <2>1 DEF FilesInv, DownloadInv
  <2> QED BY <1>1, <1>3, <2>2 DEF UploadInv
<1>5. /\ upload' = [upload EXCEPT ![u] = "done"]
      /\ UNCHANGED <<sessionVars, toServer, blocksIn, blocksOut, fileVars, m_SendFileMap, picked,
                     downloaded, trouble>>
  BY <1>1, <1>3 DEF PhoneReads
<1>6. NetTypes' /\ FileTypes'
  BY <1>1, <1>2, <1>4, <1>5 DEF NetTypes, FileTypes
<1>7. Others(u)
  BY <1>1, <1>2, <1>4, <1>5, Same DEF Others, Rest, FileTypes
<1>8. Absent(u, toServer)' /\ Absent(u, toPhone)' /\ Absent(u, blocksIn)' /\ Absent(u, blocksOut)'
  BY <1>1, <1>3, <1>5
<1>9. Single(u)'
  <2>1. Only(u, toServer, 0)'
    BY <1>6, <1>8, AbsentOnly DEF NetTypes
  <2> QED BY <1>6, <1>8, <2>1, SoleSingleNext DEF Sole
<1>10. UploadInv(u)'
  <2>1. upload'[u] = "done" /\ m_ReceiveFileMap'[u] = m_ReceiveFileMap[u]
    BY <1>2, <1>4, <1>5 DEF FileTypes
  <2>2. m_ReceiveFileMap[u].receivedSize = FileSize[u]
    BY <1>4 DEF UploadInv
  <2>3. m_ReceiveFileMap[u].written <= m_ReceiveFileMap[u].receivedSize
    BY <1>4 DEF UploadInv
  <2> QED BY <1>4, <1>8, <2>1, <2>2, <2>3 DEF UploadInv, Absent
<1>11. FilesInv'
  BY <1>2, <1>4, <1>7, <1>9, <1>10, FileAssumption, FilesStep
<1>12. SessionInv' /\ FilesArePrefixes' /\ TroubleInv'
  BY <1>2, <1>5, SessionSame, PrefixesSame, NoTrouble
<1>13. IInv'
  BY <1>6, <1>11, <1>12, InParts, PTL
<1> QED BY <1>4, <1>5, <1>13

\* An offer is taken while nothing of the file is there.
LEMMA PhoneReadsOfferKeeps ==
  ASSUME IInv, trouble = "none", NEW c \in Controls, PhoneReads(c),
         Head(toPhone[c]).type = "SendFile"
  PROVE  IInv'
<1> USE DEF fileVars, phoneVars
<1>1. PICK m \in Message :
        /\ m = Head(toPhone[c]) /\ m \in UnderWay(toPhone)
        /\ toPhone' \in [Controls -> Seq(Message)]
        /\ \A x : Kept(x, toPhone, toPhone')
        /\ Absent(m.uuid, toServer) /\ Absent(m.uuid, toPhone')
        /\ Absent(m.uuid, blocksIn) /\ Absent(m.uuid, blocksOut)
  BY PhoneGets DEF PhoneReads, Reading
<1>2. SessionInv /\ NetTypes /\ FileTypes /\ FilesInv /\ FilesArePrefixes
  BY InParts
<1>3. PICK f : f = m.uuid
  OBVIOUS
<1>4. f \in Downloads /\ DownloadInv(f) /\ Len(downloaded[f]) = 0 /\ f \in m_SendFileMap
  <2>1. m.uuid \in Uploads \cup Downloads
    BY DEF Message
  <2>2. f \in Downloads /\ DownloadInv(f)
    BY <1>1, <1>2, <1>3, <2>1 DEF FilesInv, UploadInv
  <2> QED BY <1>1, <1>3, <2>2 DEF DownloadInv, Absent
<1>5. PICK ack \in Message : ack = [type |-> "AckSendFile", uuid |-> f, pos |-> 0]
  BY <1>4 DEF Message
<1>6. /\ Sends(c, "AckSendFile", f, 0)
      /\ UNCHANGED <<sessionVars, blocksIn, blocksOut, fileVars, m_SendFileMap, picked, phoneVars, trouble>>
  BY <1>1, <1>3 DEF PhoneReads
<1>7. /\ toServer' \in [Controls -> Seq(Message)]
      /\ \A y : y # f => Kept(y, toServer, toServer')
      /\ Only(f, toServer', ack)
  BY <1>1, <1>2, <1>3, <1>5, <1>6, PhoneSent
<1>8. NetTypes' /\ FileTypes'
  BY <1>1, <1>2, <1>6, <1>7 DEF NetTypes, FileTypes
<1>9. Others(f)
  BY <1>1, <1>6, <1>7, Same DEF Others, Rest
<1>10. Only(f, toServer, ack)' /\ Absent(f, toPhone)' /\ Absent(f, blocksIn)' /\ Absent(f, blocksOut)'
  BY <1>1, <1>3, <1>6, <1>7
<1>11. Single(f)'
  BY <1>8, <1>10, SoleSingleNext DEF Sole
<1>12. DownloadInv(f)'
  BY <1>4, <1>5, <1>6, <1>10 DEF DownloadInv, Absent, Only
<1>13. FilesInv'
  BY <1>2, <1>4, <1>9, <1>11, <1>12, FileAssumption, FilesStep
<1>14. SessionInv' /\ FilesArePrefixes' /\ TroubleInv'
  BY <1>2, <1>6, SessionSame, PrefixesSame, NoTrouble
<1> QED BY <1>8, <1>13, <1>14, InParts, PTL

\* A block read is the one at the end of what the phone has.
LEMMA PhoneReadsBlockKeeps ==
  ASSUME IInv, trouble = "none", NEW d \in Datas, PhoneReadsBlock(d)
  PROVE  IInv'
<1> USE DEF fileVars, phoneVars
<1>1. PICK b \in Block :
        /\ b = Head(blocksOut[d]) /\ b \in UnderWay(blocksOut) /\ b.uuid \in Downloads
        /\ blocksOut' \in [Datas -> Seq(Block)]
        /\ \A x : Kept(x, blocksOut, blocksOut')
        /\ Absent(b.uuid, toServer) /\ Absent(b.uuid, toPhone)
        /\ Absent(b.uuid, blocksIn) /\ Absent(b.uuid, blocksOut')
  BY PhoneGetsBlock DEF PhoneReadsBlock, Reading
<1>2. SessionInv /\ NetTypes /\ FileTypes /\ FilesInv /\ FilesArePrefixes
  BY InParts
<1>3. PICK f \in Downloads : f = b.uuid
  BY <1>1
<1>4. PICK size \in Nat : size = Len(downloaded[f])
  BY <1>2 DEF FileTypes
<1>5. /\ b = BlockAt(f, size) /\ f \in m_SendFileMap
      /\ downloaded[f] = Bytes(0, size) /\ size <= FileSize[f] /\ FileSize[f] \in Nat
  <2>1. DownloadInv(f)
    BY <1>2 DEF FilesInv
  <2> QED BY <1>1, <1>2, <1>3, <1>4, <2>1, FileAssumption DEF DownloadInv, FilesArePrefixes, Absent
<1>6. PICK n \in Nat : b.data = Bytes(size, n) /\ size + n <= FileSize[f]
  <2>1. PICK n \in Nat :
          /\ b.data = Bytes(size, n)
          /\ size + n = IF size + BLOCK_SIZE < FileSize[f] THEN size + BLOCK_SIZE ELSE FileSize[f]
    BY <1>5, BlockIs
  <2>2. BLOCK_SIZE \in Nat
    BY FileAssumption
  <2> QED BY <1>5, <2>1, <2>2
<1>7. PICK got : got = downloaded[f] \o b.data
  OBVIOUS
<1>8. got = Bytes(0, size + n) /\ Len(got) = size + n /\ got \in Seq(Nat)
  <2>1. Bytes(0, size) \o Bytes(size, n) = Bytes(0, size + n)
    BY DEF Bytes
  <2> QED BY <1>5, <1>6, <1>7, <2>1 DEF Bytes
<1>9. /\ downloaded' = [downloaded EXCEPT ![f] = got]
      /\ UNCHANGED <<sessionVars, toPhone, blocksIn, fileVars, m_SendFileMap, picked, upload, trouble>>
  BY <1>1, <1>3, <1>7 DEF PhoneReadsBlock
<1>10. PICK type \in {"AckSendFile", "AckSendComplete"} :
         type = IF Len(got) >= FileSize[f] THEN "AckSendComplete" ELSE "AckSendFile"
  OBVIOUS
<1>11. PICK ack \in Message : ack = [type |-> type, uuid |-> f, pos |-> size + n]
  <2>1. size + n \in Nat
    OBVIOUS
  <2> QED BY <1>10, <2>1 DEF Message
<1>12. /\ toServer' \in [Controls -> Seq(Message)]
       /\ \A y : y # f => Kept(y, toServer, toServer')
       /\ Only(f, toServer', ack)
  <2>1. PICK c \in Controls : Sends(c, type, f, size + n)
    BY <1>1, <1>3, <1>7, <1>8, <1>10 DEF PhoneReadsBlock
  <2> QED BY <1>1, <1>2, <1>3, <1>11, <2>1, PhoneSent
<1>13. downloaded'[f] = got /\ \A g \in Downloads \ {f} : downloaded'[g] = downloaded[g]
  BY <1>2, <1>9 DEF FileTypes
<1>14. NetTypes' /\ FileTypes'
  BY <1>1, <1>2, <1>8, <1>9, <1>12 DEF NetTypes, FileTypes
<1>15. Others(f)
  BY <1>1, <1>3, <1>9, <1>12, <1>13, Same DEF Others, Rest
<1>16. Only(f, toServer, ack)' /\ Absent(f, toPhone)' /\ Absent(f, blocksIn)' /\ Absent(f, blocksOut)'
  BY <1>1, <1>3, <1>9, <1>12
<1>17. Single(f)'
  BY <1>14, <1>16, SoleSingleNext DEF Sole
<1>18. DownloadInv(f)'
  <2>1. ack.type \in {"AckSendFile", "AckSendComplete"} /\ ack.pos = Len(downloaded'[f])
    BY <1>8, <1>11, <1>13
  <2>2. f \in m_SendFileMap' /\ (f \in picked' => f \notin m_SendFileMap')
    BY <1>2, <1>5, <1>9 DEF FilesInv, DownloadInv
  <2> QED BY <1>16, <2>1, <2>2 DEF DownloadInv, Absent, Only
<1>19. FilesInv'
  BY <1>2, <1>15, <1>17, <1>18, FileAssumption, FilesStep
<1>20. FilesArePrefixes'
  <2>1. \A g \in Downloads : downloaded'[g] = Bytes(0, Len(downloaded'[g])) /\ Len(downloaded'[g]) <= FileSize[g]
    <3>1. downloaded'[f] = Bytes(0, Len(downloaded'[f])) /\ Len(downloaded'[f]) <= FileSize[f]
      BY <1>6, <1>8, <1>13
    <3>2. \A g \in Downloads \ {f} : downloaded'[g] = Bytes(0, Len(downloaded'[g])) /\ Len(downloaded'[g]) <= FileSize[g]
      BY <1>2, <1>13 DEF FilesArePrefixes
    <3> QED BY <3>1, <3>2
  <2> QED BY <1>2, <1>9, <2>1 DEF FilesArePrefixes, AtItsPlace, Shares, Image, Bytes
<1>21. SessionInv' /\ TroubleInv'
  BY <1>2, <1>9, SessionSame, NoTrouble
<1> QED BY <1>14, <1>19, <1>20, <1>21, InParts, PTL

-----------------------------------------------------------------------------
(* Transfers.                                                               *)

\* A step of u's transfer, or none.
TransferStep(u) == [Up(u)!Next]_(Up(u)!vars)

\* A step that leaves u's context alone, and what the phone believes of it.
LEMMA TransferSame ==
  ASSUME NEW u, m_ReceiveFileMap'[u] = m_ReceiveFileMap[u],
         upload'[u] = "done" <=> upload[u] = "done"
  PROVE  TransferStep(u)
BY DEF TransferStep, Up!vars

\* A context that is new, grown by a block, or known to the phone.
LEMMA TransferOpens ==
  ASSUME NEW u, upload[u] # "done", UNCHANGED upload, m_ReceiveFileMap[u] = Null,
         m_ReceiveFileMap'[u] # Null, m_ReceiveFileMap'[u].receivedSize = 0,
         ~m_ReceiveFileMap'[u].complete
  PROVE  TransferStep(u)
BY DEF TransferStep, Up!Next, Up!Open

\* A context that has grown by a block.
LEMMA TransferTakes ==
  ASSUME NEW u, upload[u] # "done", UNCHANGED upload, NEW old, NEW new, NEW size,
         m_ReceiveFileMap[u] = old, m_ReceiveFileMap'[u] = new, old # Null, new # Null,
         ~old.complete, new.receivedSize = size, new.complete <=> size = FileSize[u],
         size = IF old.receivedSize + BLOCK_SIZE < FileSize[u]
                  THEN old.receivedSize + BLOCK_SIZE ELSE FileSize[u]
  PROVE  TransferStep(u)
BY DEF TransferStep, Up!Next, Up!Take

\* A transfer whose end the phone has read.
LEMMA TransferAcknowledged ==
  ASSUME NEW u, upload[u] # "done", upload'[u] = "done", UNCHANGED m_ReceiveFileMap,
         m_ReceiveFileMap[u] # Null, m_ReceiveFileMap[u].complete
  PROVE  TransferStep(u)
BY DEF TransferStep, Up!Next, Up!Acknowledge

\* A block read is a step of its upload's transfer.
LEMMA OnReadDataTakes ==
  ASSUME IInv, NEW d \in Datas, OnReadData(d), NEW u \in Uploads
  PROVE  TransferStep(u)
<1>1. PICK b \in Block :
        b = Head(blocksIn[d]) /\ b \in UnderWay(blocksIn) /\ b.uuid \in Uploads
  BY ServerGetsBlock DEF OnReadData, Reading
<1>2. PICK v \in Uploads : v = b.uuid
  BY <1>1
<1>3. PICK old : old = m_ReceiveFileMap[v]
  OBVIOUS
<1>4. upload' = upload /\ FileTypes /\ FilesInv
  BY InParts DEF OnReadData, phoneVars
<1>5. CASE old = Null
  <2>1. UNCHANGED fileVars
    BY <1>1, <1>2, <1>3, <1>5, BlockTaken
  <2> QED BY <1>4, <2>1, TransferSame DEF fileVars
<1>6. CASE old # Null
  <2>0. PICK n \in Nat, k \in Nat, new \in Context, type \in {"AckSendFile", "AckSendComplete"} :
          TakesBlock(old, v, n, k, new, type)
    BY <1>1, <1>2, <1>3, <1>6, BlockTaken
  <2>1. /\ ~old.complete /\ new # Null /\ new.receivedSize = old.receivedSize + n
        /\ old.receivedSize + n = IF old.receivedSize + BLOCK_SIZE < FileSize[v]
                                    THEN old.receivedSize + BLOCK_SIZE ELSE FileSize[v]
        /\ new.complete <=> old.receivedSize + n = FileSize[v]
        /\ m_ReceiveFileMap' = [m_ReceiveFileMap EXCEPT ![v] = new]
    BY <2>0 DEF TakesBlock
  <2>2. upload[v] # "done"
    BY <1>3, <1>4, <2>1 DEF FilesInv, UploadInv
  <2>3. m_ReceiveFileMap'[v] = new /\ (u # v => m_ReceiveFileMap'[u] = m_ReceiveFileMap[u])
    BY <1>4, <2>1 DEF FileTypes
  <2>4. CASE u = v
    BY <1>3, <1>4, <1>6, <2>1, <2>2, <2>3, <2>4, TransferTakes
  <2>5. CASE u # v
    BY <1>4, <2>3, <2>5, TransferSame
  <2> QED BY <2>4, <2>5
<1> QED BY <1>5, <1>6

\* So is an offer read, and an acknowledgement of all of it; nothing else is.
LEMMA TransferSteps ==
  ASSUME IInv, [Next]_vars, NEW u \in Uploads
  PROVE  TransferStep(u)
<1> USE DEF fileVars, phoneVars
<1>1. FileTypes
  BY InParts
<1>2. CASE UNCHANGED <<m_ReceiveFileMap, upload>>
  BY <1>2, TransferSame
<1>3. ASSUME NEW c \in Controls, trouble = "none", OnSendFile(c) PROVE TransferStep(u)
  <2>1. CASE UNCHANGED <<m_ReceiveFileMap, upload>>
    BY <1>2, <2>1
  <2>2. CASE ~UNCHANGED <<m_ReceiveFileMap, upload>>
    <3>1. PICK begun : begun = [receivedSize |-> 0, written |-> 0, controlSocket |-> c, complete |-> FALSE]
      OBVIOUS
    <3>2. begun.receivedSize = 0 /\ begun.complete = FALSE /\ begun # Null
      <4>1. begun \in Context
        BY <3>1 DEF Context
      <4> QED BY <3>1, <4>1, FileAssumption
    <3>3. PICK v \in Uploads :
            /\ m_ReceiveFileMap[v] = Null /\ upload[v] = "offered" /\ UNCHANGED upload
            /\ m_ReceiveFileMap' = [m_ReceiveFileMap EXCEPT ![v] = begun]
      BY <1>3, <2>2, <3>1, OnSendFileKeeps
    <3>4. m_ReceiveFileMap'[v] = begun /\ (u # v => m_ReceiveFileMap'[u] = m_ReceiveFileMap[u])
      BY <1>1, <3>3 DEF FileTypes
    <3>5. CASE u = v
      BY <3>2, <3>3, <3>4, <3>5, TransferOpens
    <3>6. CASE u # v
      BY <3>3, <3>4, <3>6, TransferSame
    <3> QED BY <3>5, <3>6
  <2> QED BY <2>1, <2>2
<1>4. ASSUME NEW c \in Controls, trouble = "none", PhoneReads(c) PROVE TransferStep(u)
  <2>1. CASE Head(toPhone[c]).type = "AckSendComplete"
    <3>1. PICK v \in Uploads :
            /\ m_ReceiveFileMap[v] # Null /\ m_ReceiveFileMap[v].complete
            /\ upload' = [upload EXCEPT ![v] = "done"]
      BY <1>4, <2>1, PhoneReadsCompleteKeeps
    <3>2. m_ReceiveFileMap' = m_ReceiveFileMap
      BY <1>4 DEF PhoneReads
    <3>3. upload'[v] = "done" /\ (u # v => upload'[u] = upload[u])
      BY <1>1, <3>1 DEF FileTypes
    <3>4. CASE u = v /\ upload[u] # "done"
      BY <3>1, <3>2, <3>3, <3>4, TransferAcknowledged
    <3>5. CASE u # v \/ upload[u] = "done"
      BY <3>2, <3>3, <3>5, TransferSame
    <3> QED BY <3>4, <3>5
  <2>2. CASE Head(toPhone[c]).type # "AckSendComplete"
    BY <1>2, <1>4, <2>2 DEF PhoneReads
  <2> QED BY <2>1, <2>2
<1>5. ASSUME NEW v \in Uploads, OfferFile(v) PROVE TransferStep(u)
  <2>1. m_ReceiveFileMap' = m_ReceiveFileMap /\ upload[v] = "idle" /\ upload' = [upload EXCEPT ![v] = "offered"]
    BY <1>5 DEF OfferFile
  <2>2. upload'[u] = "done" <=> upload[u] = "done"
    BY <1>1, <2>1 DEF FileTypes
  <2> QED BY <2>1, <2>2, TransferSame
<1>6. ASSUME NEW c \in Controls, ControlLost(c) \/ OnAckSendFile(c) \/ OnAckSendComplete(c)
      PROVE  TransferStep(u)
  BY <1>2, <1>6 DEF ControlLost, OnAckSendFile, OnAckSendComplete
<1>7. ASSUME NEW d \in Datas, DataLost(d) \/ PhoneReadsBlock(d) PROVE TransferStep(u)
  BY <1>2, <1>7 DEF DataLost, PhoneReadsBlock
<1>8. ASSUME NEW f \in Downloads, PickFile(f) \/ SendFile(f) PROVE TransferStep(u)
  BY <1>2, <1>8 DEF PickFile, SendFile
<1>9. CASE Connects
  BY <1>2, <1>9 DEF Connects
<1>10. CASE UNCHANGED vars
  BY <1>2, <1>10 DEF vars
<1> QED BY <1>3, <1>4, <1>5, <1>6, <1>7, <1>8, <1>9, <1>10, OnReadDataTakes DEF Next, Step, ServerReads

-----------------------------------------------------------------------------
(* The theorems.                                                            *)

\* At first nothing is under way.
LEMMA InitInvariant == Init => IInv
<1> SUFFICES ASSUME Init PROVE IInv
  OBVIOUS
<1>1. SessionInv
  BY FileAssumption DEF Init, S!Init, SessionInv, S!TypeOK, S!Connections
<1>2. NetTypes /\ FileTypes /\ TroubleInv
  BY DEF Init, NetTypes, FileTypes, TroubleInv, TroubleNeedsLoss
<1>3. \A x : Absent(x, toServer) /\ Absent(x, toPhone) /\ Absent(x, blocksIn) /\ Absent(x, blocksOut)
  <2>1. \A K : UnderWay([k \in K |-> <<>>]) = {}
    BY DEF UnderWay, Range
  <2> QED BY <2>1 DEF Init, Absent
<1>4. \A x : Single(x)
  BY <1>2, <1>3, AbsentOnly DEF NetTypes, Single
<1>5. FilesInv
  <2>1. \A u \in Uploads : UploadInv(u)
    BY <1>3 DEF Init, UploadInv, Absent
  <2>2. \A f \in Downloads : DownloadInv(f)
    BY <1>3 DEF Init, DownloadInv, Absent
  <2> QED BY <1>4, <2>1, <2>2 DEF FilesInv
<1>6. FilesArePrefixes
  BY FileAssumption DEF Init, FilesArePrefixes, Shares, Names, Bytes
<1> QED BY <1>1, <1>2, <1>5, <1>6, InParts

\* Each step keeps it.
LEMMA StepInvariant ==
  ASSUME IInv, [Next]_vars
  PROVE  IInv'
<1>1. CASE UNCHANGED vars
  <2> USE <1>1 DEF vars, netVars, fileVars, phoneVars
  <2>1. SessionInv /\ NetTypes /\ FileTypes /\ FilesInv /\ FilesArePrefixes /\ TroubleInv
    BY InParts
  <2>2. NetTypes' /\ FileTypes' /\ \A x : Rest(x)
    BY <2>1, Same DEF NetTypes, FileTypes, Rest
  <2>3. SessionInv' /\ FilesInv' /\ FilesArePrefixes'
    BY <2>1, <2>2, SessionSame, FilesSame, PrefixesSame
  <2>4. TroubleInv'
    BY <2>1 DEF TroubleInv, TroubleNeedsLoss, Lost, sessionVars
  <2> QED BY <2>2, <2>3, <2>4, InParts, PTL
<1>2. CASE Next
  <2> USE <1>2 DEF Next
  <2>1. CASE Connects
    BY <2>1, SessionStepKeeps
  <2>2. ASSUME NEW c \in Controls, ControlLost(c) \/ ServerReads(c) \/ PhoneReads(c) PROVE IInv'
    <3>1. CASE ControlLost(c)
      BY <3>1, SessionStepKeeps
    <3>2. CASE ServerReads(c)
      BY <3>2, OnSendFileKeeps, OnAckSendFileKeeps, OnAckSendCompleteKeeps DEF ServerReads
    <3>3. CASE PhoneReads(c)
      BY <3>3, PhoneReadsAckKeeps, PhoneReadsCompleteKeeps, PhoneReadsOfferKeeps DEF PhoneReads
    <3> QED BY <2>2, <3>1, <3>2, <3>3
  <2>3. ASSUME NEW d \in Datas, DataLost(d) \/ OnReadData(d) \/ PhoneReadsBlock(d) PROVE IInv'
    BY <2>3, SessionStepKeeps, OnReadDataKeeps, PhoneReadsBlockKeeps
  <2>4. ASSUME NEW f \in Downloads, PickFile(f) \/ SendFile(f) PROVE IInv'
    BY <2>4, PickFileKeeps, SendFileKeeps
  <2>5. ASSUME NEW u \in Uploads, OfferFile(u) PROVE IInv'
    BY <2>5, OfferFileKeeps
  <2> QED BY <2>1, <2>2, <2>3, <2>4, <2>5 DEF Step
<1> QED BY <1>1, <1>2

\* Whatever connections come and go, what is under way of a file is what its
\* two sides wait for.
THEOREM Invariance == Spec => []IInv
<1>1. IInv /\ [Next]_vars => IInv'
  BY StepInvariant
<1> QED BY InitInvariant, <1>1, PTL DEF Spec

\* The types of what the handlers keep and send.
THEOREM TypeCorrect == Spec => []TypeOK
<1>1. IInv => TypeOK
  BY DEF IInv
<1> QED BY <1>1, Invariance, PTL

\* At most one message or block of each file is under way, on any connection.
THEOREM StopAndWait == Spec => []OneUnderWay
<1>1. IInv => OneUnderWay
  BY DEF IInv
<1> QED BY <1>1, Invariance, PTL

\* What the phone has of a download is a prefix, what the desktop has of an
\* upload are bytes of it in order, and a prefix if every write succeeded.
THEOREM PrefixesOnly == Spec => []FilesArePrefixes
<1>1. IInv => FilesArePrefixes
  BY DEF IInv
<1> QED BY <1>1, Invariance, PTL

\* What the phone is told of an upload, by message or by the end of it, is so.
THEOREM AcksCorrect == Spec => []AcksAreTrue
<1>1. IInv => AcksAreTrue
  <2> SUFFICES ASSUME IInv PROVE AcksAreTrue
    OBVIOUS
  <2>1. NetTypes /\ FileTypes /\ FilesInv
    BY InParts
  <2>2. ASSUME NEW u \in Uploads, upload[u] = "done"
        PROVE  m_ReceiveFileMap[u].complete /\ m_ReceiveFileMap[u].receivedSize = FileSize[u]
    BY <2>1, <2>2 DEF FilesInv, UploadInv
  <2>3. ASSUME NEW c \in Controls, NEW i \in 1 .. Len(toPhone[c]), NEW m, m = toPhone[c][i],
               NEW context, context = m_ReceiveFileMap[m.uuid], m.type # "SendFile", context # Null
        PROVE  /\ m.pos = context.receivedSize
               /\ m.type = "AckSendComplete" <=> context.complete
    <3>1. m \in Message /\ m \in UnderWay(toPhone)
      BY <2>1, <2>3, UnderWayDef DEF NetTypes
    <3>2. m.uuid \in Uploads
      BY <2>1, <2>3, <3>1 DEF Message, FilesInv, DownloadInv
    <3>3. UploadInv(m.uuid)
      BY <2>1, <3>2 DEF FilesInv
    <3> QED BY <2>3, <3>1, <3>3 DEF UploadInv
  <2> QED BY <2>2, <2>3 DEF AcksAreTrue
<1> QED BY <1>1, Invariance, PTL

\* No assertion fails and no pointer is stale unless a connection ended.
THEOREM NoTroubleWithoutLoss == Spec => []TroubleNeedsLoss
<1>1. IInv => TroubleNeedsLoss
  BY DEF IInv
<1> QED BY <1>1, Invariance, PTL

\* FileTransfer implements Transfer for every upload: each of its steps is one
\* of the upload's transfer or leaves that alone.
THEOREM Refinement == Spec => AreTransfers
<1>1. Init => \A u \in Uploads : Up(u)!Init
  BY FileAssumption DEF Init, Up!Init
<1>2. IInv /\ [Next]_vars => [\A u \in Uploads : [Up(u)!Next]_(Up(u)!vars)]_vars
  BY TransferSteps DEF TransferStep
<1> QED BY <1>1, <1>2, Invariance, PTL DEF Spec, AreTransfers

=============================================================================
