------------------------- MODULE RoomRatchetProofs -------------------------
(***************************************************************************)
(* What holds of RoomRatchet for every set of nodes and slots, and for     *)
(* every bound.  The theorems of the first part hold whether or not        *)
(* applications await their calls, and however announcements and timers    *)
(* interleave with them.  Those of the second part, which say that a room  *)
(* converges, are about applications that await each call, in a room that  *)
(* somebody never leaves: SplitBrain.cfg shows what overlapping calls do.  *)
(***************************************************************************)
EXTENDS RoomRatchet, TLAPS, WellFoundedInduction

(***************************************************************************)
(* What the operators on one ratchet return.                               *)
(***************************************************************************)
LEMMA NewRatchetType ==
    ASSUME NEW publicKey \in Nat, NEW initialPeers \in PeerMap
    PROVE  NewRatchet(publicKey, initialPeers) \in Ratchet
BY NoneAssumption DEF NewRatchet, Ratchet

LEMMA NoPeersType == NoPeers \in PeerMap /\ NoAnnouncements \in [Nodes -> EpochAnnouncement \cup {None}]
BY DEF NoPeers, NoAnnouncements, PeerMap

LEMMA InitialRatchetType == \A n \in Nodes : InitialRatchet(n) \in Ratchet
<1> SUFFICES ASSUME NEW n \in Nodes
             PROVE  InitialRatchet(n) \in Ratchet
    OBVIOUS
<1> DEFINE peers == [p \in Nodes |-> IF p \in Steady \ {n} THEN 1 ELSE 0]
<1>1. peers \in PeerMap
    BY DEF PeerMap
<1> HIDE DEF peers
<1>2. NewRatchet(1, peers) \in Ratchet /\ NewRatchet(0, NoPeers) \in Ratchet
    BY <1>1, NewRatchetType, NoPeersType
<1> QED
    BY <1>2 DEF InitialRatchet, peers

LEMMA CallUpdateType ==
    ASSUME NEW r \in Ratchet, NEW s \in Slots, NEW c \in Call \cup {None}
    PROVE  [r EXCEPT !.calls[s] = c] \in Ratchet
BY DEF Ratchet

LEMMA InstallType ==
    ASSUME NEW r \in Ratchet, NEW c \in Call
    PROVE  installEpoch(r, c) \in Ratchet
<1> DEFINE entry == [chainKey |-> c.chainKey, buf |-> c.buf, peerIndexMap |-> c.peerIndexMap]
           installed == [r EXCEPT !.epochs[c.version] = entry]
<1>1. entry \in EpochState
    BY DEF Call, EpochState
<1>2. installed \in Ratchet
    BY <1>1 DEF Ratchet
<1>3. wipeSasForRotation(installed.sasState, c.version) \in [Nodes -> PeerSasState \cup {None}]
    BY <1>2 DEF wipeSasForRotation, Ratchet
<1>4. c.version \in Epochs
    BY DEF Call
<1>5. ToForget(r.currentEpoch, c.version) \subseteq Epochs
    BY RoomBoundsAssumption DEF ToForget, Ratchet, Epochs
<1> HIDE DEF entry
<1>6. CASE c.version > r.currentEpoch
    BY <1>2, <1>3, <1>4, <1>5, <1>6 DEF installEpoch, Ratchet, entry
<1>7. CASE ~(c.version > r.currentEpoch)
    BY <1>2, <1>7 DEF installEpoch, entry
<1> QED
    BY <1>6, <1>7

LEMMA InstallCalls ==
    ASSUME NEW r \in Ratchet, NEW c \in Call
    PROVE  installEpoch(r, c).calls = r.calls
BY DEF installEpoch, Ratchet

LEMMA ContinueType ==
    ASSUME NEW r \in Ratchet, NEW s \in Slots, r.calls[s] \in Call
    PROVE  Continue(r, s) \in Ratchet
<1>1. [r.calls[s] EXCEPT !.pc = "wrap"] \in Call
    BY DEF Call
<1> QED
    BY <1>1 DEF Continue, Ratchet

LEMMA InstallSasType ==
    ASSUME NEW sas \in [Nodes -> PeerSasState \cup {None}], NEW p,
           NEW e \in Epochs, NEW secret \in Nat
    PROVE  installSas(sas, p, e, secret) \in [Nodes -> PeerSasState \cup {None}]
BY DEF installSas, PeerSasState

\* A call begins, or is suspended again.
LEMMA BeginType ==
    ASSUME RoomTypeOK, NEW n \in Nodes, NEW s \in Slots, NEW c \in Call, Begin(n, s, c)
    PROVE  ratchet' \in [Nodes -> Ratchet]
<1>1. [ratchet[n] EXCEPT !.calls[s] = c] \in Ratchet
    BY CallUpdateType DEF RoomTypeOK
<1>2. ratchet' = [ratchet EXCEPT ![n] = [ratchet[n] EXCEPT !.calls[s] = c]]
    BY DEF Begin, RoomTypeOK
<1> QED
    BY <1>1, <1>2 DEF RoomTypeOK

(***************************************************************************)
(* Every call, continuation, timer and member change keeps the room within *)
(* its types.                                                              *)
(***************************************************************************)
LEMMA RoomTypeStep == RoomTypeOK /\ [Next]_roomVars => RoomTypeOK'
<1> SUFFICES ASSUME RoomTypeOK, [Next]_roomVars
             PROVE  RoomTypeOK'
    OBVIOUS
<1> USE NodesAssumption, SlotsAssumption, RoomBoundsAssumption
<1>0. ASSUME NEW p \in Nodes, NEW k \in Nat, Tell(p, k)
      PROVE  feed' \in [Nodes -> Seq(MemberChange)]
    <2>1. [peer |-> p, publicKey |-> k] \in MemberChange
        BY DEF MemberChange
    <2> QED
        BY <1>0, <2>1 DEF Tell, RoomTypeOK
<1>1. ASSUME NEW p \in Nodes, Join(p)
      PROVE  RoomTypeOK'
    <2> DEFINE peers == [n \in Nodes |-> IF n \in room THEN ratchet[n].publicKey ELSE 0]
    <2>1. changes + 1 \in 0..MaxChanges /\ changes + 1 \in Nat
        BY <1>1 DEF Join, RoomTypeOK
    <2>2. peers \in PeerMap
        BY DEF PeerMap, RoomTypeOK, Ratchet
    <2>3. NewRatchet(changes + 1, peers) \in Ratchet
        BY <2>1, <2>2, NewRatchetType
    <2>4. ratchet' \in [Nodes -> Ratchet]
        BY <1>1, <2>3 DEF Join, RoomTypeOK
    <2> QED
        BY <1>0, <1>1, <2>1, <2>4 DEF Join, RoomTypeOK
<1>2. ASSUME NEW p \in Nodes, Leave(p)
      PROVE  RoomTypeOK'
    <2>1. changes + 1 \in 0..MaxChanges
        BY <1>2 DEF Leave, RoomTypeOK
    <2>2. ratchet' \in [Nodes -> Ratchet]
        <3>1. NewRatchet(0, NoPeers) \in Ratchet
            BY NewRatchetType, NoPeersType
        <3> QED
            BY <1>2, <3>1 DEF Leave, RoomTypeOK
    <2>3. channel' \in [Nodes -> [Nodes -> Seq(EpochAnnouncement)]]
        BY <1>2 DEF Leave, RoomTypeOK, NoMessages
    <2> QED
        BY <1>0, <1>2, <2>1, <2>2, <2>3 DEF Leave, RoomTypeOK
<1>3. ASSUME NEW n \in Nodes, rotateOnMemberChange(n)
      PROVE  RoomTypeOK'
    <2> DEFINE delta == Head(feed[n])
               next  == [ratchet[n].peers EXCEPT ![delta.peer] = delta.publicKey]
    <2>1. delta \in MemberChange /\ feed' \in [Nodes -> Seq(MemberChange)]
        BY <1>3 DEF rotateOnMemberChange, RoomTypeOK
    <2>2. ratchet[n] \in Ratchet /\ ratchet[n].peers \in PeerMap
        BY DEF RoomTypeOK, Ratchet
    <2>3. next \in PeerMap
        BY <2>1, <2>2 DEF PeerMap, MemberChange
    <2>4. PICK s \in Slots :
             IF isAuthoritativeAuthor(n, next)
               THEN startNewEpoch(n, s, next)
               ELSE ratchet' = [ratchet EXCEPT ![n].peers = next] /\ UNCHANGED minted
        BY <1>3 DEF rotateOnMemberChange
    <2> HIDE DEF next
    <2>5. CASE startNewEpoch(n, s, next)
        <3> DEFINE call == [pc |-> "derive", version |-> ratchet[n].currentEpoch + 1,
                            chainKey |-> randomChainKey(n), buf |-> minted + 1,
                            peerIndexMap |-> Members(next) \cup {n}, members |-> next,
                            todo |-> Members(next), sasPeer |-> None, secret |-> 0,
                            out |-> NoAnnouncements]
        <3>1. ratchet[n].currentEpoch + 1 \in Epochs
            BY <1>3, <2>2 DEF rotateOnMemberChange, Ratchet, Epochs
        <3>2. minted + 1 \in Nat /\ randomChainKey(n) \in Key
            BY DEF RoomTypeOK, randomChainKey, Key
        <3>3. Members(next) \subseteq Nodes
            BY DEF Members
        <3>4. call \in Call
            BY <2>3, <3>1, <3>2, <3>3, NoPeersType DEF Call
        <3> HIDE DEF call
        <3>5. ratchet' = [ratchet EXCEPT ![n] = [ratchet[n] EXCEPT !.peers = next, !.calls[s] = call]]
            BY <2>5 DEF startNewEpoch, call, RoomTypeOK
        <3>6. [ratchet[n] EXCEPT !.peers = next, !.calls[s] = call] \in Ratchet
            BY <2>2, <2>3, <3>4 DEF Ratchet
        <3>7. ratchet' \in [Nodes -> Ratchet]
            BY <3>5, <3>6 DEF RoomTypeOK
        <3> QED
            BY <1>3, <2>1, <2>5, <3>2, <3>7 DEF rotateOnMemberChange, startNewEpoch, RoomTypeOK
    <2>6. CASE ratchet' = [ratchet EXCEPT ![n].peers = next] /\ UNCHANGED minted
        <3>1. [ratchet[n] EXCEPT !.peers = next] \in Ratchet
            BY <2>2, <2>3 DEF Ratchet
        <3>2. ratchet' \in [Nodes -> Ratchet]
            BY <2>6, <3>1 DEF RoomTypeOK
        <3> QED
            BY <1>3, <2>1, <2>6, <3>2 DEF rotateOnMemberChange, RoomTypeOK
    <2> QED
        BY <2>4, <2>5, <2>6
<1>4. ASSUME NEW n \in Nodes, NEW p \in Nodes, consumeEpochAnnouncement(n, p)
      PROVE  RoomTypeOK'
    <2> DEFINE msg == Head(channel[n][p])
               call == [pc |-> "derive", version |-> msg.version,
                        chainKey |-> msg.chainKey, buf |-> msg.secret,
                        peerIndexMap |-> msg.peerIndexMap, members |-> NoPeers,
                        todo |-> {}, sasPeer |-> msg.from, secret |-> msg.secret,
                        out |-> NoAnnouncements]
    <2>1. msg \in EpochAnnouncement /\ channel' \in [Nodes -> [Nodes -> Seq(EpochAnnouncement)]]
        BY <1>4 DEF consumeEpochAnnouncement, RoomTypeOK
    <2>2. call \in Call /\ msg.chainKey \in Key
        BY <2>1, NoPeersType DEF EpochAnnouncement, Call
    <2>3. PICK s \in Slots :
             \/ Begin(n, s, call) /\ known' = [known EXCEPT ![n] = @ \cup {msg.chainKey}]
             \/ UNCHANGED <<ratchet, known>>
        BY <1>4 DEF consumeEpochAnnouncement
    <2> HIDE DEF call, msg
    <2>4. CASE Begin(n, s, call) /\ known' = [known EXCEPT ![n] = @ \cup {msg.chainKey}]
        <3>1. ratchet' \in [Nodes -> Ratchet]
            BY <2>2, <2>4, BeginType
        <3>2. known' \in [Nodes -> SUBSET Key]
            BY <2>2, <2>4 DEF RoomTypeOK
        <3> QED
            BY <1>4, <2>1, <3>1, <3>2 DEF consumeEpochAnnouncement, RoomTypeOK
    <2>5. CASE UNCHANGED <<ratchet, known>>
        BY <1>4, <2>1, <2>5 DEF consumeEpochAnnouncement, RoomTypeOK
    <2> QED
        BY <2>3, <2>4, <2>5
<1>5. ASSUME NEW n \in Nodes, NEW p \in Nodes, rewrapCurrentEpochFor(n, p)
      PROVE  RoomTypeOK'
    <2> DEFINE state == ratchet[n].epochs[ratchet[n].currentEpoch]
               call == [pc |-> "wrap", version |-> ratchet[n].currentEpoch,
                        chainKey |-> state.chainKey, buf |-> state.buf,
                        peerIndexMap |-> state.peerIndexMap,
                        members |-> [NoPeers EXCEPT ![p] = ratchet[p].publicKey],
                        todo |-> {p}, sasPeer |-> None, secret |-> 0,
                        out |-> NoAnnouncements]
    <2>1. ratchet[n] \in Ratchet /\ ratchet[p] \in Ratchet
        BY DEF RoomTypeOK
    <2>2. ratchet[n].currentEpoch \in Epochs
        BY <1>5, <2>1 DEF rewrapCurrentEpochFor, Ratchet, Epochs
    <2>3. state \in EpochState
        BY <1>5, <2>1, <2>2 DEF rewrapCurrentEpochFor, Ratchet, Installed
    <2>4. [NoPeers EXCEPT ![p] = ratchet[p].publicKey] \in PeerMap
        BY <2>1, NoPeersType DEF PeerMap, Ratchet
    <2>5. call \in Call
        BY <2>2, <2>3, <2>4, NoPeersType DEF EpochState, Call
    <2>6. PICK s \in Slots : Begin(n, s, call)
        BY <1>5 DEF rewrapCurrentEpochFor
    <2> HIDE DEF call
    <2>7. ratchet' \in [Nodes -> Ratchet]
        BY <2>5, <2>6, BeginType
    <2> QED
        BY <1>5, <2>7 DEF rewrapCurrentEpochFor, RoomTypeOK
<1>6. ASSUME NEW n \in Nodes, NEW p \in Nodes, markSasVerified(n, p)
      PROVE  RoomTypeOK'
    <2> DEFINE same == ratchet[n].sasState[p].data = ratchet[p].sasState[n].data
               r == [ratchet[n] EXCEPT !.sasState[p].verified = same]
    <2>1. ratchet[n] \in Ratchet /\ ratchet[n].sasState[p] \in PeerSasState
        BY <1>6 DEF markSasVerified, RoomTypeOK, Ratchet
    <2>2. [ratchet[n].sasState[p] EXCEPT !.verified = same] \in PeerSasState
        BY <2>1 DEF PeerSasState
    <2>3. r \in Ratchet
        BY <2>1, <2>2 DEF Ratchet
    <2>4. ratchet' = [ratchet EXCEPT ![n] = r]
        BY <1>6 DEF markSasVerified, RoomTypeOK
    <2>5. ratchet' \in [Nodes -> Ratchet]
        BY <2>3, <2>4 DEF RoomTypeOK
    <2>6. compared' \subseteq Nat
        BY <1>6, <2>1 DEF markSasVerified, RoomTypeOK, PeerSasState
    <2> QED
        BY <1>6, <2>5, <2>6 DEF markSasVerified, RoomTypeOK
<1>7. ASSUME NEW n \in Nodes, NEW s \in Slots, deriveDone(n, s)
      PROVE  RoomTypeOK'
    <2> DEFINE c == ratchet[n].calls[s]
               r == installEpoch(ratchet[n], c)
    <2>1. ratchet[n] \in Ratchet /\ c \in Call
        BY <1>7 DEF deriveDone, RoomTypeOK, Ratchet
    <2>2. r \in Ratchet /\ r.calls = ratchet[n].calls
        BY <2>1, InstallType, InstallCalls
    <2>3. Continue(r, s) \in Ratchet
        BY <2>1, <2>2, ContinueType
    <2>4. [r EXCEPT !.calls[s].pc = "sas"] \in Ratchet
        <3>1. [c EXCEPT !.pc = "sas"] \in Call
            BY <2>1 DEF Call
        <3> QED
            BY <2>2, <3>1 DEF Ratchet
    <2>5. ratchet' = [ratchet EXCEPT ![n] = IF c.sasPeer # None THEN [r EXCEPT !.calls[s].pc = "sas"]
                                            ELSE Continue(r, s)]
        BY <1>7 DEF deriveDone
    <2> HIDE DEF r, c
    <2>6. ratchet' \in [Nodes -> Ratchet]
        BY <2>3, <2>4, <2>5 DEF RoomTypeOK
    <2> QED
        BY <1>7, <2>6 DEF deriveDone, RoomTypeOK
<1>8. ASSUME NEW n \in Nodes, NEW s \in Slots, sasDone(n, s)
      PROVE  RoomTypeOK'
    <2> DEFINE c == ratchet[n].calls[s]
               sas == installSas(ratchet[n].sasState, c.sasPeer, c.version, c.secret)
               r == [ratchet[n] EXCEPT !.sasState = sas]
    <2>0. c # None /\ ratchet' = [ratchet EXCEPT ![n] = Continue(r, s)] /\ Send(n, c)
        BY <1>8 DEF sasDone
    <2>1. ratchet[n] \in Ratchet /\ c \in Call
        BY <2>0 DEF RoomTypeOK, Ratchet
    <2>2. r \in Ratchet /\ r.calls = ratchet[n].calls
        <3>1. sas \in [Nodes -> PeerSasState \cup {None}]
            BY <2>1, InstallSasType DEF Ratchet, Call
        <3> HIDE DEF sas
        <3> QED
            BY <2>1, <3>1 DEF Ratchet
    <2>3. Continue(r, s) \in Ratchet
        BY <2>1, <2>2, ContinueType
    <2>4. c.out \in [Nodes -> EpochAnnouncement \cup {None}]
        BY <2>1 DEF Call
    <2> HIDE DEF r, c
    <2>5. channel' \in [Nodes -> [Nodes -> Seq(EpochAnnouncement)]]
        BY <2>0, <2>4 DEF Send, RoomTypeOK
    <2>6. ratchet' \in [Nodes -> Ratchet]
        BY <2>0, <2>3 DEF RoomTypeOK
    <2> QED
        BY <1>8, <2>5, <2>6 DEF sasDone, RoomTypeOK
<1>9. ASSUME NEW n \in Nodes, NEW p \in Nodes, NEW s \in Slots, wrapDone(n, s, p)
      PROVE  RoomTypeOK'
    <2> DEFINE c == ratchet[n].calls[s]
               announcement == [version |-> c.version, from |-> n, forPeer |-> p,
                                wrappedFor |-> c.members[p], chainKey |-> c.chainKey,
                                secret |-> minted + 1, peerIndexMap |-> c.peerIndexMap]
               next == [c EXCEPT !.pc = "sas", !.todo = @ \ {p}, !.sasPeer = p,
                                 !.secret = minted + 1, !.out[p] = announcement]
    <2>0. c # None
        BY <1>9 DEF wrapDone
    <2>1. c \in Call /\ minted + 1 \in Nat
        BY <2>0 DEF RoomTypeOK, Ratchet
    <2>2. announcement \in EpochAnnouncement
        BY <2>1 DEF Call, EpochAnnouncement, PeerMap
    <2>3. Begin(n, s, next)
        BY <1>9 DEF wrapDone
    <2>4. next \in Call
        <3> HIDE DEF announcement
        <3> QED
            BY <2>1, <2>2 DEF Call
    <2> HIDE DEF next
    <2>5. ratchet' \in [Nodes -> Ratchet]
        BY <2>3, <2>4, BeginType
    <2> QED
        BY <1>9, <2>1, <2>5 DEF wrapDone, RoomTypeOK
<1>10. ASSUME NEW n \in Nodes, NEW v \in Epochs, forgetEpoch(n, v)
       PROVE  RoomTypeOK'
    <2> DEFINE zeroed(c) == [c EXCEPT !.chainKey = Zeroed]
               calls == [s \in Slots |->
                           IF /\ ratchet[n].calls[s] # None
                              /\ Installed(n, v)
                              /\ ratchet[n].calls[s].buf = ratchet[n].epochs[v].buf
                             THEN zeroed(ratchet[n].calls[s]) ELSE ratchet[n].calls[s]]
               r == [ratchet[n] EXCEPT !.forgetTimers = @ \ {v}, !.epochs[v] = None,
                                       !.calls = calls]
    <2>1. ratchet[n] \in Ratchet
        BY DEF RoomTypeOK
    <2>2. ASSUME NEW c \in Call
          PROVE  zeroed(c) \in Call
        BY DEF Call, Key
    <2>3. calls \in [Slots -> Call \cup {None}]
        <3> HIDE DEF zeroed
        <3> QED
            BY <2>1, <2>2 DEF Ratchet
    <2>4. ratchet' = [ratchet EXCEPT ![n] = r]
        BY <1>10 DEF forgetEpoch, RoomTypeOK
    <2>5. r \in Ratchet
        <3> HIDE DEF calls
        <3> QED
            BY <2>1, <2>3 DEF Ratchet
    <2> HIDE DEF r
    <2>6. ratchet' \in [Nodes -> Ratchet]
        BY <2>4, <2>5 DEF RoomTypeOK
    <2> QED
        BY <1>10, <2>6 DEF forgetEpoch, RoomTypeOK
<1>11. CASE UNCHANGED roomVars
    BY <1>11 DEF roomVars, RoomTypeOK
<1> QED
    BY <1>1, <1>2, <1>3, <1>4, <1>5, <1>6, <1>7, <1>8, <1>9, <1>10, <1>11 DEF Next

(***************************************************************************)
(* The types of the state hold in every room.                              *)
(***************************************************************************)
THEOREM RoomTypeCorrect == RoomSpec => []RoomTypeOK
<1>1. Init => RoomTypeOK
    <2> SUFFICES ASSUME Init
                 PROVE  RoomTypeOK
        OBVIOUS
    <2>1. /\ room = Steady /\ changes = 0 /\ rewraps = 0 /\ minted = 0 /\ compared = {}
          /\ feed = [n \in Nodes |-> <<>>]
          /\ channel = [n \in Nodes |-> NoMessages]
          /\ known = [n \in Nodes |-> {}]
        BY DEF Init
    <2>2. ratchet \in [Nodes -> Ratchet]
        <3>1. \A n \in Nodes : InitialRatchet(n) \in Ratchet
            BY InitialRatchetType
        <3> QED
            BY <3>1 DEF Init
    <2>3. feed \in [Nodes -> Seq(MemberChange)]
        BY <2>1
    <2>4. channel \in [Nodes -> [Nodes -> Seq(EpochAnnouncement)]]
        BY <2>1 DEF NoMessages
    <2>5. known \in [Nodes -> SUBSET Key]
        BY <2>1
    <2> QED
        BY <2>1, <2>2, <2>3, <2>4, <2>5, NodesAssumption, RoomBoundsAssumption DEF RoomTypeOK
<1> QED
    BY <1>1, RoomTypeStep, PTL DEF RoomSpec

(***************************************************************************)
(* Why a node can always send.  CanSend alone is not inductive: that the   *)
(* timer which fires does not take the current epoch needs that every      *)
(* pending timer is for an earlier one, and that the epoch which is        *)
(* installed has a key for this node needs that every call on its way to   *)
(* an installation carries a map with this node in it.                     *)
(***************************************************************************)
Sound(n, r) ==
    /\ \A v \in r.forgetTimers : v < r.currentEpoch
    /\ r.currentEpoch >= 0 => /\ r.epochs[r.currentEpoch] # None
                              /\ n \in r.epochs[r.currentEpoch].peerIndexMap
    /\ \A s \in Slots : r.calls[s] # None /\ r.calls[s].pc = "derive" =>
                            n \in r.calls[s].peerIndexMap

RoomSound == \A n \in Nodes : Sound(n, ratchet[n])

LEMMA NewRatchetSound ==
    ASSUME NEW n \in Nodes, NEW k \in Nat, NEW peers \in PeerMap
    PROVE  Sound(n, NewRatchet(k, peers))
BY DEF Sound, NewRatchet

\* One ratchet is replaced by a sound one, or none is changed.
LEMMA OneRatchetSound ==
    ASSUME RoomTypeOK, RoomSound, NEW n \in Nodes, NEW r,
           ratchet' = [ratchet EXCEPT ![n] = r], Sound(n, r)
    PROVE  RoomSound'
<1> SUFFICES ASSUME NEW p \in Nodes
             PROVE  Sound(p, ratchet'[p])
    BY DEF RoomSound, Sound
<1>1. CASE p = n
    BY <1>1 DEF RoomTypeOK
<1>2. CASE p # n
    BY <1>2 DEF RoomTypeOK, RoomSound
<1> QED
    BY <1>1, <1>2

\* A call that does not go on to an installation, or whose map has this node.
LEMMA CallSound ==
    ASSUME NEW n \in Nodes, NEW r \in Ratchet, Sound(n, r), NEW s \in Slots,
           NEW c \in Call \cup {None},
           c # None /\ c.pc = "derive" => n \in c.peerIndexMap
    PROVE  Sound(n, [r EXCEPT !.calls[s] = c])
BY DEF Sound, Ratchet

LEMMA InstallSound ==
    ASSUME NEW n \in Nodes, NEW r \in Ratchet, Sound(n, r), NEW c \in Call,
           n \in c.peerIndexMap
    PROVE  Sound(n, installEpoch(r, c))
<1> DEFINE entry == [chainKey |-> c.chainKey, buf |-> c.buf, peerIndexMap |-> c.peerIndexMap]
           q == installEpoch(r, c)
<1> SUFFICES Sound(n, q)
    OBVIOUS
<1>1. entry # None /\ n \in entry.peerIndexMap
    BY NoneAssumption DEF Call, EpochState
<1>2. c.version \in Epochs /\ c.version \in Int /\ c.version >= 0 /\ r.currentEpoch \in Int
    BY RoomBoundsAssumption DEF Call, Ratchet, Epochs
<1>3. q.calls = r.calls
    BY InstallCalls
<1>4. q.epochs = [r.epochs EXCEPT ![c.version] = entry]
    BY DEF installEpoch, Ratchet
<1>5. CASE c.version > r.currentEpoch
    <2>1. /\ q.currentEpoch = c.version
          /\ q.forgetTimers = r.forgetTimers \cup ToForget(r.currentEpoch, c.version)
        BY <1>5 DEF installEpoch, Ratchet
    <2>2. \A v \in q.forgetTimers : v < q.currentEpoch
        <3>1. \A v \in r.forgetTimers : v \in Int /\ v < r.currentEpoch
            BY RoomBoundsAssumption DEF Sound, Ratchet, Epochs
        <3> QED
            BY <1>2, <1>5, <2>1, <3>1 DEF ToForget
    <2>3. q.epochs[q.currentEpoch] = entry
        BY <1>2, <1>4, <2>1 DEF Ratchet
    <2> HIDE DEF q, entry
    <2> QED
        BY <1>1, <1>3, <2>2, <2>3 DEF Sound
<1>6. CASE ~(c.version > r.currentEpoch)
    <2>1. q.currentEpoch = r.currentEpoch /\ q.forgetTimers = r.forgetTimers
        BY <1>6 DEF installEpoch, Ratchet
    <2>2. ASSUME q.currentEpoch >= 0
          PROVE  q.epochs[q.currentEpoch] # None /\ n \in q.epochs[q.currentEpoch].peerIndexMap
        <3>1. CASE c.version = q.currentEpoch
            BY <1>1, <1>2, <1>4, <3>1 DEF Ratchet
        <3>2. CASE c.version # q.currentEpoch
            <4>1. q.epochs[q.currentEpoch] = r.epochs[r.currentEpoch]
                BY <1>4, <2>1, <2>2, <3>2 DEF Ratchet
            <4> QED
                BY <2>1, <2>2, <4>1 DEF Sound
        <3> QED
            BY <3>1, <3>2
    <2> HIDE DEF q, entry
    <2> QED
        BY <1>3, <2>1, <2>2 DEF Sound
<1> QED
    BY <1>5, <1>6

LEMMA ContinueSound ==
    ASSUME NEW n \in Nodes, NEW r \in Ratchet, Sound(n, r), NEW s \in Slots, r.calls[s] \in Call
    PROVE  Sound(n, Continue(r, s))
<1> DEFINE c == IF r.calls[s].todo # {} THEN [r.calls[s] EXCEPT !.pc = "wrap"] ELSE None
<1>1. c \in Call \cup {None} /\ (c # None => c.pc # "derive")
    BY DEF Call
<1>2. Continue(r, s) = [r EXCEPT !.calls[s] = c]
    BY DEF Continue, Ratchet
<1> HIDE DEF c
<1> QED
    BY <1>1, <1>2, CallSound

LEMMA RoomSoundStep == RoomTypeOK /\ RoomSound /\ [Next]_roomVars => RoomSound'
<1> SUFFICES ASSUME RoomTypeOK, RoomSound, [Next]_roomVars
             PROVE  RoomSound'
    OBVIOUS
<1>0. \A n \in Nodes : ratchet[n] \in Ratchet /\ Sound(n, ratchet[n])
    BY DEF RoomTypeOK, RoomSound
<1>b. ASSUME NEW n \in Nodes, NEW s \in Slots, NEW c \in Call, Begin(n, s, c),
             c.pc = "derive" => n \in c.peerIndexMap
      PROVE  RoomSound'
    <2>1. ratchet' = [ratchet EXCEPT ![n] = [ratchet[n] EXCEPT !.calls[s] = c]]
        BY <1>b DEF Begin, RoomTypeOK
    <2>2. Sound(n, [ratchet[n] EXCEPT !.calls[s] = c])
        BY <1>0, <1>b, CallSound
    <2> QED
        BY <2>1, <2>2, OneRatchetSound
<1>1. ASSUME NEW p \in Nodes, Join(p)
      PROVE  RoomSound'
    <2> DEFINE peers == [n \in Nodes |-> IF n \in room THEN ratchet[n].publicKey ELSE 0]
    <2>1. peers \in PeerMap /\ changes + 1 \in Nat
        BY DEF PeerMap, RoomTypeOK, Ratchet
    <2>2. ratchet' = [ratchet EXCEPT ![p] = NewRatchet(changes + 1, peers)]
        BY <1>1 DEF Join
    <2> QED
        BY <2>1, <2>2, NewRatchetSound, OneRatchetSound
<1>2. ASSUME NEW p \in Nodes, Leave(p)
      PROVE  RoomSound'
    <2>1. ratchet' = [ratchet EXCEPT ![p] = NewRatchet(0, NoPeers)]
        BY <1>2 DEF Leave
    <2> QED
        BY <2>1, NoPeersType, NewRatchetSound, OneRatchetSound
<1>3. ASSUME NEW n \in Nodes, rotateOnMemberChange(n)
      PROVE  RoomSound'
    <2> DEFINE peers == [ratchet[n].peers EXCEPT ![Head(feed[n]).peer] = Head(feed[n]).publicKey]
    <2>1. PICK s \in Slots : \/ startNewEpoch(n, s, peers)
                             \/ ratchet' = [ratchet EXCEPT ![n].peers = peers]
        BY <1>3 DEF rotateOnMemberChange
    <2> HIDE DEF peers
    <2>2. CASE startNewEpoch(n, s, peers)
        <3> DEFINE call == [pc |-> "derive", version |-> ratchet[n].currentEpoch + 1,
                            chainKey |-> randomChainKey(n), buf |-> minted + 1,
                            peerIndexMap |-> Members(peers) \cup {n}, members |-> peers,
                            todo |-> Members(peers), sasPeer |-> None, secret |-> 0,
                            out |-> NoAnnouncements]
                   r == [ratchet[n] EXCEPT !.peers = peers, !.calls[s] = call]
        <3>1. n \in call.peerIndexMap
            OBVIOUS
        <3>2. ratchet' = [ratchet EXCEPT ![n] = r]
            BY <2>2 DEF startNewEpoch, RoomTypeOK
        <3>3. Sound(n, r)
            <4> HIDE DEF call
            <4> QED
                BY <1>0, <3>1 DEF Sound, Ratchet
        <3> QED
            BY <3>2, <3>3, OneRatchetSound
    <2>3. CASE ratchet' = [ratchet EXCEPT ![n].peers = peers]
        <3>1. Sound(n, [ratchet[n] EXCEPT !.peers = peers])
            BY <1>0 DEF Sound, Ratchet
        <3>2. ratchet' = [ratchet EXCEPT ![n] = [ratchet[n] EXCEPT !.peers = peers]]
            BY <2>3 DEF RoomTypeOK
        <3> QED
            BY <3>1, <3>2, OneRatchetSound
    <2> QED
        BY <2>1, <2>2, <2>3
<1>4. ASSUME NEW n \in Nodes, NEW p \in Nodes, consumeEpochAnnouncement(n, p)
      PROVE  RoomSound'
    <2> DEFINE msg == Head(channel[n][p])
               call == [pc |-> "derive", version |-> msg.version,
                        chainKey |-> msg.chainKey, buf |-> msg.secret,
                        peerIndexMap |-> msg.peerIndexMap, members |-> NoPeers,
                        todo |-> {}, sasPeer |-> msg.from, secret |-> msg.secret,
                        out |-> NoAnnouncements]
    <2>1. msg \in EpochAnnouncement
        BY <1>4 DEF consumeEpochAnnouncement, RoomTypeOK
    <2>2. call \in Call
        BY <2>1, NoPeersType DEF EpochAnnouncement, Call
    <2>3. PICK s \in Slots : \/ Begin(n, s, call) /\ n \in call.peerIndexMap
                             \/ UNCHANGED ratchet
        BY <1>4 DEF consumeEpochAnnouncement
    <2>4. CASE Begin(n, s, call) /\ n \in call.peerIndexMap
        <3> HIDE DEF call
        <3> QED
            BY <1>b, <2>2, <2>4
    <2>5. CASE UNCHANGED ratchet
        BY <2>5 DEF RoomSound, Sound
    <2> QED
        BY <2>3, <2>4, <2>5
<1>5. ASSUME NEW n \in Nodes, NEW p \in Nodes, rewrapCurrentEpochFor(n, p)
      PROVE  RoomSound'
    <2>0. PICK s \in Slots : \E c : Begin(n, s, c) /\ c.pc = "wrap"
        BY <1>5 DEF rewrapCurrentEpochFor
    <2>1. PICK c : Begin(n, s, c) /\ c.pc = "wrap"
        BY <2>0
    <2>2. ratchet' = [ratchet EXCEPT ![n] = [ratchet[n] EXCEPT !.calls[s] = c]]
        BY <2>1 DEF Begin, RoomTypeOK
    <2>3. Sound(n, [ratchet[n] EXCEPT !.calls[s] = c])
        BY <1>0, <2>1 DEF Sound, Ratchet
    <2> QED
        BY <2>2, <2>3, OneRatchetSound
<1>6. ASSUME NEW n \in Nodes, NEW p \in Nodes, markSasVerified(n, p)
      PROVE  RoomSound'
    <2>1. PICK sas : ratchet' = [ratchet EXCEPT ![n] = [ratchet[n] EXCEPT !.sasState = sas]]
        BY <1>6 DEF markSasVerified, RoomTypeOK
    <2>2. Sound(n, [ratchet[n] EXCEPT !.sasState = sas])
        BY <1>0 DEF Sound, Ratchet
    <2> QED
        BY <2>1, <2>2, OneRatchetSound
<1>7. ASSUME NEW n \in Nodes, NEW s \in Slots, deriveDone(n, s)
      PROVE  RoomSound'
    <2> DEFINE c == ratchet[n].calls[s]
               r == installEpoch(ratchet[n], c)
    <2>1. /\ c # None /\ c.pc = "derive"
          /\ ratchet' = [ratchet EXCEPT ![n] = IF c.sasPeer # None
                                                 THEN [r EXCEPT !.calls[s].pc = "sas"]
                                                 ELSE Continue(r, s)]
        BY <1>7 DEF deriveDone
    <2>2. c \in Call /\ n \in c.peerIndexMap
        BY <1>0, <2>1 DEF Sound, Ratchet
    <2>3. r \in Ratchet /\ r.calls = ratchet[n].calls /\ Sound(n, r)
        BY <1>0, <2>2, InstallType, InstallCalls, InstallSound
    <2>4. Sound(n, Continue(r, s))
        BY <2>2, <2>3, ContinueSound
    <2>5. Sound(n, [r EXCEPT !.calls[s].pc = "sas"])
        <3>1. [c EXCEPT !.pc = "sas"] \in Call /\ [c EXCEPT !.pc = "sas"].pc # "derive"
            BY <2>2 DEF Call
        <3>2. [r EXCEPT !.calls[s].pc = "sas"] = [r EXCEPT !.calls[s] = [c EXCEPT !.pc = "sas"]]
            BY <2>3 DEF Ratchet
        <3> HIDE DEF r, c
        <3> QED
            BY <2>3, <3>1, <3>2, CallSound
    <2> HIDE DEF r, c
    <2> QED
        BY <2>1, <2>4, <2>5, OneRatchetSound
<1>8. ASSUME NEW n \in Nodes, NEW s \in Slots, sasDone(n, s)
      PROVE  RoomSound'
    <2> DEFINE c == ratchet[n].calls[s]
               sas == installSas(ratchet[n].sasState, c.sasPeer, c.version, c.secret)
               r == [ratchet[n] EXCEPT !.sasState = sas]
    <2>1. c # None /\ ratchet' = [ratchet EXCEPT ![n] = Continue(r, s)]
        BY <1>8 DEF sasDone
    <2>2. c \in Call
        BY <1>0, <2>1 DEF Ratchet
    <2>3. sas \in [Nodes -> PeerSasState \cup {None}]
        BY <1>0, <2>2, InstallSasType DEF Ratchet, Call
    <2>4. r \in Ratchet /\ r.calls[s] \in Call /\ Sound(n, r)
        <3> HIDE DEF sas
        <3> QED
            BY <1>0, <2>2, <2>3 DEF Ratchet, Sound
    <2> HIDE DEF r
    <2> QED
        BY <2>1, <2>4, ContinueSound, OneRatchetSound
<1>9. ASSUME NEW n \in Nodes, NEW p \in Nodes, NEW s \in Slots, wrapDone(n, s, p)
      PROVE  RoomSound'
    <2>1. PICK a : Begin(n, s, [ratchet[n].calls[s] EXCEPT
                              !.pc = "sas", !.todo = @ \ {p}, !.sasPeer = p,
                              !.secret = minted + 1, !.out[p] = a])
        BY <1>9 DEF wrapDone
    <2> DEFINE c == [ratchet[n].calls[s] EXCEPT
                              !.pc = "sas", !.todo = @ \ {p}, !.sasPeer = p,
                              !.secret = minted + 1, !.out[p] = a]
    <2>2. ratchet[n].calls[s] \in Call
        <3>1. ratchet[n].calls[s] # None
            BY <1>9 DEF wrapDone
        <3> QED
            BY <1>0, <3>1 DEF Ratchet
    <2>3. c.pc = "sas"
        BY <2>2 DEF Call
    <2>4. ratchet' = [ratchet EXCEPT ![n] = [ratchet[n] EXCEPT !.calls[s] = c]]
        BY <2>1 DEF Begin, RoomTypeOK
    <2>5. Sound(n, [ratchet[n] EXCEPT !.calls[s] = c])
        <3> HIDE DEF c
        <3> QED
            BY <1>0, <2>3 DEF Sound, Ratchet
    <2> HIDE DEF c
    <2> QED
        BY <2>4, <2>5, OneRatchetSound
<1>10. ASSUME NEW n \in Nodes, NEW v \in Epochs, forgetEpoch(n, v)
       PROVE  RoomSound'
    <2> DEFINE calls == [s \in Slots |->
                           IF /\ ratchet[n].calls[s] # None
                              /\ Installed(n, v)
                              /\ ratchet[n].calls[s].buf = ratchet[n].epochs[v].buf
                             THEN [ratchet[n].calls[s] EXCEPT !.chainKey = Zeroed]
                             ELSE ratchet[n].calls[s]]
               r == [ratchet[n] EXCEPT !.forgetTimers = @ \ {v}, !.epochs[v] = None,
                                       !.calls = calls]
    <2>1. v \in ratchet[n].forgetTimers /\ ratchet' = [ratchet EXCEPT ![n] = r]
        BY <1>10 DEF forgetEpoch, RoomTypeOK
    <2>2. v # ratchet[n].currentEpoch
        BY <1>0, <2>1, RoomBoundsAssumption DEF Sound, Epochs
    <2>3. ASSUME NEW s \in Slots, calls[s] # None, calls[s].pc = "derive"
          PROVE  n \in calls[s].peerIndexMap
        <3>1. ratchet[n].calls[s] # None
            BY <2>3
        <3>2. ratchet[n].calls[s] \in Call
            BY <1>0, <3>1 DEF Ratchet
        <3>3. /\ calls[s].pc = ratchet[n].calls[s].pc
              /\ calls[s].peerIndexMap = ratchet[n].calls[s].peerIndexMap
            BY <3>2 DEF Call
        <3> QED
            BY <1>0, <2>3, <3>1, <3>3 DEF Sound
    <2> HIDE DEF calls
    <2>4. /\ r.calls = calls
          /\ r.currentEpoch = ratchet[n].currentEpoch
          /\ r.forgetTimers = ratchet[n].forgetTimers \ {v}
          /\ r.epochs = [ratchet[n].epochs EXCEPT ![v] = None]
        BY <1>0 DEF Ratchet
    <2>5. r.epochs[r.currentEpoch] = ratchet[n].epochs[ratchet[n].currentEpoch]
        BY <1>0, <2>2, <2>4 DEF Ratchet
    <2> HIDE DEF r
    <2>6. Sound(n, r)
        BY <1>0, <2>3, <2>4, <2>5 DEF Sound
    <2> QED
        BY <2>1, <2>6, OneRatchetSound
<1>11. CASE UNCHANGED roomVars
    BY <1>11 DEF roomVars, RoomSound, Sound
<1> QED
    BY <1>1, <1>2, <1>3, <1>4, <1>5, <1>6, <1>7, <1>8, <1>9, <1>10, <1>11 DEF Next

LEMMA RoomSoundCorrect == RoomSpec => []RoomSound
<1>1. Init => RoomSound
    <2> SUFFICES ASSUME Init, NEW n \in Nodes
                 PROVE  Sound(n, ratchet[n])
        BY DEF RoomSound
    <2>1. ratchet[n] = InitialRatchet(n)
        BY DEF Init
    <2>2. /\ InitialRatchet(n).currentEpoch = -1
          /\ InitialRatchet(n).forgetTimers = {}
          /\ InitialRatchet(n).calls = [s \in Slots |-> None]
        BY DEF InitialRatchet, NewRatchet
    <2> QED
        BY <2>1, <2>2 DEF Sound
<1> QED
    BY <1>1, RoomSoundStep, RoomTypeCorrect, PTL DEF RoomSpec

(***************************************************************************)
(* However calls overlap and announcements and timers interleave with      *)
(* them, advanceSending finds this node's key from the first epoch on.     *)
(***************************************************************************)
THEOREM SendersHaveKeys == RoomSpec => []CanSend
<1>1. RoomTypeOK /\ RoomSound => CanSend
    BY DEF RoomTypeOK, RoomSound, Sound, CanSend, Installed
<1> QED
    BY <1>1, RoomSoundCorrect, RoomTypeCorrect, PTL

(***************************************************************************)
(* isSasVerified.  The property is inductive: what remains to be seen of   *)
(* each action is what it does to the SAS of the one ratchet it changes.   *)
(***************************************************************************)
SasSound(sasState, secrets) ==
    \A p \in Nodes : sasState[p] # None /\ sasState[p].verified => sasState[p].data \in secrets

LEMMA OneSasSound ==
    ASSUME RoomTypeOK, VerifiedWasCompared, compared \subseteq compared', NEW n \in Nodes, NEW r,
           ratchet' = [ratchet EXCEPT ![n] = r], SasSound(r.sasState, compared')
    PROVE  VerifiedWasCompared'
<1> SUFFICES ASSUME NEW m \in Nodes, NEW p \in Nodes, ratchet'[m].sasState[p] # None,
                    ratchet'[m].sasState[p].verified
             PROVE  ratchet'[m].sasState[p].data \in compared'
    BY DEF VerifiedWasCompared
<1>1. CASE m = n
    BY <1>1 DEF RoomTypeOK, SasSound
<1>2. CASE m # n
    BY <1>2 DEF RoomTypeOK, VerifiedWasCompared
<1> QED
    BY <1>1, <1>2

LEMMA InstallSasState ==
    ASSUME NEW r \in Ratchet, NEW c \in Call
    PROVE  \/ installEpoch(r, c).sasState = r.sasState
           \/ installEpoch(r, c).sasState = wipeSasForRotation(r.sasState, c.version)
BY DEF installEpoch, Ratchet

LEMMA VerifiedStep ==
    RoomTypeOK /\ VerifiedWasCompared /\ [Next]_roomVars => VerifiedWasCompared'
<1> SUFFICES ASSUME RoomTypeOK, VerifiedWasCompared, [Next]_roomVars
             PROVE  VerifiedWasCompared'
    OBVIOUS
<1>0. \A n \in Nodes : ratchet[n] \in Ratchet /\ SasSound(ratchet[n].sasState, compared)
    BY DEF RoomTypeOK, VerifiedWasCompared, SasSound
<1>a. ASSUME NEW n \in Nodes, NEW r, ratchet' = [ratchet EXCEPT ![n] = r],
             r.sasState = ratchet[n].sasState, UNCHANGED compared
      PROVE  VerifiedWasCompared'
    BY <1>0, <1>a, OneSasSound
<1>b. ASSUME NEW n \in Nodes, NEW s \in Slots, NEW c, Begin(n, s, c), UNCHANGED compared
      PROVE  VerifiedWasCompared'
    <2>1. ratchet' = [ratchet EXCEPT ![n] = [ratchet[n] EXCEPT !.calls[s] = c]]
        BY <1>b DEF Begin, RoomTypeOK
    <2>2. [ratchet[n] EXCEPT !.calls[s] = c].sasState = ratchet[n].sasState
        BY <1>0 DEF Ratchet
    <2> QED
        BY <1>a, <1>b, <2>1, <2>2
<1>c. ASSUME NEW p \in Nodes, NEW k, NEW peers,
             ratchet' = [ratchet EXCEPT ![p] = NewRatchet(k, peers)], UNCHANGED compared
      PROVE  VerifiedWasCompared'
    <2>1. SasSound(NewRatchet(k, peers).sasState, compared')
        BY DEF SasSound, NewRatchet
    <2> QED
        BY <1>c, <2>1, OneSasSound
<1>1. ASSUME NEW p \in Nodes, Join(p)
      PROVE  VerifiedWasCompared'
    BY <1>1, <1>c DEF Join
<1>2. ASSUME NEW p \in Nodes, Leave(p)
      PROVE  VerifiedWasCompared'
    BY <1>2, <1>c DEF Leave
<1>3. ASSUME NEW n \in Nodes, rotateOnMemberChange(n)
      PROVE  VerifiedWasCompared'
    <2> DEFINE peers == [ratchet[n].peers EXCEPT ![Head(feed[n]).peer] = Head(feed[n]).publicKey]
    <2>1. PICK s \in Slots : \/ startNewEpoch(n, s, peers)
                             \/ ratchet' = [ratchet EXCEPT ![n].peers = peers]
        BY <1>3 DEF rotateOnMemberChange
    <2>2. UNCHANGED compared
        BY <1>3 DEF rotateOnMemberChange
    <2> HIDE DEF peers
    <2>3. CASE startNewEpoch(n, s, peers)
        <3>1. PICK c : ratchet' = [ratchet EXCEPT ![n].peers = peers, ![n].calls[s] = c]
            BY <2>3 DEF startNewEpoch
        <3>2. ratchet' = [ratchet EXCEPT ![n] = [ratchet[n] EXCEPT !.peers = peers, !.calls[s] = c]]
            BY <3>1 DEF RoomTypeOK
        <3>3. [ratchet[n] EXCEPT !.peers = peers, !.calls[s] = c].sasState = ratchet[n].sasState
            BY <1>0 DEF Ratchet
        <3> QED
            BY <1>a, <2>2, <3>2, <3>3
    <2>4. CASE ratchet' = [ratchet EXCEPT ![n].peers = peers]
        <3>1. ratchet' = [ratchet EXCEPT ![n] = [ratchet[n] EXCEPT !.peers = peers]]
            BY <2>4 DEF RoomTypeOK
        <3>2. [ratchet[n] EXCEPT !.peers = peers].sasState = ratchet[n].sasState
            BY <1>0 DEF Ratchet
        <3> QED
            BY <1>a, <2>2, <3>1, <3>2
    <2> QED
        BY <2>1, <2>3, <2>4
<1>4. ASSUME NEW n \in Nodes, NEW p \in Nodes, consumeEpochAnnouncement(n, p)
      PROVE  VerifiedWasCompared'
    <2>1. UNCHANGED compared
        BY <1>4 DEF consumeEpochAnnouncement
    <2>2. PICK s \in Slots : (\E c : Begin(n, s, c)) \/ UNCHANGED ratchet
        BY <1>4 DEF consumeEpochAnnouncement
    <2>3. CASE \E c : Begin(n, s, c)
        BY <1>b, <2>1, <2>3
    <2>4. CASE UNCHANGED ratchet
        BY <2>1, <2>4 DEF VerifiedWasCompared
    <2> QED
        BY <2>2, <2>3, <2>4
<1>5. ASSUME NEW n \in Nodes, NEW p \in Nodes, rewrapCurrentEpochFor(n, p)
      PROVE  VerifiedWasCompared'
    <2>1. UNCHANGED compared
        BY <1>5 DEF rewrapCurrentEpochFor
    <2>2. PICK s \in Slots : \E c : Begin(n, s, c)
        BY <1>5 DEF rewrapCurrentEpochFor
    <2>3. PICK c : Begin(n, s, c)
        BY <2>2
    <2> QED
        BY <1>b, <2>1, <2>3
<1>6. ASSUME NEW n \in Nodes, NEW p \in Nodes, markSasVerified(n, p)
      PROVE  VerifiedWasCompared'
    <2> DEFINE same == ratchet[n].sasState[p].data = ratchet[p].sasState[n].data
               sas  == [ratchet[n].sasState EXCEPT ![p].verified = same]
    <2>1. /\ ratchet[n].sasState[p] # None
          /\ ratchet' = [ratchet EXCEPT ![n] = [ratchet[n] EXCEPT !.sasState = sas]]
          /\ compared' = IF same THEN compared \cup {ratchet[n].sasState[p].data} ELSE compared
        BY <1>6 DEF markSasVerified, RoomTypeOK
    <2>2. ratchet[n].sasState[p] \in PeerSasState
        BY <1>0, <2>1 DEF Ratchet
    <2>3. /\ sas[p].verified = same
          /\ sas[p].data = ratchet[n].sasState[p].data
          /\ \A q \in Nodes \ {p} : sas[q] = ratchet[n].sasState[q]
        BY <1>0, <2>2 DEF Ratchet, PeerSasState
    <2>4. SasSound(sas, compared')
        <3> HIDE DEF sas
        <3> QED
            BY <1>0, <2>1, <2>3 DEF SasSound
    <2>5. [ratchet[n] EXCEPT !.sasState = sas].sasState = sas
        <3> HIDE DEF sas
        <3> QED
            BY <1>0 DEF Ratchet
    <2>6. compared \subseteq compared'
        BY <2>1
    <2> HIDE DEF sas
    <2> QED
        BY <2>1, <2>4, <2>5, <2>6, OneSasSound
<1>7. ASSUME NEW n \in Nodes, NEW s \in Slots, deriveDone(n, s)
      PROVE  VerifiedWasCompared'
    <2> DEFINE c == ratchet[n].calls[s]
               r == installEpoch(ratchet[n], c)
               q == IF c.sasPeer # None THEN [r EXCEPT !.calls[s].pc = "sas"] ELSE Continue(r, s)
    <2>1. c # None /\ ratchet' = [ratchet EXCEPT ![n] = q] /\ UNCHANGED compared
        BY <1>7 DEF deriveDone
    <2>2. c \in Call
        BY <1>0, <2>1 DEF Ratchet
    <2>3. r \in Ratchet /\ SasSound(r.sasState, compared)
        <3>1. SasSound(wipeSasForRotation(ratchet[n].sasState, c.version), compared)
            BY <1>0 DEF SasSound, wipeSasForRotation
        <3> QED
            BY <1>0, <2>2, <3>1, InstallType, InstallSasState
    <2>4. q.sasState = r.sasState
        <3> HIDE DEF r, c
        <3> QED
            BY <2>3 DEF Continue, Ratchet
    <2> HIDE DEF q, r
    <2> QED
        BY <2>1, <2>3, <2>4, OneSasSound
<1>8. ASSUME NEW n \in Nodes, NEW s \in Slots, sasDone(n, s)
      PROVE  VerifiedWasCompared'
    <2> DEFINE c == ratchet[n].calls[s]
               sas == installSas(ratchet[n].sasState, c.sasPeer, c.version, c.secret)
               r == [ratchet[n] EXCEPT !.sasState = sas]
    <2>1. ratchet' = [ratchet EXCEPT ![n] = Continue(r, s)] /\ UNCHANGED compared
        BY <1>8 DEF sasDone
    <2>2. SasSound(sas, compared)
        BY <1>0 DEF SasSound, installSas, Ratchet
    <2>3. Continue(r, s).sasState = sas
        <3> HIDE DEF sas
        <3> QED
            BY <1>0 DEF Continue, Ratchet
    <2> HIDE DEF sas, r
    <2> QED
        BY <2>1, <2>2, <2>3, OneSasSound
<1>9. ASSUME NEW n \in Nodes, NEW p \in Nodes, NEW s \in Slots, wrapDone(n, s, p)
      PROVE  VerifiedWasCompared'
    <2>1. UNCHANGED compared
        BY <1>9 DEF wrapDone
    <2>2. PICK c : Begin(n, s, c)
        BY <1>9 DEF wrapDone
    <2> QED
        BY <1>b, <2>1, <2>2
<1>10. ASSUME NEW n \in Nodes, NEW v \in Epochs, forgetEpoch(n, v)
       PROVE  VerifiedWasCompared'
    <2>1. PICK timers, epochs, calls :
             ratchet' = [ratchet EXCEPT ![n].forgetTimers = timers, ![n].epochs = epochs,
                                        ![n].calls = calls]
        BY <1>10 DEF forgetEpoch
    <2> DEFINE r == [ratchet[n] EXCEPT !.forgetTimers = timers, !.epochs = epochs, !.calls = calls]
    <2>2. ratchet' = [ratchet EXCEPT ![n] = r] /\ r.sasState = ratchet[n].sasState
        BY <1>0, <2>1 DEF RoomTypeOK, Ratchet
    <2>3. UNCHANGED compared
        BY <1>10 DEF forgetEpoch
    <2> QED
        BY <1>a, <2>2, <2>3
<1>11. CASE UNCHANGED roomVars
    BY <1>11 DEF roomVars, VerifiedWasCompared
<1> QED
    BY <1>1, <1>2, <1>3, <1>4, <1>5, <1>6, <1>7, <1>8, <1>9, <1>10, <1>11 DEF Next

(***************************************************************************)
(* However often a session is wrapped again, rotated or left, a peer is    *)
(* reported as verified only for a secret that users compared.             *)
(***************************************************************************)
THEOREM VerifiedMeansCompared == RoomSpec => []VerifiedWasCompared
<1>1. Init => VerifiedWasCompared
    <2> SUFFICES ASSUME Init, NEW n \in Nodes, NEW p \in Nodes
                 PROVE  ratchet[n].sasState[p] = None
        BY DEF VerifiedWasCompared
    <2>1. ratchet[n] = InitialRatchet(n)
        BY DEF Init
    <2>2. InitialRatchet(n).sasState = [q \in Nodes |-> None]
        BY DEF InitialRatchet, NewRatchet
    <2> QED
        BY <2>1, <2>2
<1> QED
    BY <1>1, VerifiedStep, RoomTypeCorrect, PTL DEF RoomSpec

-----------------------------------------------------------------------------
(***************************************************************************)
(* The inductive invariants of the proofs about a room in which every      *)
(* application awaits a call before it makes the next.  The author is then *)
(* the first of the nodes that stay.  They are stated for a node n with    *)
(* ratchet r, feed f and announcements q on their way to it, and for the   *)
(* ratchet a of the author.                                                *)
(***************************************************************************)
OneCallAtATime == Steady # {} /\ \E s \in Slots : Slots = {s}
Author == CHOOSE n \in Steady : \A p \in Steady : n <= p
TheSlot == CHOOSE s \in Slots : TRUE
CallIn(r) == r.calls[TheSlot]

\* Everybody in the room knows the author and comes after it, so that only the
\* author mints, wraps and announces, and to others only.
Seated(n, r, f, mail, present) ==
    /\ present <=> r.publicKey # 0
    /\ present => Author <= n
    /\ present /\ n # Author => r.peers[Author] # 0
    /\ r.peers[n] = 0
    /\ \A i \in DOMAIN f : f[i].peer > Author /\ f[i].peer # n
    /\ \A p \in Nodes : mail[p] # <<>> => p = Author /\ n # Author
    /\ CallIn(r) # None =>
          /\ present
          /\ n # Author => /\ CallIn(r).pc # "wrap" /\ CallIn(r).todo = {}
                           /\ CallIn(r).out = NoAnnouncements /\ CallIn(r).sasPeer = Author
          /\ n = Author => Author \notin CallIn(r).todo /\ CallIn(r).out[Author] = None
    /\ n = Author => \A p \in Members(r.peers) : p > Author

SeatInv ==
    /\ Steady \subseteq room
    /\ \A n \in Nodes : Seated(n, ratchet[n], feed[n], channel[n], n \in room)

\* The author's chain keys are numbered in the order of their epochs, a call of
\* the author is about the epoch it installs or has installed, and that epoch is
\* for the peers that the author knows.  m is the number of keys so far.
AuthorEpochs(a, m) ==
    \A v \in Epochs : a.epochs[v] # None =>
        /\ v <= a.currentEpoch
        /\ a.epochs[v].chainKey = a.epochs[v].buf /\ a.epochs[v].buf <= m
        /\ \A w \in Epochs : a.epochs[w] # None /\ v < w => a.epochs[v].buf < a.epochs[w].buf

AuthorCall(a, c, m) ==
    /\ c.chainKey = c.buf /\ c.buf <= m
    /\ c.peerIndexMap = Members(a.peers) \cup {Author}
    /\ c.pc = "derive" =>
          /\ c.version = a.currentEpoch + 1
          /\ \A v \in Epochs : a.epochs[v] # None => a.epochs[v].buf < c.buf
          /\ c.members = a.peers /\ c.todo = Members(a.peers)
          /\ c.out = NoAnnouncements /\ c.sasPeer = None
    /\ c.pc # "derive" =>
          /\ c.version = a.currentEpoch
          /\ a.epochs[c.version] =
                [chainKey |-> c.chainKey, buf |-> c.buf, peerIndexMap |-> c.peerIndexMap]
    /\ c.pc = "sas" =>
          /\ c.sasPeer \in Nodes \ {Author}
          /\ c.out[c.sasPeer] # None /\ c.out[c.sasPeer].secret = c.secret
    /\ \A p \in Nodes : c.out[p] # None =>
          /\ c.out[p].version = c.version /\ c.out[p].from = Author
          /\ c.out[p].chainKey = c.chainKey /\ c.out[p].peerIndexMap = c.peerIndexMap

AuthorSound(a, m) ==
    /\ AuthorEpochs(a, m)
    /\ a.currentEpoch >= 0 /\ CallIn(a) = None =>
          a.epochs[a.currentEpoch].peerIndexMap = Members(a.peers) \cup {Author}
    /\ CallIn(a) # None => AuthorCall(a, CallIn(a), m)

AuthorInv == AuthorSound(ratchet[Author], minted)

\* The author's newest epoch, under way or installed.
NewestVersion(a) == IF CallIn(a) # None THEN CallIn(a).version ELSE a.currentEpoch
NewestEpoch(a) == IF CallIn(a) # None THEN CallIn(a) ELSE a.epochs[a.currentEpoch]
Same(e, f) == e.chainKey = f.chainKey /\ e.peerIndexMap = f.peerIndexMap

\* What has reached node n came before the announcement with this secret.
Ahead(r, q, secret) ==
    /\ \A v \in Epochs : r.epochs[v] # None => r.epochs[v].buf < secret
    /\ CallIn(r) # None => CallIn(r).buf < secret
    /\ \A i \in DOMAIN q : q[i].secret < secret

\* Announcements reach a node in the order of their versions, none is newer than
\* the newest epoch e of version v, and one of that version has its chain key and
\* its map.  out is what the author has wrapped and not sent.
InOrder(r, q, out, v, e, m) ==
    /\ Ahead(r, q, m + 1)
    /\ out # None => out.secret <= m /\ Ahead(r, q, out.secret)
    /\ r.currentEpoch <= v
    /\ r.currentEpoch >= 0 /\ r.currentEpoch = v => Same(r.epochs[r.currentEpoch], e)
    /\ \A i \in DOMAIN q :
          /\ r.currentEpoch <= q[i].version /\ q[i].version <= v
          /\ q[i].version = v => Same(q[i], e)
          /\ q[i].from = Author /\ q[i].chainKey \in 0..m
          /\ \A w \in Epochs : r.epochs[w] # None => r.epochs[w].buf < q[i].secret
          /\ \A j \in DOMAIN q : i < j => q[i].version <= q[j].version /\ q[i].secret < q[j].secret
    /\ CallIn(r) # None /\ CallIn(r).pc = "derive" =>
          LET c == CallIn(r) IN
          /\ r.currentEpoch <= c.version /\ c.version <= v
          /\ c.version = v => Same(c, e)
          /\ \A w \in Epochs : r.epochs[w] # None => r.epochs[w].buf < c.buf
          /\ \A i \in DOMAIN q : c.version <= q[i].version /\ c.buf < q[i].secret
    /\ CallIn(r) # None /\ CallIn(r).pc = "sas" => CallIn(r).version = r.currentEpoch

OutFor(a, n) == IF CallIn(a) # None THEN CallIn(a).out[n] ELSE None

MailInv ==
    LET a == ratchet[Author] IN
    \A n \in Nodes \ {Author} :
        InOrder(ratchet[n], channel[n][Author], OutFor(a, n), NewestVersion(a), NewestEpoch(a), minted)

\* The author has heard of a change of every node that it does not know as it is:
\* f is the author's feed.
About(n, f) == {i \in DOMAIN f : f[i].peer = n}
Heard(n, f, knownAs, publicKey) ==
    /\ About(n, f) = {} => knownAs = publicKey
    /\ \A i \in About(n, f) : (\A j \in About(n, f) : j <= i) => f[i].publicKey = publicKey

FeedInv ==
    \A n \in Nodes \ {Author} :
        Heard(n, feed[Author], ratchet[Author].peers[n], ratchet[n].publicKey)

\* Who has the newest chain key is a peer of the author or about to be looked at.
KnownInv ==
    LET a == ratchet[Author] IN
    /\ \A n \in Nodes : known[n] \subseteq 0..minted
    /\ NewestVersion(a) >= 0 => \A n \in Nodes \ {Author} :
          NewestEpoch(a).chainKey \in known[n] =>
              About(n, feed[Author]) # {} \/ a.peers[n] # 0

\* How far the newest epoch is on its way to node n, and the secret with it: the
\* author is still to wrap it, has wrapped it, has sent it; n has consumed it, has
\* finished with it.
Secret(n, a, secret) == a.sasState[n] # None /\ a.sasState[n].data = secret
ToWrap(n, a) == CallIn(a) # None /\ n \in CallIn(a).todo
Wrapped(n, a, r) ==
    /\ OutFor(a, n).wrappedFor = r.publicKey
    /\ \/ CallIn(a).pc = "sas" /\ CallIn(a).sasPeer = n
       \/ Secret(n, a, OutFor(a, n).secret)
Sent(n, a, r, q) ==
    /\ q # <<>>
    /\ q[Len(q)].wrappedFor = r.publicKey
    /\ q[Len(q)].version = NewestVersion(a)
    /\ Secret(n, a, q[Len(q)].secret)
Consumed(n, a, r, q) ==
    /\ q = <<>>
    /\ CallIn(r) # None
    /\ CallIn(r).version = NewestVersion(a)
    /\ Secret(n, a, CallIn(r).secret)
Shared(n, a, r, q) ==
    /\ q = <<>>
    /\ CallIn(r) = None
    /\ r.currentEpoch = NewestVersion(a)
    /\ r.sasState[Author] # None
    /\ Secret(n, a, r.sasState[Author].data)
OnItsWay(n, a, r, q) ==
    /\ ToWrap(n, a) => CallIn(a).members[n] = r.publicKey
    /\ ~ToWrap(n, a) /\ OutFor(a, n) # None => Wrapped(n, a, r)
    /\ ~ToWrap(n, a) /\ OutFor(a, n) = None =>
          Sent(n, a, r, q) \/ Consumed(n, a, r, q) \/ Shared(n, a, r, q)

\* Nothing of a node that has left remains when the author has handled that.
Gone(n, a) ==
    /\ a.sasState[n] = None
    /\ CallIn(a) # None =>
          n \notin CallIn(a).todo /\ (CallIn(a).pc = "sas" => CallIn(a).sasPeer # n)
Deriving(a) == CallIn(a) # None /\ CallIn(a).pc = "derive"

\* A node shows a SAS of its current epoch, with the author or as the author.
SasOfEpoch(n, r) ==
    \A p \in Nodes : r.sasState[p] # None =>
        r.sasState[p].epoch = r.currentEpoch /\ n # p /\ Author \in {n, p}

SyncInv ==
    LET a == ratchet[Author] IN
    /\ \A n \in Nodes : SasOfEpoch(n, ratchet[n])
    /\ \A n \in Nodes \ {Author} : About(n, feed[Author]) = {} =>
          /\ n \in room /\ NewestVersion(a) >= 0 =>
                OnItsWay(n, a, ratchet[n], channel[n][Author])
          /\ n \notin room /\ ~Deriving(a) => Gone(n, a)

(***************************************************************************)
(* A room in which every application awaits its calls.  The author is the  *)
(* least of the nodes that stay.                                           *)
(***************************************************************************)
LEMMA TheAuthor ==
    ASSUME OneCallAtATime
    PROVE  /\ Author \in Steady /\ Author \in Nodes /\ Author \in Nat
           /\ \A p \in Steady : Author <= p
<1>1. Steady \subseteq Nat /\ Steady # {}
    BY NodesAssumption DEF OneCallAtATime
<1>2. IsWellFoundedOn(OpToRel(<, Nat), Nat)
    BY NatLessThanWellFounded
<1>3. PICK n \in Steady : \A p \in Steady : ~(<<p, n>> \in OpToRel(<, Nat))
    BY ONLY <1>1, <1>2, WFMin
<1>4. \A p \in Steady : ~(p < n)
    BY <1>1, <1>3 DEF OpToRel
<1>5. \A p \in Steady : n <= p
    BY <1>1, <1>4
<1> QED
    BY <1>1, <1>5, NodesAssumption DEF Author

LEMMA OneSlot ==
    ASSUME OneCallAtATime
    PROVE  TheSlot \in Slots /\ \A s \in Slots : s = TheSlot
BY DEF OneCallAtATime, TheSlot

\* The ratchet of one node is replaced.
LEMMA OneRatchet ==
    ASSUME RoomTypeOK, NEW n \in Nodes, NEW r, ratchet' = [ratchet EXCEPT ![n] = r]
    PROVE  ratchet'[n] = r /\ \A p \in Nodes : p # n => ratchet'[p] = ratchet[p]
BY DEF RoomTypeOK

\* None of the six is inductive alone: that an announcement is in order needs the
\* author's numbering, which needs that nobody else announces; that the last one
\* reaches a node needs that it was wrapped for the key that the author has heard.
ConvergeInv == SeatInv /\ AuthorInv /\ MailInv /\ FeedInv /\ KnownInv /\ SyncInv

\* A node other than the author takes a step.
LEMMA NodeStep ==
    ASSUME OneCallAtATime, RoomTypeOK, ConvergeInv, NEW n \in Nodes \ {Author}, NEW r,
           ratchet' = [ratchet EXCEPT ![n] = r],
           room' = room, minted' = minted,
           \A p \in Nodes : p # n => /\ feed'[p] = feed[p] /\ channel'[p] = channel[p]
                                     /\ known'[p] = known[p],
           r.publicKey = ratchet[n].publicKey,
           Seated(n, r, feed'[n], channel'[n], n \in room),
           InOrder(r, channel'[n][Author], OutFor(ratchet[Author], n), NewestVersion(ratchet[Author]),
                   NewestEpoch(ratchet[Author]), minted),
           known'[n] \subseteq 0..minted,
           known'[n] = known[n] \/ n \in room,
           SasOfEpoch(n, r),
           n \in room /\ NewestVersion(ratchet[Author]) >= 0 /\ About(n, feed[Author]) = {} =>
               OnItsWay(n, ratchet[Author], r, channel'[n][Author])
    PROVE  ConvergeInv'
<1> DEFINE a == ratchet[Author]
<1>0. Author \in Nodes /\ Author # n
    BY TheAuthor
<1>1. /\ ratchet'[n] = r /\ ratchet'[Author] = a
      /\ \A p \in Nodes : p # n => ratchet'[p] = ratchet[p]
    BY <1>0, OneRatchet
<1>2. feed'[Author] = feed[Author]
    BY <1>0
<1>3. SeatInv'
    BY <1>1 DEF ConvergeInv, SeatInv
<1>4. AuthorInv'
    BY <1>1 DEF ConvergeInv, AuthorInv
<1>5. MailInv'
    BY <1>1 DEF ConvergeInv, MailInv
<1>6. FeedInv'
    BY <1>1, <1>2 DEF ConvergeInv, FeedInv
<1>7. n \in room => About(n, feed[Author]) # {} \/ a.peers[n] # 0
    BY DEF ConvergeInv, SeatInv, Seated, FeedInv, Heard
<1>8. KnownInv'
    BY <1>1, <1>2, <1>7 DEF ConvergeInv, KnownInv
<1>9. SyncInv'
    BY <1>1, <1>2 DEF ConvergeInv, SyncInv
<1> QED
    BY <1>3, <1>4, <1>5, <1>6, <1>8, <1>9 DEF ConvergeInv

\* The author takes a step.
LEMMA AuthorStep ==
    ASSUME OneCallAtATime, RoomTypeOK, ConvergeInv, NEW a,
           ratchet' = [ratchet EXCEPT ![Author] = a],
           room' = room, known' = known, minted' \in Nat, minted <= minted',
           a.publicKey = ratchet[Author].publicKey,
           \A p \in Nodes : p # Author => feed'[p] = feed[p],
           Seated(Author, a, feed'[Author], channel'[Author], Author \in room),
           AuthorSound(a, minted'),
           SasOfEpoch(Author, a),
           \A n \in Nodes \ {Author} :
              /\ Seated(n, ratchet[n], feed[n], channel'[n], n \in room)
              /\ InOrder(ratchet[n], channel'[n][Author], OutFor(a, n), NewestVersion(a),
                         NewestEpoch(a), minted')
              /\ Heard(n, feed'[Author], a.peers[n], ratchet[n].publicKey)
              /\ NewestVersion(a) >= 0 /\ NewestEpoch(a).chainKey \in known[n] =>
                    About(n, feed'[Author]) # {} \/ a.peers[n] # 0
              /\ About(n, feed'[Author]) = {} =>
                    /\ n \in room /\ NewestVersion(a) >= 0 =>
                          OnItsWay(n, a, ratchet[n], channel'[n][Author])
                    /\ n \notin room /\ ~Deriving(a) => Gone(n, a)
    PROVE  ConvergeInv'
<1>0. Author \in Nodes
    BY TheAuthor
<1>1. ratchet'[Author] = a /\ \A p \in Nodes : p # Author => ratchet'[p] = ratchet[p]
    BY <1>0, OneRatchet
<1>3. SeatInv'
    BY <1>0, <1>1 DEF ConvergeInv, SeatInv
<1>4. AuthorInv'
    BY <1>1 DEF ConvergeInv, AuthorInv
<1>5. MailInv'
    BY <1>1 DEF ConvergeInv, MailInv
<1>6. FeedInv'
    BY <1>1 DEF ConvergeInv, FeedInv
<1>7. \A n \in Nodes : known'[n] \subseteq 0..minted'
    BY DEF ConvergeInv, KnownInv, RoomTypeOK
<1>8. KnownInv'
    BY <1>1, <1>7 DEF ConvergeInv, KnownInv
<1>9. SyncInv'
    BY <1>0, <1>1 DEF ConvergeInv, SyncInv
<1> QED
    BY <1>3, <1>4, <1>5, <1>6, <1>8, <1>9 DEF ConvergeInv

\* The predicates look at some fields of a ratchet only.
LEMMA InOrderFields ==
    ASSUME NEW r, NEW t, t.epochs = r.epochs, t.currentEpoch = r.currentEpoch, t.calls = r.calls,
           NEW q, NEW out, NEW v, NEW e, NEW m, InOrder(r, q, out, v, e, m)
    PROVE  InOrder(t, q, out, v, e, m)
BY DEF InOrder, Ahead, CallIn

LEMMA SeatedFields ==
    ASSUME NEW r, NEW t, t.publicKey = r.publicKey, t.peers = r.peers, t.calls = r.calls,
           NEW n, NEW f, NEW mail, NEW present, Seated(n, r, f, mail, present)
    PROVE  Seated(n, t, f, mail, present)
BY DEF Seated, CallIn

LEMMA OnItsWayFields ==
    ASSUME NEW r, NEW t, t.publicKey = r.publicKey, t.currentEpoch = r.currentEpoch,
           t.calls = r.calls, t.sasState = r.sasState,
           NEW n, NEW a, NEW q, OnItsWay(n, a, r, q)
    PROVE  OnItsWay(n, a, t, q)
BY DEF OnItsWay, ToWrap, Wrapped, Sent, Consumed, Shared, CallIn

\* What the invariants say of one node.
LEMMA NodeFacts ==
    ASSUME OneCallAtATime, RoomTypeOK, ConvergeInv, NEW n \in Nodes \ {Author}
    PROVE  /\ ratchet[n] \in Ratchet
           /\ channel[n] \in [Nodes -> Seq(EpochAnnouncement)]
           /\ feed[n] \in Seq(MemberChange)
           /\ minted \in Nat
           /\ Seated(n, ratchet[n], feed[n], channel[n], n \in room)
           /\ InOrder(ratchet[n], channel[n][Author], OutFor(ratchet[Author], n),
                      NewestVersion(ratchet[Author]), NewestEpoch(ratchet[Author]), minted)
           /\ known[n] \subseteq 0..minted
           /\ SasOfEpoch(n, ratchet[n])
           /\ n \in room /\ NewestVersion(ratchet[Author]) >= 0 /\ About(n, feed[Author]) = {} =>
                 OnItsWay(n, ratchet[Author], ratchet[n], channel[n][Author])
BY DEF RoomTypeOK, ConvergeInv, SeatInv, MailInv, KnownInv, SyncInv

LEMMA TailOf ==
    ASSUME NEW S, NEW q \in Seq(S), q # <<>>
    PROVE  /\ Tail(q) \in Seq(S) /\ Head(q) = q[1] /\ Head(q) \in S
           /\ Len(q) \in Nat /\ Len(q) > 0 /\ Len(Tail(q)) = Len(q) - 1
           /\ DOMAIN q = 1..Len(q) /\ DOMAIN Tail(q) = 1..(Len(q) - 1)
           /\ \A i \in DOMAIN Tail(q) : i + 1 \in DOMAIN q /\ Tail(q)[i] = q[i + 1]
<1>1. Len(q) \in Nat /\ Len(q) > 0 /\ Tail(q) \in Seq(S) /\ Len(Tail(q)) = Len(q) - 1
    OBVIOUS
<1>2. DOMAIN q = 1..Len(q) /\ DOMAIN Tail(q) = 1..(Len(q) - 1)
    BY <1>1
<1>3. \A i \in 1..(Len(q) - 1) : Tail(q)[i] = q[i + 1]
    BY <1>1
<1>4. \A i \in 1..(Len(q) - 1) : i + 1 \in 1..Len(q)
    BY <1>1
<1>5. Head(q) = q[1] /\ Head(q) \in S
    BY <1>1
<1> QED
    BY ONLY <1>1, <1>2, <1>3, <1>4, <1>5

LEMMA LastOfTail ==
    ASSUME NEW S, NEW q \in Seq(S), q # <<>>
    PROVE  /\ Len(q) > 1 => Tail(q) # <<>> /\ Tail(q)[Len(Tail(q))] = q[Len(q)]
           /\ Len(q) = 1 => Tail(q) = <<>>
<1>1. /\ Tail(q) \in Seq(S) /\ Len(q) \in Nat /\ Len(Tail(q)) = Len(q) - 1
      /\ \A i \in 1..(Len(q) - 1) : Tail(q)[i] = q[i + 1]
    BY TailOf
<1>2. ASSUME Len(q) > 1
      PROVE  Tail(q)[Len(Tail(q))] = q[Len(q)]
    <2>1. Len(q) - 1 \in 1..(Len(q) - 1) /\ (Len(q) - 1) + 1 = Len(q)
        BY <1>1, <1>2
    <2> QED
        BY <1>1, <2>1
<1>3. Len(q) > 1 => Tail(q) # <<>>
    <2> DEFINE t == Tail(q)
    <2>1. Len(q) > 1 => Len(t) # 0
        BY <1>1
    <2> HIDE DEF t
    <2>2. t = <<>> => Len(t) = 0
        OBVIOUS
    <2> QED
        BY <2>1, <2>2 DEF t
<1>4. Len(q) = 1 => Tail(q) = <<>>
    <2> DEFINE t == Tail(q)
    <2>1. t \in Seq(S) /\ (Len(q) = 1 => Len(t) = 0)
        BY <1>1
    <2> HIDE DEF t
    <2>2. Len(t) = 0 => t = <<>>
        BY <2>1
    <2> QED
        BY <2>1, <2>2 DEF t
<1> QED
    BY <1>2, <1>3, <1>4

\* Only the author is authoritative.
LEMMA NotAuthor ==
    ASSUME OneCallAtATime, NEW n \in Nodes, n # Author, Author <= n,
           NEW peers, peers[Author] # 0
    PROVE  ~isAuthoritativeAuthor(n, peers)
<1>1. Author \in Members(peers)
    BY TheAuthor DEF Members
<1>2. ~(n < Author)
    BY NodesAssumption, TheAuthor
<1> QED
    BY <1>1, <1>2 DEF isAuthoritativeAuthor

LEMMA NodeRotates ==
    ASSUME OneCallAtATime, RoomTypeOK, ConvergeInv, NEW n \in Nodes \ {Author},
           rotateOnMemberChange(n)
    PROVE  ConvergeInv'
<1> DEFINE delta == Head(feed[n])
           next == [ratchet[n].peers EXCEPT ![delta.peer] = delta.publicKey]
           r == [ratchet[n] EXCEPT !.peers = next]
<1>0. Author \in Nodes /\ Author \in Nat
    BY TheAuthor
<1>1. n \in room /\ feed[n] # <<>>
    BY DEF rotateOnMemberChange
<1>2. /\ delta \in MemberChange /\ delta = feed[n][1]
      /\ delta.peer > Author /\ delta.peer # n
    BY <1>1, NodeFacts, TailOf DEF Seated
<1>3. /\ ratchet[n].peers \in [Nodes -> Nat]
      /\ ratchet[n].peers[Author] # 0 /\ ratchet[n].peers[n] = 0 /\ Author <= n
    BY <1>1, NodeFacts DEF Seated, Ratchet, PeerMap
<1>4. next[Author] # 0 /\ next[n] = 0
    <2>1. delta.peer # Author
        BY <1>0, <1>2, NodesAssumption DEF MemberChange
    <2> QED
        BY <1>0, <1>2, <1>3, <2>1
<1>5. ~isAuthoritativeAuthor(n, next)
    <2> HIDE DEF next
    <2> QED
        BY <1>3, <1>4, NotAuthor
<1>6. ratchet' = [ratchet EXCEPT ![n].peers = next]
    BY <1>5 DEF rotateOnMemberChange
<1>7. ratchet' = [ratchet EXCEPT ![n] = r]
    <2> HIDE DEF next
    <2> QED
        BY <1>6 DEF RoomTypeOK
<1>8. /\ room' = room /\ minted' = minted /\ channel' = channel /\ known' = known
      /\ feed'[n] = Tail(feed[n])
      /\ \A p \in Nodes : p # n => feed'[p] = feed[p]
    <2>1. feed' = [feed EXCEPT ![n] = Tail(@)]
        BY DEF rotateOnMemberChange
    <2> QED
        BY <1>5, <2>1 DEF rotateOnMemberChange, RoomTypeOK
<1>9. /\ r.publicKey = ratchet[n].publicKey /\ r.peers = next /\ r.epochs = ratchet[n].epochs
      /\ r.currentEpoch = ratchet[n].currentEpoch /\ r.calls = ratchet[n].calls
      /\ r.sasState = ratchet[n].sasState
    <2> HIDE DEF next
    <2> QED
        BY NodeFacts DEF Ratchet
<1> HIDE DEF r, next
<1>10. Seated(n, r, feed'[n], channel'[n], n \in room)
    <2>1. \A i \in DOMAIN feed'[n] : feed'[n][i].peer > Author /\ feed'[n][i].peer # n
        BY <1>1, <1>8, NodeFacts, TailOf DEF Seated
    <2> QED
        BY <1>4, <1>8, <1>9, <2>1, NodeFacts DEF Seated, CallIn
<1>11. InOrder(r, channel'[n][Author], OutFor(ratchet[Author], n), NewestVersion(ratchet[Author]),
                   NewestEpoch(ratchet[Author]), minted)
    BY <1>8, <1>9, NodeFacts, InOrderFields
<1>12. SasOfEpoch(n, r)
    BY <1>9, NodeFacts DEF SasOfEpoch
<1>13. n \in room /\ NewestVersion(ratchet[Author]) >= 0 /\ About(n, feed[Author]) = {} =>
               OnItsWay(n, ratchet[Author], r, channel'[n][Author])
    BY <1>8, <1>9, NodeFacts, OnItsWayFields
<1> QED
    BY <1>7, <1>8, <1>9, <1>10, <1>11, <1>12, <1>13, NodeFacts, NodeStep

\* The newest epoch is for the peers that the author knows.
LEMMA NewestMap ==
    ASSUME ConvergeInv, NewestVersion(ratchet[Author]) >= 0
    PROVE  NewestEpoch(ratchet[Author]).peerIndexMap = Members(ratchet[Author].peers) \cup {Author}
BY DEF ConvergeInv, AuthorInv, AuthorSound, AuthorCall, NewestVersion, NewestEpoch

LEMMA NewestHas ==
    ASSUME OneCallAtATime, RoomTypeOK, ConvergeInv, NEW n \in room \ {Author},
           NewestVersion(ratchet[Author]) >= 0, About(n, feed[Author]) = {}
    PROVE  n \in NewestEpoch(ratchet[Author]).peerIndexMap
<1>1. n \in Nodes
    BY DEF RoomTypeOK
<1>2. ratchet[n].publicKey # 0
    BY <1>1 DEF ConvergeInv, SeatInv, Seated
<1>3. ratchet[Author].peers[n] = ratchet[n].publicKey
    BY <1>1 DEF ConvergeInv, FeedInv, Heard
<1> QED
    BY <1>1, <1>2, <1>3, NewestMap DEF Members

\* An announcement is taken from the channel.
LEMMA InOrderTail ==
    ASSUME NEW r, NEW q \in Seq(EpochAnnouncement), q # <<>>, NEW out, NEW v, NEW e, NEW m \in Nat,
           InOrder(r, q, out, v, e, m)
    PROVE  InOrder(r, Tail(q), out, v, e, m)
<1>1. /\ \A i \in DOMAIN Tail(q) : i + 1 \in DOMAIN q /\ Tail(q)[i] = q[i + 1]
      /\ DOMAIN Tail(q) \subseteq Int
    BY TailOf
<1>2. \A i, j \in DOMAIN Tail(q) : i < j => i + 1 < j + 1
    BY <1>1
<1>3. \A s : Ahead(r, q, s) => Ahead(r, Tail(q), s)
    BY <1>1 DEF Ahead
<1>4. /\ Ahead(r, Tail(q), m + 1)
      /\ out # None => out.secret <= m /\ Ahead(r, Tail(q), out.secret)
    BY <1>3 DEF InOrder
<1>5. ASSUME NEW i \in DOMAIN Tail(q)
      PROVE  /\ r.currentEpoch <= Tail(q)[i].version /\ Tail(q)[i].version <= v
             /\ Tail(q)[i].version = v => Same(Tail(q)[i], e)
             /\ Tail(q)[i].from = Author /\ Tail(q)[i].chainKey \in 0..m
             /\ \A w \in Epochs : r.epochs[w] # None => r.epochs[w].buf < Tail(q)[i].secret
             /\ \A j \in DOMAIN Tail(q) : i < j => /\ Tail(q)[i].version <= Tail(q)[j].version
                                                  /\ Tail(q)[i].secret < Tail(q)[j].secret
    BY <1>1, <1>2 DEF InOrder
<1>6. CallIn(r) # None /\ CallIn(r).pc = "derive" =>
          \A i \in DOMAIN Tail(q) : CallIn(r).version <= Tail(q)[i].version /\ CallIn(r).buf < Tail(q)[i].secret
    BY <1>1 DEF InOrder
<1> QED
    BY <1>4, <1>5, <1>6 DEF InOrder

LEMMA InOrderConsume ==
    ASSUME NEW r, NEW q \in Seq(EpochAnnouncement), q # <<>>, NEW out, NEW v, NEW e, NEW m \in Nat,
           InOrder(r, q, out, v, e, m), out = None \/ out \in EpochAnnouncement,
           NEW t, t.epochs = r.epochs, t.currentEpoch = r.currentEpoch,
           NEW c, CallIn(t) = c, c.pc = "derive", c.version = q[1].version, c.chainKey = q[1].chainKey,
           c.buf = q[1].secret, c.peerIndexMap = q[1].peerIndexMap
    PROVE  InOrder(t, Tail(q), out, v, e, m)
<1>1. /\ \A i \in DOMAIN Tail(q) : i + 1 \in DOMAIN q /\ Tail(q)[i] = q[i + 1] /\ 1 < i + 1
      /\ DOMAIN Tail(q) \subseteq Int
      /\ 1 \in DOMAIN q
    BY TailOf
<1>2. InOrder(r, Tail(q), out, v, e, m)
    BY InOrderTail
<1>3. /\ r.currentEpoch <= c.version /\ c.version <= v
      /\ c.version = v => Same(c, e)
      /\ \A w \in Epochs : r.epochs[w] # None => r.epochs[w].buf < c.buf
    BY <1>1 DEF InOrder, Same
<1>4. \A i \in DOMAIN Tail(q) : c.version <= Tail(q)[i].version /\ c.buf < Tail(q)[i].secret
    BY <1>1 DEF InOrder
<1>5. \A s : Ahead(r, q, s) => Ahead(t, Tail(q), s)
    BY <1>1 DEF Ahead
<1>6. /\ Ahead(t, Tail(q), m + 1)
      /\ out # None => out.secret <= m /\ Ahead(t, Tail(q), out.secret)
    BY <1>5 DEF InOrder
<1> QED
    BY <1>2, <1>3, <1>4, <1>6 DEF InOrder

LEMMA NodeConsumes ==
    ASSUME OneCallAtATime, RoomTypeOK, ConvergeInv, NEW n \in Nodes, NEW p \in Nodes,
           consumeEpochAnnouncement(n, p)
    PROVE  ConvergeInv'
<1> DEFINE a == ratchet[Author]
           q == channel[n][p]
           msg == Head(q)
           c == [pc |-> "derive", version |-> msg.version, chainKey |-> msg.chainKey,
                 buf |-> msg.secret, peerIndexMap |-> msg.peerIndexMap, members |-> NoPeers,
                 todo |-> {}, sasPeer |-> msg.from, secret |-> msg.secret, out |-> NoAnnouncements]
           t == [ratchet[n] EXCEPT !.calls[TheSlot] = c]
           opens == msg.wrappedFor = ratchet[n].publicKey /\ n \in msg.peerIndexMap
<1>0. /\ Author \in Nodes /\ Author \in Nat /\ TheSlot \in Slots
      /\ \A s \in Slots : s = TheSlot
    BY TheAuthor, OneSlot
<1>1. n \in room /\ q # <<>> /\ n # Author /\ p = Author
    BY DEF consumeEpochAnnouncement, ConvergeInv, SeatInv, Seated
<1> n \in Nodes \ {Author}
    BY <1>1
<1>2. /\ q \in Seq(EpochAnnouncement) /\ q = channel[n][Author] /\ q # <<>>
      /\ msg = q[1] /\ msg \in EpochAnnouncement /\ 1 \in DOMAIN q
    BY <1>0, <1>1, NodeFacts, TailOf
<1>3. CallIn(ratchet[n]) = None
    BY <1>0 DEF consumeEpochAnnouncement, FreeSlot, CallIn
<1>4. /\ opens => /\ ratchet' = [ratchet EXCEPT ![n].calls[TheSlot] = c]
                  /\ known' = [known EXCEPT ![n] = @ \cup {msg.chainKey}]
      /\ ~opens => ratchet' = ratchet /\ known' = known
    <2>1. PICK s \in Slots : IF opens THEN /\ Begin(n, s, c)
                                           /\ known' = [known EXCEPT ![n] = @ \cup {msg.chainKey}]
                                      ELSE UNCHANGED <<ratchet, known>>
        BY DEF consumeEpochAnnouncement
    <2>2. s = TheSlot
        BY <1>0
    <2> HIDE DEF c, opens
    <2> QED
        BY <2>1, <2>2 DEF Begin
<1>5. /\ room' = room /\ minted' = minted /\ feed' = feed
      /\ channel' = [channel EXCEPT ![n][p] = Tail(@)]
    BY DEF consumeEpochAnnouncement
<1>6. /\ channel'[n] = [channel[n] EXCEPT ![Author] = Tail(q)]
      /\ channel'[n][Author] = Tail(q)
      /\ \A k \in Nodes : k # Author => channel'[n][k] = channel[n][k]
      /\ \A k \in Nodes : k # n => channel'[k] = channel[k]
    BY <1>0, <1>1, <1>5 DEF RoomTypeOK
<1>7. msg.chainKey \in 0..minted /\ msg.from = Author
    BY <1>2, NodeFacts DEF InOrder
<1>8. \A k \in Nodes : channel'[n][k] # <<>> => k = Author /\ n # Author
    BY <1>1, <1>6, NodeFacts DEF Seated
<1>9. OutFor(a, n) = None \/ OutFor(a, n) \in EpochAnnouncement
    <2>1. a \in Ratchet
        BY <1>0 DEF RoomTypeOK
    <2>2. CallIn(a) # None => CallIn(a) \in Call
        BY <1>0, <2>1 DEF Ratchet, CallIn
    <2> QED
        BY <2>2 DEF OutFor, Call
<1>10. /\ Tail(q) \in Seq(EpochAnnouncement) /\ Len(q) \in Nat /\ Len(q) > 0
       /\ Len(Tail(q)) = Len(q) - 1
       /\ Len(q) > 1 => Tail(q) # <<>> /\ Tail(q)[Len(Tail(q))] = q[Len(q)]
       /\ Len(q) = 1 => Tail(q) = <<>>
    BY <1>2, TailOf, LastOfTail
<1> HIDE DEF q
<1>11. CASE opens
    <2>1. /\ ratchet' = [ratchet EXCEPT ![n] = t]
        <3> HIDE DEF c
        <3> QED
            BY <1>4, <1>11 DEF RoomTypeOK
    <2>2. /\ CallIn(t) = c /\ t.epochs = ratchet[n].epochs
          /\ t.currentEpoch = ratchet[n].currentEpoch /\ t.publicKey = ratchet[n].publicKey
          /\ t.peers = ratchet[n].peers /\ t.sasState = ratchet[n].sasState
        <3> HIDE DEF c
        <3> QED
            BY <1>0, NodeFacts DEF Ratchet, CallIn
    <2>3. /\ c.pc = "derive" /\ c.version = q[1].version /\ c.chainKey = q[1].chainKey
          /\ c.buf = q[1].secret /\ c.peerIndexMap = q[1].peerIndexMap
          /\ c.todo = {} /\ c.out = NoAnnouncements /\ c.sasPeer = Author /\ c.secret = q[1].secret
        BY <1>2, <1>7
    <2>4. known'[n] = known[n] \cup {msg.chainKey} /\ \A k \in Nodes : k # n => known'[k] = known[k]
        BY <1>4, <1>11 DEF RoomTypeOK
    <2> HIDE DEF c, t, opens
    <2>5. Seated(n, t, feed'[n], channel'[n], n \in room)
        BY <1>1, <1>5, <1>8, <2>2, <2>3, NodeFacts DEF Seated
    <2>6. InOrder(t, channel'[n][Author], OutFor(a, n), NewestVersion(a), NewestEpoch(a), minted)
        <3>1. /\ InOrder(ratchet[n], q, OutFor(a, n), NewestVersion(a), NewestEpoch(a), minted)
              /\ minted \in Nat
            BY <1>2, NodeFacts
        <3> HIDE DEF a
        <3> QED
            BY ONLY <1>2, <1>6, <1>9, <2>2, <2>3, <3>1, InOrderConsume
    <2>7. SasOfEpoch(n, t)
        BY <2>2, NodeFacts DEF SasOfEpoch
    <2>8. ASSUME NewestVersion(a) >= 0, About(n, feed[Author]) = {}
          PROVE  OnItsWay(n, a, t, Tail(q))
        <3>1. OnItsWay(n, a, ratchet[n], q)
            BY <1>1, <1>2, <2>8, NodeFacts
        <3>2. ToWrap(n, a) \/ OutFor(a, n) # None \/ Sent(n, a, ratchet[n], q)
            BY <1>2, <3>1 DEF OnItsWay, Consumed, Shared
        <3>3. CASE ToWrap(n, a) \/ OutFor(a, n) # None
            BY <2>2, <3>1, <3>3 DEF Wrapped, OnItsWay
        <3>4. CASE Sent(n, a, ratchet[n], q) /\ Len(q) > 1
            BY <1>10, <2>2, <3>1, <3>4 DEF Sent, Wrapped, OnItsWay
        <3>5. CASE Sent(n, a, ratchet[n], q) /\ Len(q) = 1
            <4>1. c # None
                BY <1>0, <2>3, NodeFacts, NoneAssumption, NoPeersType, <1>2 DEF c, Call, EpochAnnouncement
            <4> QED
                BY <1>10, <2>2, <2>3, <3>1, <3>5, <4>1 DEF Sent, Wrapped, Consumed, OnItsWay
        <3> QED
            BY <1>10, <3>2, <3>3, <3>4, <3>5
    <2>9. known'[n] \subseteq 0..minted
        BY <1>7, <2>4, NodeFacts
    <2> QED
        BY <1>1, <1>5, <1>6, <2>1, <2>2, <2>4, <2>5, <2>6, <2>7, <2>8, <2>9, NodeStep
<1>12. CASE ~opens
    <2>1. /\ ratchet' = [ratchet EXCEPT ![n] = ratchet[n]] /\ known' = known
        BY <1>4, <1>12 DEF RoomTypeOK
    <2>2. Seated(n, ratchet[n], feed'[n], channel'[n], n \in room)
        BY <1>1, <1>5, <1>8, NodeFacts DEF Seated
    <2>3. InOrder(ratchet[n], channel'[n][Author], OutFor(a, n), NewestVersion(a), NewestEpoch(a), minted)
        BY <1>2, <1>6, NodeFacts, InOrderTail
    <2>4. ASSUME NewestVersion(a) >= 0, About(n, feed[Author]) = {}
          PROVE  OnItsWay(n, a, ratchet[n], Tail(q))
        <3>1. OnItsWay(n, a, ratchet[n], q)
            BY <1>1, <1>2, <2>4, NodeFacts
        <3>2. ToWrap(n, a) \/ OutFor(a, n) # None \/ Sent(n, a, ratchet[n], q)
            BY <1>2, <3>1 DEF OnItsWay, Consumed, Shared
        <3>3. CASE ToWrap(n, a) \/ OutFor(a, n) # None
            BY <3>1, <3>3 DEF Wrapped, OnItsWay
        <3>4. CASE Sent(n, a, ratchet[n], q) /\ Len(q) > 1
            BY <1>10, <3>1, <3>4 DEF Sent, OnItsWay
        <3>5. CASE Sent(n, a, ratchet[n], q) /\ Len(q) = 1
            <4>1. n \in NewestEpoch(a).peerIndexMap
                BY <1>1, <2>4, NewestHas
            <4>2. Same(q[1], NewestEpoch(a)) /\ q[1].wrappedFor = ratchet[n].publicKey
                BY <1>2, <3>5, NodeFacts DEF InOrder, Sent
            <4> QED
                BY <1>2, <1>12, <4>1, <4>2 DEF Same
        <3> QED
            BY <1>10, <3>2, <3>3, <3>4, <3>5
    <2> DEFINE r == ratchet[n]
    <2>5. known'[n] \subseteq 0..minted /\ known'[n] = known[n] /\ SasOfEpoch(n, r)
        BY <2>1, NodeFacts
    <2>6. /\ \A k \in Nodes : k # n => /\ feed'[k] = feed[k] /\ channel'[k] = channel[k]
                                       /\ known'[k] = known[k]
          /\ r.publicKey = ratchet[n].publicKey
          /\ ratchet' = [ratchet EXCEPT ![n] = r]
        BY <1>5, <1>6, <2>1
    <2>7. Seated(n, r, feed'[n], channel'[n], n \in room)
        BY <2>2
    <2>8. InOrder(r, channel'[n][Author], OutFor(a, n), NewestVersion(a), NewestEpoch(a), minted)
        BY <2>3
    <2>9. n \in room /\ NewestVersion(a) >= 0 /\ About(n, feed[Author]) = {} =>
             OnItsWay(n, a, r, channel'[n][Author])
        BY <1>6, <2>4
    <2>10. n \in Nodes \ {Author}
        BY <1>1
    <2> HIDE DEF r
    <2> QED
        BY <1>5, <2>5, <2>6, <2>7, <2>8, <2>9, <2>10, NodeStep
<1> QED
    BY <1>11, <1>12

\* What installEpoch makes of a ratchet.
LEMMA InstallFields ==
    ASSUME NEW r \in Ratchet, NEW c \in Call
    PROVE  LET t == installEpoch(r, c) IN
           /\ t.publicKey = r.publicKey /\ t.peers = r.peers /\ t.calls = r.calls
           /\ t.epochs = [r.epochs EXCEPT ![c.version] =
                            [chainKey |-> c.chainKey, buf |-> c.buf, peerIndexMap |-> c.peerIndexMap]]
           /\ t.currentEpoch = IF c.version > r.currentEpoch THEN c.version ELSE r.currentEpoch
           /\ t.sasState = IF c.version > r.currentEpoch
                             THEN wipeSasForRotation(r.sasState, c.version) ELSE r.sasState
           /\ t.forgetTimers = IF c.version > r.currentEpoch
                                 THEN r.forgetTimers \cup ToForget(r.currentEpoch, c.version)
                                 ELSE r.forgetTimers
<1> DEFINE entry == [chainKey |-> c.chainKey, buf |-> c.buf, peerIndexMap |-> c.peerIndexMap]
<1> HIDE DEF entry
<1>1. CASE c.version > r.currentEpoch
    BY <1>1 DEF installEpoch, Ratchet, entry
<1>2. CASE ~(c.version > r.currentEpoch)
    BY <1>2 DEF installEpoch, Ratchet, entry
<1> QED
    BY <1>1, <1>2

\* The epoch of a call is installed.
LEMMA InOrderInstall ==
    ASSUME NEW r \in Ratchet, NEW q, NEW out, NEW v, NEW e, NEW m,
           InOrder(r, q, out, v, e, m), CallIn(r) \in Call, CallIn(r).pc = "derive",
           NEW t, t.currentEpoch = CallIn(r).version,
           t.epochs = [r.epochs EXCEPT ![CallIn(r).version] =
                         [chainKey |-> CallIn(r).chainKey, buf |-> CallIn(r).buf,
                          peerIndexMap |-> CallIn(r).peerIndexMap]],
           CallIn(t) = [CallIn(r) EXCEPT !.pc = "sas"]
    PROVE  InOrder(t, q, out, v, e, m)
<1> DEFINE c == CallIn(r)
           d == CallIn(t)
<1>1. c # None /\ c.version \in Epochs
    BY NoneAssumption DEF Call
<1>2. d.pc = "sas" /\ d.version = c.version /\ d.buf = c.buf /\ d # None
    <2>1. d \in Call
        BY DEF Call
    <2> QED
        BY <2>1, NoneAssumption DEF Call
<1>3. /\ t.epochs[c.version].buf = c.buf
      /\ t.epochs[c.version].chainKey = c.chainKey
      /\ t.epochs[c.version].peerIndexMap = c.peerIndexMap
      /\ \A w \in Epochs : w # c.version => t.epochs[w] = r.epochs[w]
    BY <1>1 DEF Ratchet
<1> HIDE DEF c, d
<1>4. /\ c.version <= v
      /\ c.version = v => Same(c, e)
      /\ \A i \in DOMAIN q : c.version <= q[i].version /\ c.buf < q[i].secret
    BY <1>1 DEF InOrder, c
<1>5. ASSUME NEW s, Ahead(r, q, s)
      PROVE  Ahead(t, q, s)
    <2>1. c.buf < s /\ \A w \in Epochs : r.epochs[w] # None => r.epochs[w].buf < s
        BY <1>1, <1>5 DEF Ahead, c
    <2>2. \A w \in Epochs : t.epochs[w] # None => t.epochs[w].buf < s
        BY <1>3, <2>1
    <2> QED
        BY <1>2, <1>5, <2>1, <2>2 DEF Ahead, d
<1>6. /\ Ahead(t, q, m + 1)
      /\ out # None => out.secret <= m /\ Ahead(t, q, out.secret)
    BY <1>5 DEF InOrder
<1>7. \A i \in DOMAIN q : \A w \in Epochs : t.epochs[w] # None => t.epochs[w].buf < q[i].secret
    BY <1>3, <1>4 DEF InOrder
<1>8. /\ t.currentEpoch <= v
      /\ t.currentEpoch = v => Same(t.epochs[t.currentEpoch], e)
    BY <1>3, <1>4 DEF Same, c
<1> QED
    BY <1>2, <1>4, <1>6, <1>7, <1>8 DEF InOrder, c, d

LEMMA NodeDerives ==
    ASSUME OneCallAtATime, RoomTypeOK, ConvergeInv, NEW n \in Nodes \ {Author}, NEW s \in Slots,
           deriveDone(n, s)
    PROVE  ConvergeInv'
<1> DEFINE a == ratchet[Author]
           r == ratchet[n]
           c == CallIn(r)
           i == installEpoch(r, c)
           t == [i EXCEPT !.calls[TheSlot].pc = "sas"]
<1>0. Author \in Nodes /\ TheSlot \in Slots /\ s = TheSlot
    BY TheAuthor, OneSlot
<1>1. r \in Ratchet /\ c # None /\ c.pc = "derive" /\ c \in Call
    <2>1. c # None /\ c.pc = "derive"
        BY <1>0 DEF deriveDone, CallIn
    <2> QED
        BY <1>0, <2>1, NodeFacts DEF Ratchet, CallIn
<1>2. c.sasPeer = Author /\ c.todo = {} /\ c.out = NoAnnouncements /\ n \in room /\ Author # None
    BY <1>0, <1>1, NodeFacts, NoneAssumption DEF Seated
<1>3. /\ r.currentEpoch \in Epochs \cup {-1} /\ c.version \in Epochs
      /\ r.currentEpoch <= c.version
    BY <1>1, NodeFacts DEF InOrder, Ratchet, Call
<1>4. /\ ratchet' = [ratchet EXCEPT ![n] = t]
      /\ room' = room /\ minted' = minted /\ feed' = feed /\ channel' = channel /\ known' = known
    BY <1>0, <1>2 DEF deriveDone, CallIn
<1> HIDE DEF c
<1>5. /\ i \in Ratchet
      /\ i.publicKey = r.publicKey /\ i.peers = r.peers /\ i.calls = r.calls
      /\ i.epochs = [r.epochs EXCEPT ![c.version] =
                       [chainKey |-> c.chainKey, buf |-> c.buf, peerIndexMap |-> c.peerIndexMap]]
      /\ i.currentEpoch = c.version
      /\ i.sasState = IF c.version > r.currentEpoch
                        THEN wipeSasForRotation(r.sasState, c.version) ELSE r.sasState
    <2>1. /\ i \in Ratchet
          /\ i.publicKey = r.publicKey /\ i.peers = r.peers /\ i.calls = r.calls
          /\ i.epochs = [r.epochs EXCEPT ![c.version] =
                           [chainKey |-> c.chainKey, buf |-> c.buf, peerIndexMap |-> c.peerIndexMap]]
          /\ i.currentEpoch = IF c.version > r.currentEpoch THEN c.version ELSE r.currentEpoch
          /\ i.sasState = IF c.version > r.currentEpoch
                            THEN wipeSasForRotation(r.sasState, c.version) ELSE r.sasState
        BY <1>1, InstallType, InstallFields
    <2>2. i.currentEpoch = c.version
        BY <1>3, <2>1, RoomBoundsAssumption DEF Epochs
    <2> QED
        BY <2>1, <2>2
<1> HIDE DEF i
<1>6. /\ t.publicKey = r.publicKey /\ t.peers = r.peers /\ t.epochs = i.epochs
      /\ t.currentEpoch = c.version /\ t.sasState = i.sasState
      /\ CallIn(t) = [c EXCEPT !.pc = "sas"]
    BY <1>0, <1>1, <1>5 DEF Ratchet, CallIn, c
<1> HIDE DEF t
<1>7. /\ CallIn(t).pc = "sas" /\ CallIn(t).todo = {} /\ CallIn(t).out = NoAnnouncements
      /\ CallIn(t).sasPeer = Author /\ CallIn(t).version = c.version /\ CallIn(t).secret = c.secret
      /\ CallIn(t) # None
    <2>1. CallIn(t) \in Call
        BY <1>1, <1>6 DEF Call
    <2> QED
        BY <1>1, <1>2, <1>6, <2>1, NoneAssumption DEF Call
<1>8. Seated(n, t, feed'[n], channel'[n], n \in room)
    BY <1>2, <1>4, <1>6, <1>7, NodeFacts DEF Seated
<1>9. InOrder(t, channel'[n][Author], OutFor(a, n), NewestVersion(a), NewestEpoch(a), minted)
    <2>1. InOrder(r, channel[n][Author], OutFor(a, n), NewestVersion(a), NewestEpoch(a), minted)
        BY NodeFacts
    <2> HIDE DEF a, r
    <2> QED
        BY ONLY <1>1, <1>4, <1>5, <1>6, <2>1, InOrderInstall DEF c
<1>10. SasOfEpoch(n, t)
    <2>1. SasOfEpoch(n, r)
        BY NodeFacts
    <2>2. CASE c.version > r.currentEpoch
        <3>1. \A p \in Nodes : t.sasState[p] # None =>
                 r.sasState[p] # None /\ ~(r.sasState[p].epoch < c.version)
            BY <1>5, <1>6, <2>2 DEF wipeSasForRotation
        <3>2. r.currentEpoch < c.version
            BY <1>3, <2>2, RoomBoundsAssumption DEF Epochs
        <3> QED
            BY <2>1, <3>1, <3>2 DEF SasOfEpoch
    <2>3. CASE ~(c.version > r.currentEpoch)
        <3>1. r.currentEpoch = c.version
            BY <1>3, <2>3, RoomBoundsAssumption DEF Epochs
        <3> QED
            BY <1>5, <1>6, <2>1, <2>3, <3>1 DEF SasOfEpoch
    <2> QED
        BY <2>2, <2>3
<1>11. ASSUME NewestVersion(a) >= 0, About(n, feed[Author]) = {}
       PROVE  OnItsWay(n, a, t, channel[n][Author])
    <2>1. OnItsWay(n, a, r, channel[n][Author])
        BY <1>2, <1>11, NodeFacts
    <2> QED
        BY <1>1, <1>6, <1>7, <2>1
           DEF OnItsWay, ToWrap, Wrapped, Sent, Consumed, Shared, c
<1> QED
    BY <1>2, <1>4, <1>6, <1>8, <1>9, <1>10, <1>11, NodeFacts, NodeStep

\* A call that has installed its epoch returns.
LEMMA InOrderReturn ==
    ASSUME NEW r, NEW q, NEW out, NEW v, NEW e, NEW m, InOrder(r, q, out, v, e, m),
           NEW t, t.epochs = r.epochs, t.currentEpoch = r.currentEpoch, CallIn(t) = None
    PROVE  InOrder(t, q, out, v, e, m)
<1>1. \A s : Ahead(r, q, s) => Ahead(t, q, s)
    BY DEF Ahead
<1> QED
    BY <1>1 DEF InOrder

LEMMA NodeSas ==
    ASSUME OneCallAtATime, RoomTypeOK, ConvergeInv, NEW n \in Nodes \ {Author}, NEW s \in Slots,
           sasDone(n, s)
    PROVE  ConvergeInv'
<1> DEFINE a == ratchet[Author]
           r == ratchet[n]
           c == CallIn(r)
           sas == installSas(r.sasState, c.sasPeer, c.version, c.secret)
           u == [r EXCEPT !.sasState = sas]
           t == Continue(u, TheSlot)
<1>0. Author \in Nodes /\ TheSlot \in Slots /\ s = TheSlot
    BY TheAuthor, OneSlot
<1>1. r \in Ratchet /\ c # None /\ c.pc = "sas" /\ c \in Call
    <2>1. c # None /\ c.pc = "sas"
        BY <1>0 DEF sasDone, CallIn
    <2> QED
        BY <1>0, <2>1, NodeFacts DEF Ratchet, CallIn
<1>2. c.sasPeer = Author /\ c.todo = {} /\ c.out = NoAnnouncements /\ n \in room
    BY <1>0, <1>1, NodeFacts DEF Seated
<1>3. c.version = r.currentEpoch
    BY <1>1, NodeFacts DEF InOrder
<1>4. /\ ratchet' = [ratchet EXCEPT ![n] = t]
      /\ Send(n, c)
      /\ room' = room /\ minted' = minted /\ feed' = feed /\ known' = known
    BY <1>0 DEF sasDone, CallIn
<1>5. channel' = channel
    <2>1. \A p \in Nodes : c.out[p] = None
        BY <1>2 DEF NoAnnouncements
    <2> QED
        BY <1>4, <2>1 DEF Send, RoomTypeOK
<1>6. /\ sas[Author] = [epoch |-> c.version, data |-> c.secret, verified |-> FALSE]
      /\ \A p \in Nodes : p # Author => sas[p] = r.sasState[p]
    BY <1>0, <1>1, <1>2 DEF installSas, Ratchet
<1>7. sas[Author] # None
    <2>1. sas[Author] \in PeerSasState
        BY <1>1, <1>6 DEF PeerSasState, Call
    <2> QED
        BY <2>1, NoneAssumption
<1> HIDE DEF sas
<1>8. /\ t.publicKey = r.publicKey /\ t.peers = r.peers /\ t.epochs = r.epochs
      /\ t.currentEpoch = r.currentEpoch /\ t.sasState = sas /\ CallIn(t) = None
    BY <1>0, <1>1, <1>2 DEF Continue, Ratchet, CallIn
<1> HIDE DEF t
<1>9. Seated(n, t, feed'[n], channel'[n], n \in room)
    BY <1>4, <1>5, <1>8, NodeFacts DEF Seated
<1>10. InOrder(t, channel'[n][Author], OutFor(a, n), NewestVersion(a), NewestEpoch(a), minted)
    <2>1. InOrder(r, channel[n][Author], OutFor(a, n), NewestVersion(a), NewestEpoch(a), minted)
        BY NodeFacts
    <2> HIDE DEF a, r
    <2> QED
        BY ONLY <1>5, <1>8, <2>1, InOrderReturn
<1>11. SasOfEpoch(n, t)
    BY <1>3, <1>6, <1>8, NodeFacts DEF SasOfEpoch
<1>12. ASSUME NewestVersion(a) >= 0, About(n, feed[Author]) = {}
       PROVE  OnItsWay(n, a, t, channel[n][Author])
    <2>1. OnItsWay(n, a, r, channel[n][Author])
        BY <1>2, <1>12, NodeFacts
    <2>2. t.sasState[Author] # None /\ t.sasState[Author].data = c.secret
        BY <1>6, <1>7, <1>8
    <2> QED
        BY <1>1, <1>3, <1>8, <2>1, <2>2 DEF OnItsWay, ToWrap, Wrapped, Sent, Consumed, Shared
<1> QED
    BY <1>2, <1>4, <1>5, <1>8, <1>9, <1>10, <1>11, <1>12, NodeFacts, NodeStep

\* What forgetEpoch makes of a ratchet: a call that holds the buffer is left with
\* a zeroized chain key.
LEMMA ForgetFields ==
    ASSUME OneCallAtATime, RoomTypeOK, RoomSound, NEW n \in Nodes, NEW v \in Epochs, forgetEpoch(n, v)
    PROVE  \E t \in Ratchet :
              /\ ratchet' = [ratchet EXCEPT ![n] = t]
              /\ t.publicKey = ratchet[n].publicKey /\ t.peers = ratchet[n].peers
              /\ t.currentEpoch = ratchet[n].currentEpoch /\ t.sasState = ratchet[n].sasState
              /\ t.epochs = [ratchet[n].epochs EXCEPT ![v] = None]
              /\ t.forgetTimers = ratchet[n].forgetTimers \ {v}
              /\ v < t.currentEpoch
              /\ \/ CallIn(t) = CallIn(ratchet[n])
                 \/ /\ CallIn(ratchet[n]) # None /\ ratchet[n].epochs[v] # None
                    /\ CallIn(ratchet[n]).buf = ratchet[n].epochs[v].buf
                    /\ CallIn(t) = [CallIn(ratchet[n]) EXCEPT !.chainKey = Zeroed]
<1> DEFINE r == ratchet[n]
           calls == [s \in Slots |->
                       IF r.calls[s] # None /\ Installed(n, v) /\ r.calls[s].buf = r.epochs[v].buf
                         THEN [r.calls[s] EXCEPT !.chainKey = Zeroed] ELSE r.calls[s]]
           t == [r EXCEPT !.forgetTimers = @ \ {v}, !.epochs[v] = None, !.calls = calls]
<1>0. TheSlot \in Slots /\ r \in Ratchet
    BY OneSlot DEF RoomTypeOK
<1>1. v \in r.forgetTimers /\ ratchet' = [ratchet EXCEPT ![n] = t]
    BY DEF forgetEpoch, RoomTypeOK
<1>2. v < r.currentEpoch
    BY <1>1 DEF RoomSound, Sound
<1>3. calls \in [Slots -> Call \cup {None}]
    <2> SUFFICES ASSUME NEW s \in Slots
                 PROVE  calls[s] \in Call \cup {None}
        OBVIOUS
    <2>1. r.calls[s] # None => [r.calls[s] EXCEPT !.chainKey = Zeroed] \in Call
        BY <1>0 DEF Ratchet, Call, Key
    <2>2. r.calls[s] \in Call \cup {None}
        BY <1>0 DEF Ratchet
    <2> QED
        BY <2>1, <2>2
<1>4. \/ calls[TheSlot] = r.calls[TheSlot]
      \/ /\ r.calls[TheSlot] # None /\ r.epochs[v] # None
         /\ r.calls[TheSlot].buf = r.epochs[v].buf
         /\ calls[TheSlot] = [r.calls[TheSlot] EXCEPT !.chainKey = Zeroed]
    BY <1>0 DEF Installed
<1> HIDE DEF calls
<1>5. /\ t \in Ratchet
      /\ t.publicKey = r.publicKey /\ t.peers = r.peers
      /\ t.currentEpoch = r.currentEpoch /\ t.sasState = r.sasState
      /\ t.epochs = [r.epochs EXCEPT ![v] = None]
      /\ t.forgetTimers = r.forgetTimers \ {v}
      /\ t.calls = calls
    BY <1>0, <1>3 DEF Ratchet
<1> HIDE DEF t, r
<1> QED
    BY <1>1, <1>2, <1>4, <1>5 DEF CallIn, r

LEMMA NodeForgets ==
    ASSUME OneCallAtATime, RoomTypeOK, RoomSound, ConvergeInv, NEW n \in Nodes \ {Author},
           NEW v \in Epochs, forgetEpoch(n, v)
    PROVE  ConvergeInv'
<1> DEFINE a == ratchet[Author]
           r == ratchet[n]
           c == CallIn(r)
<1>1. PICK t \in Ratchet :
              /\ ratchet' = [ratchet EXCEPT ![n] = t]
              /\ t.publicKey = r.publicKey /\ t.peers = r.peers
              /\ t.currentEpoch = r.currentEpoch /\ t.sasState = r.sasState
              /\ t.epochs = [r.epochs EXCEPT ![v] = None]
              /\ v < t.currentEpoch
              /\ \/ CallIn(t) = c
                 \/ /\ c # None /\ r.epochs[v] # None /\ c.buf = r.epochs[v].buf
                    /\ CallIn(t) = [c EXCEPT !.chainKey = Zeroed]
    BY ForgetFields
<1>2. /\ room' = room /\ minted' = minted /\ feed' = feed /\ known' = known /\ channel' = channel
    BY DEF forgetEpoch
<1>3. \/ CallIn(t) = c
      \/ /\ c # None /\ CallIn(t) # None /\ c.pc # "derive" /\ CallIn(t).pc = c.pc
         /\ CallIn(t).version = c.version /\ CallIn(t).buf = c.buf /\ CallIn(t).secret = c.secret
         /\ CallIn(t).todo = c.todo /\ CallIn(t).out = c.out /\ CallIn(t).sasPeer = c.sasPeer
    <2> SUFFICES ASSUME CallIn(t) # c
                 PROVE  /\ c # None /\ CallIn(t) # None /\ c.pc # "derive" /\ CallIn(t).pc = c.pc
                        /\ CallIn(t).version = c.version /\ CallIn(t).buf = c.buf
                        /\ CallIn(t).secret = c.secret
                        /\ CallIn(t).todo = c.todo /\ CallIn(t).out = c.out
                        /\ CallIn(t).sasPeer = c.sasPeer
        OBVIOUS
    <2>1. c # None /\ c \in Call /\ r.epochs[v] \in EpochState
        BY <1>1, NodeFacts, OneSlot DEF Ratchet, CallIn
    <2>2. CallIn(t) \in Call
        BY <1>1, <2>1 DEF Call, Key
    <2>3. c.pc # "derive"
        <3>1. c.pc = "derive" => r.epochs[v].buf < c.buf
            BY <1>1, <2>1, NodeFacts, NoneAssumption DEF InOrder
        <3>2. c.buf \in Nat /\ c.buf = r.epochs[v].buf
            BY <1>1, <2>1 DEF Call
        <3> QED
            BY <3>1, <3>2
    <2> QED
        BY <1>1, <2>1, <2>2, <2>3, NoneAssumption DEF Call
<1>4. \A w \in Epochs : t.epochs[w] # None => t.epochs[w] = r.epochs[w]
    BY <1>1, NodeFacts DEF Ratchet
<1>5. r.currentEpoch >= 0 => t.epochs[t.currentEpoch] = r.epochs[r.currentEpoch]
    BY <1>1, NodeFacts, RoomBoundsAssumption DEF Ratchet, Epochs
<1> HIDE DEF c
<1>6. Seated(n, t, feed'[n], channel'[n], n \in room)
    <2>1. Seated(n, r, feed[n], channel[n], n \in room)
        BY NodeFacts
    <2> HIDE DEF r
    <2> QED
        BY <1>1, <1>2, <1>3, <2>1 DEF Seated, c
<1>7. InOrder(t, channel'[n][Author], OutFor(a, n), NewestVersion(a), NewestEpoch(a), minted)
    <2>1. InOrder(r, channel[n][Author], OutFor(a, n), NewestVersion(a), NewestEpoch(a), minted)
        BY NodeFacts
    <2> HIDE DEF a, r
    <2>2. \A s : Ahead(r, channel[n][Author], s) => Ahead(t, channel[n][Author], s)
        BY <1>3, <1>4 DEF Ahead, c
    <2> QED
        BY <1>1, <1>2, <1>3, <1>4, <1>5, <2>1, <2>2 DEF InOrder, c
<1>8. SasOfEpoch(n, t)
    BY <1>1, NodeFacts DEF SasOfEpoch
<1>9. ASSUME n \in room, NewestVersion(a) >= 0, About(n, feed[Author]) = {}
      PROVE  OnItsWay(n, a, t, channel[n][Author])
    <2>1. OnItsWay(n, a, r, channel[n][Author])
        BY <1>9, NodeFacts
    <2> QED
        BY <1>1, <1>3, <2>1 DEF OnItsWay, ToWrap, Wrapped, Sent, Consumed, Shared, c
<1> QED
    BY <1>1, <1>2, <1>6, <1>7, <1>8, <1>9, NodeFacts, NodeStep

\* What markSasVerified makes of a ratchet.
LEMMA MarkFields ==
    ASSUME RoomTypeOK, NEW n \in Nodes, NEW p \in Nodes, markSasVerified(n, p)
    PROVE  \E t \in Ratchet :
              /\ ratchet' = [ratchet EXCEPT ![n] = t]
              /\ t.publicKey = ratchet[n].publicKey /\ t.peers = ratchet[n].peers
              /\ t.currentEpoch = ratchet[n].currentEpoch /\ t.epochs = ratchet[n].epochs
              /\ t.calls = ratchet[n].calls
              /\ \A k \in Nodes :
                    /\ t.sasState[k] # None <=> ratchet[n].sasState[k] # None
                    /\ t.sasState[k] # None =>
                          /\ t.sasState[k].epoch = ratchet[n].sasState[k].epoch
                          /\ t.sasState[k].data = ratchet[n].sasState[k].data
<1> DEFINE r == ratchet[n]
           same == r.sasState[p].data = ratchet[p].sasState[n].data
           sas  == [r.sasState EXCEPT ![p].verified = same]
           t == [r EXCEPT !.sasState = sas]
<1>0. r \in Ratchet
    BY DEF RoomTypeOK
<1>1. r.sasState[p] # None /\ ratchet' = [ratchet EXCEPT ![n] = t]
    BY DEF markSasVerified, RoomTypeOK
<1>2. r.sasState[p] \in PeerSasState
    BY <1>0, <1>1 DEF Ratchet
<1> HIDE DEF same
<1>3. same \in BOOLEAN
    BY DEF same
<1>4. [r.sasState[p] EXCEPT !.verified = same] \in PeerSasState
    BY <1>2, <1>3 DEF PeerSasState
<1>5. /\ sas[p] = [r.sasState[p] EXCEPT !.verified = same]
      /\ \A q \in Nodes \ {p} : sas[q] = r.sasState[q]
      /\ sas \in [Nodes -> PeerSasState \cup {None}]
    BY <1>0, <1>4 DEF Ratchet
<1>6. sas[p].epoch = r.sasState[p].epoch /\ sas[p].data = r.sasState[p].data /\ sas[p] # None
    BY <1>2, <1>4, <1>5, NoneAssumption DEF PeerSasState
<1> HIDE DEF sas
<1>7. /\ t \in Ratchet /\ t.sasState = sas
      /\ t.publicKey = r.publicKey /\ t.peers = r.peers
      /\ t.currentEpoch = r.currentEpoch /\ t.epochs = r.epochs
      /\ t.calls = r.calls
    BY <1>0, <1>5 DEF Ratchet
<1>8. \A k \in Nodes :
          /\ sas[k] # None <=> r.sasState[k] # None
          /\ sas[k] # None => sas[k].epoch = r.sasState[k].epoch /\ sas[k].data = r.sasState[k].data
    BY <1>1, <1>5, <1>6
<1> HIDE DEF t, r
<1> QED
    BY <1>1, <1>7, <1>8 DEF r

LEMMA NodeMarks ==
    ASSUME OneCallAtATime, RoomTypeOK, ConvergeInv, NEW n \in Nodes \ {Author}, NEW p \in Nodes,
           markSasVerified(n, p)
    PROVE  ConvergeInv'
<1> DEFINE a == ratchet[Author]
           r == ratchet[n]
<1>1. PICK t \in Ratchet :
              /\ ratchet' = [ratchet EXCEPT ![n] = t]
              /\ t.publicKey = r.publicKey /\ t.peers = r.peers
              /\ t.currentEpoch = r.currentEpoch /\ t.epochs = r.epochs
              /\ t.calls = r.calls
              /\ \A k \in Nodes :
                    /\ t.sasState[k] # None <=> r.sasState[k] # None
                    /\ t.sasState[k] # None =>
                          /\ t.sasState[k].epoch = r.sasState[k].epoch
                          /\ t.sasState[k].data = r.sasState[k].data
    BY MarkFields
<1>2. /\ room' = room /\ minted' = minted /\ feed' = feed /\ known' = known /\ channel' = channel
    BY DEF markSasVerified
<1>3. Seated(n, t, feed'[n], channel'[n], n \in room)
    BY <1>1, <1>2, NodeFacts, SeatedFields
<1>4. InOrder(t, channel'[n][Author], OutFor(a, n), NewestVersion(a), NewestEpoch(a), minted)
    BY <1>1, <1>2, NodeFacts, InOrderFields
<1>5. SasOfEpoch(n, t)
    BY <1>1, NodeFacts DEF SasOfEpoch
<1>6. ASSUME n \in room, NewestVersion(a) >= 0, About(n, feed[Author]) = {}
      PROVE  OnItsWay(n, a, t, channel[n][Author])
    <2>1. OnItsWay(n, a, r, channel[n][Author])
        BY <1>6, NodeFacts
    <2> QED
        BY <1>1, <2>1, TheAuthor DEF OnItsWay, ToWrap, Wrapped, Sent, Consumed, Shared, CallIn
<1> QED
    BY <1>1, <1>2, <1>3, <1>4, <1>5, <1>6, NodeFacts, NodeStep

\* What the invariants say of the author, and of the others as the author's step
\* needs it.
LEMMA AuthorFacts ==
    ASSUME OneCallAtATime, RoomTypeOK, RoomSound, ConvergeInv
    PROVE  LET a == ratchet[Author] IN
           /\ a \in Ratchet /\ Author \in Nodes /\ Author \in Nat /\ Author \in room
           /\ TheSlot \in Slots /\ \A s \in Slots : s = TheSlot
           /\ CallIn(a) # None => CallIn(a) \in Call
           /\ feed[Author] \in Seq(MemberChange) /\ channel[Author] \in [Nodes -> Seq(EpochAnnouncement)]
           /\ minted \in Nat
           /\ Seated(Author, a, feed[Author], channel[Author], Author \in room)
           /\ AuthorSound(a, minted)
           /\ Sound(Author, a)
           /\ SasOfEpoch(Author, a)
<1>1. Author \in Nodes /\ Author \in Nat /\ Author \in room
    BY TheAuthor DEF ConvergeInv, SeatInv
<1>2. ratchet[Author] \in Ratchet
    BY <1>1 DEF RoomTypeOK
<1>3. TheSlot \in Slots /\ \A s \in Slots : s = TheSlot
    BY OneSlot
<1>4. CallIn(ratchet[Author]) # None => CallIn(ratchet[Author]) \in Call
    BY <1>2, <1>3 DEF Ratchet, CallIn
<1>5. /\ feed[Author] \in Seq(MemberChange) /\ channel[Author] \in [Nodes -> Seq(EpochAnnouncement)]
      /\ minted \in Nat
    BY <1>1 DEF RoomTypeOK
<1>6. /\ Seated(Author, ratchet[Author], feed[Author], channel[Author], Author \in room)
      /\ AuthorSound(ratchet[Author], minted)
      /\ Sound(Author, ratchet[Author])
      /\ SasOfEpoch(Author, ratchet[Author])
    BY <1>1 DEF ConvergeInv, SeatInv, AuthorInv, SyncInv, RoomSound
<1> QED
    BY <1>1, <1>2, <1>3, <1>4, <1>5, <1>6

LEMMA OtherFacts ==
    ASSUME OneCallAtATime, RoomTypeOK, ConvergeInv, NEW n \in Nodes \ {Author}
    PROVE  LET a == ratchet[Author] IN
           /\ Heard(n, feed[Author], a.peers[n], ratchet[n].publicKey)
           /\ NewestVersion(a) >= 0 /\ NewestEpoch(a).chainKey \in known[n] =>
                    About(n, feed[Author]) # {} \/ a.peers[n] # 0
           /\ About(n, feed[Author]) = {} =>
                    /\ n \in room /\ NewestVersion(a) >= 0 =>
                          OnItsWay(n, a, ratchet[n], channel[n][Author])
                    /\ n \notin room /\ ~Deriving(a) => Gone(n, a)
           /\ n \in room <=> ratchet[n].publicKey # 0
BY DEF ConvergeInv, SeatInv, Seated, FeedInv, KnownInv, SyncInv

\* Time passes at the author: more keys are minted, another epoch is begun, the
\* same epoch is held elsewhere.
LEMMA InOrderMore ==
    ASSUME NEW r, NEW q, NEW out, NEW v, NEW e, NEW f, NEW m \in Nat, NEW k \in Nat, m <= k,
           InOrder(r, q, out, v, e, m), Same(e, f), r \in Ratchet, q \in Seq(EpochAnnouncement),
           CallIn(r) # None => CallIn(r) \in Call, out # None => out \in EpochAnnouncement
    PROVE  InOrder(r, q, out, v, f, k)
<1>1. Ahead(r, q, k + 1)
    <2>1. \A v1 \in Epochs : r.epochs[v1] # None => r.epochs[v1].buf \in Nat
        BY DEF Ratchet, EpochState
    <2>2. CallIn(r) # None => CallIn(r).buf \in Nat
        BY DEF Call
    <2>3. \A i \in DOMAIN q : q[i].secret \in Nat
        <3>1. \A i \in DOMAIN q : q[i] \in EpochAnnouncement
            OBVIOUS
        <3> QED
            BY <3>1 DEF EpochAnnouncement
    <2>4. \A x \in Nat : x < m + 1 => x < k + 1
        OBVIOUS
    <2> QED
        BY <2>1, <2>2, <2>3, <2>4 DEF InOrder, Ahead
<1>2. out # None => out.secret <= k /\ Ahead(r, q, out.secret)
    BY DEF InOrder, EpochAnnouncement
<1>3. \A i \in DOMAIN q : q[i].chainKey \in 0..k
    BY DEF InOrder
<1>4. \A x : Same(x, e) => Same(x, f)
    BY DEF Same
<1> QED
    BY <1>1, <1>2, <1>3, <1>4 DEF InOrder

LEMMA InOrderNewer ==
    ASSUME NEW r, NEW q, NEW v \in Int, NEW e, NEW f, NEW m \in Nat,
           InOrder(r, q, None, v, e, m), r \in Ratchet, q \in Seq(EpochAnnouncement),
           CallIn(r) # None => CallIn(r) \in Call
    PROVE  InOrder(r, q, None, v + 1, f, m + 1)
<1>1. InOrder(r, q, None, v, e, m + 1)
    BY InOrderMore DEF Same
<1>2. r.currentEpoch \in Int /\ r.currentEpoch <= v
    BY RoomBoundsAssumption DEF InOrder, Ratchet, Epochs
<1>3. r.currentEpoch <= v + 1 /\ r.currentEpoch # v + 1
    BY <1>2
<1>4. \A i \in DOMAIN q : q[i].version \in Int /\ q[i].version <= v
    <2>1. \A i \in DOMAIN q : q[i] \in EpochAnnouncement
        OBVIOUS
    <2>2. \A i \in DOMAIN q : q[i].version \in Int
        BY <2>1, RoomBoundsAssumption DEF EpochAnnouncement, Epochs
    <2> QED
        BY <2>2 DEF InOrder
<1>5. \A i \in DOMAIN q : q[i].version <= v + 1 /\ q[i].version # v + 1
    BY <1>4
<1>6. CallIn(r) # None /\ CallIn(r).pc = "derive" => CallIn(r).version \in Int /\ CallIn(r).version <= v
    BY RoomBoundsAssumption DEF InOrder, Call, Epochs
<1>7. CallIn(r) # None /\ CallIn(r).pc = "derive" =>
         CallIn(r).version <= v + 1 /\ CallIn(r).version # v + 1
    BY <1>6
<1> QED
    BY <1>1, <1>3, <1>5, <1>7 DEF InOrder

\* What the author wrapped is sent.
LEMMA InOrderSend ==
    ASSUME NEW r, NEW q, NEW out \in EpochAnnouncement, NEW v, NEW e, NEW m \in Nat,
           InOrder(r, q, out, v, e, m), r \in Ratchet, q \in Seq(EpochAnnouncement),
           CallIn(r) # None => CallIn(r) \in Call, out # None,
           out.version = v, Same(out, e), out.from = Author, out.chainKey \in 0..m
    PROVE  InOrder(r, Append(q, out), None, v, e, m)
<1> DEFINE t == Append(q, out)
           k == Len(q)
<1>1. /\ k \in Nat /\ DOMAIN q = 1..k /\ DOMAIN t = 1..(k + 1)
      /\ \A i \in 1..k : t[i] = q[i]
      /\ t[k + 1] = out
    OBVIOUS
<1> HIDE DEF t, k
<1>2. Ahead(r, q, out.secret) /\ out.secret <= m /\ out.secret \in Nat
    BY DEF InOrder, EpochAnnouncement
<1>3. \A i \in DOMAIN t : i \in DOMAIN q \/ i = k + 1
    BY <1>1
<1>4. \A i \in DOMAIN q : i \in DOMAIN t /\ t[i] = q[i]
    BY <1>1
<1>5. /\ \A i \in DOMAIN q : q[i].secret < out.secret /\ q[i].version <= v
      /\ r.currentEpoch <= v
      /\ \A w \in Epochs : r.epochs[w] # None => r.epochs[w].buf < out.secret
      /\ CallIn(r) # None => CallIn(r).buf < out.secret
      /\ CallIn(r) # None /\ CallIn(r).pc = "derive" => CallIn(r).version <= v
    BY <1>2 DEF InOrder, Ahead
<1>6. Ahead(r, t, m + 1)
    <2>1. out.secret < m + 1
        BY <1>2
    <2>2. Ahead(r, q, m + 1)
        BY DEF InOrder
    <2> QED
        BY <1>1, <1>3, <1>4, <2>1, <2>2 DEF Ahead
<1>7. ASSUME NEW i \in DOMAIN t
      PROVE  /\ r.currentEpoch <= t[i].version /\ t[i].version <= v
             /\ t[i].version = v => Same(t[i], e)
             /\ t[i].from = Author /\ t[i].chainKey \in 0..m
             /\ \A w \in Epochs : r.epochs[w] # None => r.epochs[w].buf < t[i].secret
    <2>1. CASE i \in DOMAIN q
        BY <1>4, <2>1 DEF InOrder
    <2>2. CASE i = k + 1
        <3>1. v <= v
            BY RoomBoundsAssumption DEF EpochAnnouncement, Epochs
        <3> QED
            BY <1>1, <1>5, <2>2, <3>1
    <2> QED
        BY <1>3, <2>1, <2>2
<1>8. ASSUME NEW i \in DOMAIN t, NEW j \in DOMAIN t, i < j
      PROVE  t[i].version <= t[j].version /\ t[i].secret < t[j].secret
    <2>1. i \in DOMAIN q
        BY <1>1, <1>8
    <2>2. CASE j \in DOMAIN q
        BY <1>4, <1>8, <2>1, <2>2 DEF InOrder
    <2>3. CASE j = k + 1
        BY <1>1, <1>4, <1>5, <2>1, <2>3
    <2> QED
        BY <1>3, <2>2, <2>3
<1>9. CallIn(r) # None /\ CallIn(r).pc = "derive" =>
          \A i \in DOMAIN t : CallIn(r).version <= t[i].version /\ CallIn(r).buf < t[i].secret
    BY <1>1, <1>3, <1>4, <1>5 DEF InOrder
<1> QED
    BY <1>5, <1>6, <1>7, <1>8, <1>9 DEF InOrder, t

\* The author has handled the first change of its feed.
LEMMA HeardTail ==
    ASSUME NEW f \in Seq(MemberChange), f # <<>>, NEW n \in Nodes, NEW peers \in PeerMap, NEW k,
           Heard(n, f, peers[n], k)
    PROVE  Heard(n, Tail(f), [peers EXCEPT ![Head(f).peer] = Head(f).publicKey][n], k)
<1> DEFINE t == Tail(f)
           next == [peers EXCEPT ![Head(f).peer] = Head(f).publicKey]
<1>1. /\ Head(f) = f[1] /\ Head(f) \in MemberChange /\ Len(f) \in Nat /\ Len(f) > 0
      /\ DOMAIN f = 1..Len(f) /\ DOMAIN t = 1..(Len(f) - 1)
      /\ \A i \in DOMAIN t : i + 1 \in DOMAIN f /\ t[i] = f[i + 1]
    BY TailOf
<1>2. next[n] = IF f[1].peer = n THEN f[1].publicKey ELSE peers[n]
    BY <1>1 DEF PeerMap, MemberChange
<1> HIDE DEF t, next
<1>3. \A i \in About(n, t) : i + 1 \in About(n, f) /\ t[i] = f[i + 1]
    BY <1>1 DEF About
<1>4. \A j \in About(n, f) : j = 1 \/ (j - 1 \in About(n, t) /\ j \in Int)
    <2> SUFFICES ASSUME NEW j \in About(n, f), j # 1
                 PROVE  j - 1 \in About(n, t) /\ j \in Int
        OBVIOUS
    <2>1. j \in 1..Len(f) /\ f[j].peer = n
        BY <1>1 DEF About
    <2>2. j - 1 \in DOMAIN t /\ (j - 1) + 1 = j
        BY <1>1, <2>1
    <2>3. t[j - 1] = f[j]
        BY <1>1, <2>2
    <2> QED
        BY <2>1, <2>2, <2>3 DEF About
<1>5. ASSUME About(n, t) = {}
      PROVE  next[n] = k
    <2>1. \A j \in About(n, f) : j = 1
        BY <1>4, <1>5
    <2>2. CASE f[1].peer = n
        <3>1. 1 \in About(n, f) /\ \A j \in About(n, f) : j <= 1
            BY <1>1, <2>1, <2>2 DEF About
        <3> QED
            BY <1>2, <2>2, <3>1 DEF Heard
    <2>3. CASE f[1].peer # n
        <3>1. About(n, f) = {}
            BY <2>1, <2>3 DEF About
        <3> QED
            BY <1>2, <2>3, <3>1 DEF Heard
    <2> QED
        BY <2>2, <2>3
<1>6. ASSUME NEW i \in About(n, t), \A j \in About(n, t) : j <= i
      PROVE  t[i].publicKey = k
    <2>1. i \in Int /\ i >= 1
        BY <1>1 DEF About
    <2>2. \A j \in About(n, f) : j <= i + 1
        <3> SUFFICES ASSUME NEW j \in About(n, f), j # 1
                     PROVE  j <= i + 1
            BY <2>1
        <3>1. j - 1 <= i /\ j \in Int
            BY <1>4, <1>6
        <3> QED
            BY <2>1, <3>1
    <2> QED
        BY <1>3, <2>2 DEF Heard
<1> QED
    BY <1>5, <1>6 DEF Heard, t, next

\* The author handles a change: it knows of it, and begins an epoch for whom it
\* knows.
LEMMA AuthorRotates ==
    ASSUME OneCallAtATime, RoomTypeOK, RoomSound, ConvergeInv, rotateOnMemberChange(Author)
    PROVE  ConvergeInv'
<1> DEFINE a == ratchet[Author]
           f == feed[Author]
           delta == Head(f)
           next == [a.peers EXCEPT ![delta.peer] = delta.publicKey]
           c == [pc |-> "derive", version |-> a.currentEpoch + 1,
                 chainKey |-> randomChainKey(Author), buf |-> minted + 1,
                 peerIndexMap |-> Members(next) \cup {Author}, members |-> next,
                 todo |-> Members(next), sasPeer |-> None, secret |-> 0,
                 out |-> NoAnnouncements]
           t == [a EXCEPT !.peers = next, !.calls[TheSlot] = c]
<1>0. /\ a \in Ratchet /\ Author \in Nodes /\ Author \in Nat /\ Author \in room
      /\ TheSlot \in Slots /\ \A s \in Slots : s = TheSlot
      /\ f \in Seq(MemberChange) /\ minted \in Nat
      /\ Seated(Author, a, f, channel[Author], Author \in room)
      /\ AuthorSound(a, minted) /\ SasOfEpoch(Author, a)
    BY AuthorFacts
<1>1. f # <<>> /\ a.currentEpoch < MaxEpoch /\ CallIn(a) = None
    BY <1>0 DEF rotateOnMemberChange, FreeSlot, CallIn
<1>2. delta \in MemberChange /\ delta = f[1] /\ delta.peer > Author /\ delta.peer \in Nodes
    <2>1. delta \in MemberChange /\ delta = f[1] /\ 1 \in DOMAIN f
        BY <1>0, <1>1, TailOf
    <2> QED
        BY <1>0, <2>1 DEF Seated, MemberChange
<1>3. /\ a.peers \in PeerMap /\ next \in PeerMap
      /\ next[Author] = 0 /\ \A p \in Members(next) : p > Author
    <2>1. /\ a.peers \in PeerMap /\ a.peers[Author] = 0
          /\ \A p \in Members(a.peers) : p > Author
        BY <1>0 DEF Ratchet, Seated
    <2>2. delta.peer # Author
        BY <1>0, <1>2, NodesAssumption
    <2>3. next \in PeerMap
        BY <1>2, <2>1 DEF PeerMap, MemberChange
    <2>4. next[Author] = 0
        BY <1>0, <1>2, <2>1, <2>2 DEF PeerMap
    <2>5. \A p \in Members(next) : p > Author
        BY <1>2, <2>1 DEF Members, PeerMap
    <2> QED
        BY <2>1, <2>3, <2>4, <2>5
<1>4. isAuthoritativeAuthor(Author, next)
    <2> HIDE DEF next
    <2>1. Members(next) \subseteq Nat
        BY NodesAssumption DEF Members
    <2> QED
        BY <1>0, <1>3, <2>1 DEF isAuthoritativeAuthor
<1>5. /\ startNewEpoch(Author, TheSlot, next)
      /\ feed' = [feed EXCEPT ![Author] = Tail(@)]
      /\ room' = room /\ channel' = channel /\ known' = known
    BY <1>0, <1>4 DEF rotateOnMemberChange
<1>6. ratchet' = [ratchet EXCEPT ![Author] = t] /\ minted' = minted + 1
    <2> HIDE DEF next
    <2> QED
        BY <1>5 DEF startNewEpoch, RoomTypeOK
<1>7. feed'[Author] = Tail(f) /\ \A p \in Nodes : p # Author => feed'[p] = feed[p]
    BY <1>0, <1>5 DEF RoomTypeOK
<1>8. /\ c.pc = "derive" /\ c.version = a.currentEpoch + 1 /\ c.chainKey = minted + 1
      /\ c.buf = minted + 1 /\ c.peerIndexMap = Members(next) \cup {Author}
      /\ c.members = next /\ c.todo = Members(next) /\ c.sasPeer = None /\ c.out = NoAnnouncements
    BY DEF randomChainKey
<1>9. c \in Call
    <2>1. c.version \in Epochs
        BY <1>0, <1>1, RoomBoundsAssumption DEF Ratchet, Epochs
    <2>2. Members(next) \subseteq Nodes
        BY DEF Members
    <2> HIDE DEF next
    <2> QED
        BY <1>0, <1>3, <2>1, <2>2, NoPeersType DEF Call, Key, randomChainKey
<1>10. /\ t.publicKey = a.publicKey /\ t.peers = next /\ t.epochs = a.epochs
       /\ t.currentEpoch = a.currentEpoch /\ t.sasState = a.sasState /\ CallIn(t) = c
    <2> HIDE DEF c, next
    <2> QED
        BY <1>0 DEF Ratchet, CallIn
<1>11. c # None
    BY <1>9, NoneAssumption
<1> HIDE DEF c, t, f, delta
<1>12. a.currentEpoch \in Int
    BY <1>0, RoomBoundsAssumption DEF Ratchet, Epochs
<1>13. Seated(Author, t, feed'[Author], channel'[Author], Author \in room)
    <2>1. \A i \in DOMAIN Tail(f) : Tail(f)[i].peer > Author /\ Tail(f)[i].peer # Author
        BY <1>0, <1>1, TailOf DEF Seated
    <2>2. Author \notin Members(next) /\ NoAnnouncements[Author] = None
        BY <1>0, <1>3 DEF Members, NoAnnouncements
    <2> HIDE DEF next
    <2> QED
        BY <1>0, <1>3, <1>5, <1>7, <1>8, <1>10, <2>1, <2>2 DEF Seated
<1>14. AuthorSound(t, minted')
    <2>1. \A v \in Epochs : a.epochs[v] # None => a.epochs[v] \in EpochState /\ a.epochs[v].buf \in Nat
        BY <1>0 DEF Ratchet, EpochState
    <2>2. \A v \in Epochs : a.epochs[v] # None => a.epochs[v].buf <= minted
        BY <1>0 DEF AuthorSound, AuthorEpochs
    <2>3. \A v \in Epochs : a.epochs[v] # None => a.epochs[v].buf < minted + 1 /\ a.epochs[v].buf <= minted + 1
        BY <1>0, <2>1, <2>2
    <2>4. AuthorEpochs(t, minted')
        BY <1>0, <1>6, <1>10, <2>3 DEF AuthorSound, AuthorEpochs
    <2>5. \A p \in Nodes : c.out[p] = None
        BY <1>8 DEF NoAnnouncements
    <2>6. minted + 1 <= minted'
        BY <1>0, <1>6
    <2> HIDE DEF next
    <2>7. AuthorCall(t, c, minted')
        BY <1>8, <1>10, <2>3, <2>5, <2>6 DEF AuthorCall
    <2> QED
        BY <1>10, <1>11, <2>4, <2>7 DEF AuthorSound
<1>15. SasOfEpoch(Author, t)
    BY <1>0, <1>10 DEF SasOfEpoch
<1>16. NewestVersion(t) = a.currentEpoch + 1 /\ NewestEpoch(t) = c /\ Deriving(t)
    BY <1>8, <1>10, <1>11 DEF NewestVersion, NewestEpoch, Deriving
<1>17. ASSUME NEW n \in Nodes \ {Author}
       PROVE  /\ Seated(n, ratchet[n], feed[n], channel'[n], n \in room)
              /\ InOrder(ratchet[n], channel'[n][Author], OutFor(t, n), NewestVersion(t),
                         NewestEpoch(t), minted')
              /\ Heard(n, feed'[Author], t.peers[n], ratchet[n].publicKey)
              /\ NewestEpoch(t).chainKey \notin known[n]
              /\ About(n, feed'[Author]) = {} /\ n \in room =>
                          OnItsWay(n, t, ratchet[n], channel'[n][Author])
    <2>1. Seated(n, ratchet[n], feed[n], channel'[n], n \in room)
        BY <1>5, NodeFacts
    <2>2. OutFor(t, n) = None
        BY <1>8, <1>10 DEF OutFor, NoAnnouncements
    <2>3. InOrder(ratchet[n], channel'[n][Author], OutFor(t, n), NewestVersion(t), NewestEpoch(t), minted')
        <3>1. /\ InOrder(ratchet[n], channel[n][Author], None, a.currentEpoch, NewestEpoch(a), minted)
              /\ ratchet[n] \in Ratchet /\ channel[n][Author] \in Seq(EpochAnnouncement)
            BY <1>0, <1>1, NodeFacts DEF OutFor, NewestVersion
        <3>2. CallIn(ratchet[n]) # None => CallIn(ratchet[n]) \in Call
            BY <1>0, <3>1 DEF Ratchet, CallIn
        <3>3. InOrder(ratchet[n], channel[n][Author], None, a.currentEpoch + 1, c, minted + 1)
            BY ONLY <1>0, <1>12, <3>1, <3>2, InOrderNewer
        <3> QED
            BY <1>5, <1>6, <1>16, <2>2, <3>3
    <2>4. Heard(n, feed'[Author], t.peers[n], ratchet[n].publicKey)
        <3>1. Heard(n, f, a.peers[n], ratchet[n].publicKey)
            BY OtherFacts DEF f
        <3>2. Heard(n, Tail(f), next[n], ratchet[n].publicKey)
            BY <1>0, <1>1, <1>3, <3>1, HeardTail DEF delta
        <3> QED
            BY <1>7, <1>10, <3>2
    <2>5. NewestEpoch(t).chainKey \notin known[n]
        BY <1>0, <1>8, <1>16, NodeFacts
    <2>6. ASSUME About(n, feed'[Author]) = {}, n \in room
          PROVE  OnItsWay(n, t, ratchet[n], channel'[n][Author])
        <3> HIDE DEF next
        <3>1. next[n] = ratchet[n].publicKey /\ ratchet[n].publicKey # 0
            BY <1>10, <2>4, <2>6, OtherFacts DEF Heard
        <3>2. ToWrap(n, t) /\ CallIn(t).members[n] = ratchet[n].publicKey
            BY <1>8, <1>10, <1>11, <3>1 DEF ToWrap, Members
        <3> QED
            BY <3>2 DEF OnItsWay
    <2> QED
        BY <2>1, <2>3, <2>4, <2>5, <2>6
<1>18. minted' \in Nat /\ minted <= minted'
    BY <1>0, <1>6
<1> HIDE DEF next
<1> QED
    BY <1>5, <1>6, <1>7, <1>10, <1>13, <1>14, <1>15, <1>16, <1>17, <1>18, AuthorStep

\* A call about the epoch that the author has: who it is for, and what is known of
\* it, stays.
LEMMA InstalledEpoch ==
    ASSUME OneCallAtATime, RoomTypeOK, RoomSound, ConvergeInv, ratchet[Author].currentEpoch >= 0
    PROVE  LET a == ratchet[Author]
               e == a.epochs[a.currentEpoch]
           IN  /\ a.currentEpoch \in Epochs /\ e \in EpochState /\ e # None
               /\ e.chainKey = e.buf /\ e.buf <= minted
               /\ CallIn(a) = None => e.peerIndexMap = Members(a.peers) \cup {Author}
<1> DEFINE a == ratchet[Author]
<1>1. a \in Ratchet /\ AuthorSound(a, minted) /\ Sound(Author, a)
    BY AuthorFacts
<1>2. a.currentEpoch \in Epochs
    BY <1>1, RoomBoundsAssumption DEF Ratchet, Epochs
<1>3. a.epochs[a.currentEpoch] # None
    BY <1>1 DEF Sound
<1>4. a.epochs[a.currentEpoch] \in EpochState
    BY <1>1, <1>2, <1>3 DEF Ratchet
<1> QED
    BY <1>1, <1>2, <1>3, <1>4 DEF AuthorSound, AuthorEpochs

LEMMA AuthorRewraps ==
    ASSUME OneCallAtATime, RoomTypeOK, RoomSound, ConvergeInv, NEW n \in Nodes, NEW p \in Nodes,
           rewrapCurrentEpochFor(n, p)
    PROVE  ConvergeInv'
<1> DEFINE a == ratchet[Author]
           e == a.epochs[a.currentEpoch]
           c == [pc |-> "wrap", version |-> a.currentEpoch,
                 chainKey |-> e.chainKey, buf |-> e.buf, peerIndexMap |-> e.peerIndexMap,
                 members |-> [NoPeers EXCEPT ![p] = ratchet[p].publicKey],
                 todo |-> {p}, sasPeer |-> None, secret |-> 0, out |-> NoAnnouncements]
           t == [a EXCEPT !.calls[TheSlot] = c]
<1>0. /\ a \in Ratchet /\ Author \in Nodes /\ Author \in Nat /\ Author \in room
      /\ TheSlot \in Slots /\ \A s \in Slots : s = TheSlot
      /\ minted \in Nat
      /\ Seated(Author, a, feed[Author], channel[Author], Author \in room)
      /\ AuthorSound(a, minted) /\ SasOfEpoch(Author, a)
    BY AuthorFacts
<1>1. n = Author
    <2> SUFFICES ASSUME n # Author
                 PROVE  FALSE
        OBVIOUS
    <2>1. n \in room /\ isAuthoritativeAuthor(n, ratchet[n].peers)
        BY DEF rewrapCurrentEpochFor
    <2>2. Author <= n /\ ratchet[n].peers[Author] # 0
        BY <2>1, NodeFacts DEF Seated
    <2> QED
        BY <2>1, <2>2, NotAuthor
<1>2. /\ p \in room /\ p # Author /\ a.currentEpoch >= 0 /\ CallIn(a) = None
      /\ ratchet' = [ratchet EXCEPT ![Author].calls[TheSlot] = c]
      /\ room' = room /\ feed' = feed /\ channel' = channel /\ minted' = minted /\ known' = known
    <2>1. PICK s \in Slots : FreeSlot(n, s) /\ Begin(n, s, c)
        BY <1>1 DEF rewrapCurrentEpochFor
    <2>2. s = TheSlot
        BY <1>0
    <2> HIDE DEF c
    <2> QED
        BY <1>1, <2>1, <2>2 DEF rewrapCurrentEpochFor, FreeSlot, Begin, CallIn
<1>3. /\ a.currentEpoch \in Epochs /\ e \in EpochState
      /\ e.chainKey = e.buf /\ e.buf <= minted
      /\ e.peerIndexMap = Members(a.peers) \cup {Author}
    BY <1>2, InstalledEpoch
<1>4. /\ c.pc = "wrap" /\ c.version = a.currentEpoch /\ c.chainKey = e.chainKey /\ c.buf = e.buf
      /\ c.peerIndexMap = e.peerIndexMap /\ c.todo = {p} /\ c.out = NoAnnouncements
      /\ c.members[p] = ratchet[p].publicKey
    BY DEF NoPeers
<1>5. c \in Call
    <2>1. [NoPeers EXCEPT ![p] = ratchet[p].publicKey] \in PeerMap
        BY NoPeersType DEF PeerMap, RoomTypeOK, Ratchet
    <2>2. e.chainKey \in Key /\ e.buf \in Nat /\ e.peerIndexMap \in SUBSET Nodes
        BY <1>3 DEF EpochState
    <2> HIDE DEF e
    <2> QED
        BY <1>3, <2>1, <2>2, NoPeersType DEF Call
<1>6. c # None
    BY <1>5, NoneAssumption
<1> HIDE DEF c
<1>7. ratchet' = [ratchet EXCEPT ![Author] = t]
    BY <1>2 DEF RoomTypeOK
<1>8. /\ t.publicKey = a.publicKey /\ t.peers = a.peers /\ t.epochs = a.epochs
      /\ t.currentEpoch = a.currentEpoch /\ t.sasState = a.sasState /\ CallIn(t) = c
    BY <1>0 DEF Ratchet, CallIn
<1> HIDE DEF t
<1>9. \A k \in Nodes : c.out[k] = None
    BY <1>4 DEF NoAnnouncements
<1>10. Seated(Author, t, feed'[Author], channel'[Author], Author \in room)
    BY <1>0, <1>2, <1>4, <1>8, <1>9 DEF Seated
<1>11. AuthorSound(t, minted)
    <2>1. e = [chainKey |-> c.chainKey, buf |-> c.buf, peerIndexMap |-> c.peerIndexMap]
        BY <1>3, <1>4 DEF EpochState
    <2>2. AuthorEpochs(t, minted)
        BY <1>0, <1>8 DEF AuthorSound, AuthorEpochs
    <2>3. AuthorCall(t, c, minted)
        BY <1>3, <1>4, <1>8, <1>9, <2>1 DEF AuthorCall
    <2> QED
        BY <1>6, <1>8, <2>2, <2>3 DEF AuthorSound
<1>12. SasOfEpoch(Author, t)
    BY <1>0, <1>8 DEF SasOfEpoch
<1>13. /\ NewestVersion(t) = a.currentEpoch /\ NewestVersion(a) = a.currentEpoch
       /\ NewestEpoch(t) = c /\ NewestEpoch(a) = e /\ Same(e, c) /\ ~Deriving(a)
    BY <1>2, <1>4, <1>6, <1>8 DEF NewestVersion, NewestEpoch, Deriving, Same
<1>14. ASSUME NEW k \in Nodes \ {Author}
       PROVE  /\ Seated(k, ratchet[k], feed[k], channel'[k], k \in room)
              /\ InOrder(ratchet[k], channel'[k][Author], OutFor(t, k), NewestVersion(t),
                         NewestEpoch(t), minted)
              /\ Heard(k, feed'[Author], t.peers[k], ratchet[k].publicKey)
              /\ NewestVersion(t) >= 0 /\ NewestEpoch(t).chainKey \in known[k] =>
                    About(k, feed'[Author]) # {} \/ t.peers[k] # 0
              /\ About(k, feed'[Author]) = {} =>
                    /\ k \in room /\ NewestVersion(t) >= 0 =>
                          OnItsWay(k, t, ratchet[k], channel'[k][Author])
                    /\ k \notin room /\ ~Deriving(t) => Gone(k, t)
    <2>1. Seated(k, ratchet[k], feed[k], channel'[k], k \in room)
        BY <1>2, NodeFacts
    <2>2. OutFor(t, k) = None /\ OutFor(a, k) = None
        BY <1>2, <1>6, <1>8, <1>9 DEF OutFor
    <2>3. InOrder(ratchet[k], channel'[k][Author], OutFor(t, k), NewestVersion(t), NewestEpoch(t), minted)
        <3>1. /\ InOrder(ratchet[k], channel[k][Author], None, a.currentEpoch, e, minted)
              /\ ratchet[k] \in Ratchet /\ channel[k][Author] \in Seq(EpochAnnouncement)
            BY <1>0, <1>13, <2>2, NodeFacts
        <3>2. CallIn(ratchet[k]) # None => CallIn(ratchet[k]) \in Call
            BY <1>0, <3>1 DEF Ratchet, CallIn
        <3>3. minted <= minted
            BY <1>0
        <3>4. InOrder(ratchet[k], channel[k][Author], None, a.currentEpoch, c, minted)
            BY ONLY <1>0, <1>13, <3>1, <3>2, <3>3, InOrderMore
        <3> QED
            BY <1>2, <1>13, <2>2, <3>4
    <2>4. Heard(k, feed'[Author], t.peers[k], ratchet[k].publicKey)
        BY <1>2, <1>8, OtherFacts
    <2>5. NewestVersion(t) >= 0 /\ NewestEpoch(t).chainKey \in known[k] =>
                    About(k, feed'[Author]) # {} \/ t.peers[k] # 0
        BY <1>2, <1>4, <1>8, <1>13, OtherFacts
    <2>6. ASSUME About(k, feed[Author]) = {}, k \in room
          PROVE  OnItsWay(k, t, ratchet[k], channel[k][Author])
        <3>1. OnItsWay(k, a, ratchet[k], channel[k][Author])
            BY <1>2, <1>13, <2>6, OtherFacts
        <3>2. CASE k = p
            BY <1>4, <1>6, <1>8, <3>2 DEF OnItsWay, ToWrap
        <3>3. CASE k # p
            <4>1. ~ToWrap(k, t) /\ ~ToWrap(k, a)
                BY <1>2, <1>4, <1>8, <3>3 DEF ToWrap
            <4> QED
                BY <1>8, <1>13, <2>2, <3>1, <4>1 DEF OnItsWay, Sent, Consumed, Shared, Secret
        <3> QED
            BY <3>2, <3>3
    <2>7. ASSUME About(k, feed[Author]) = {}, k \notin room
          PROVE  Gone(k, t)
        <3>1. Gone(k, a)
            BY <1>13, <2>7, OtherFacts
        <3> QED
            BY <1>2, <1>4, <1>8, <2>7, <3>1 DEF Gone
    <2> QED
        BY <1>2, <2>1, <2>3, <2>4, <2>5, <2>6, <2>7
<1>15. minted' \in Nat /\ minted <= minted'
    BY <1>0, <1>2
<1> HIDE DEF e
<1> QED
    BY <1>2, <1>7, <1>8, <1>10, <1>11, <1>12, <1>14, <1>15, AuthorStep

\* The author has derived the key table of its new epoch, and turns to the peers
\* to wrap the chain key for.
LEMMA AuthorDerives ==
    ASSUME OneCallAtATime, RoomTypeOK, RoomSound, ConvergeInv, NEW s \in Slots, deriveDone(Author, s)
    PROVE  ConvergeInv'
<1> DEFINE a == ratchet[Author]
           c == CallIn(a)
           i == installEpoch(a, c)
           d == IF c.todo # {} THEN [c EXCEPT !.pc = "wrap"] ELSE None
           t == [i EXCEPT !.calls[TheSlot] = d]
           entry == [chainKey |-> c.chainKey, buf |-> c.buf, peerIndexMap |-> c.peerIndexMap]
<1>0. /\ a \in Ratchet /\ Author \in Nodes /\ Author \in Nat /\ Author \in room
      /\ TheSlot \in Slots /\ s = TheSlot
      /\ minted \in Nat
      /\ Seated(Author, a, feed[Author], channel[Author], Author \in room)
      /\ AuthorSound(a, minted) /\ SasOfEpoch(Author, a)
    BY AuthorFacts
<1>1. c # None /\ c.pc = "derive" /\ c \in Call
    <2>1. c # None /\ c.pc = "derive"
        BY <1>0 DEF deriveDone, CallIn
    <2> QED
        BY <2>1, AuthorFacts
<1>2. AuthorCall(a, c, minted)
    BY <1>0, <1>1 DEF AuthorSound
<1>3. /\ c.sasPeer = None /\ c.version = a.currentEpoch + 1 /\ c.todo = Members(a.peers)
      /\ c.out = NoAnnouncements /\ c.peerIndexMap = Members(a.peers) \cup {Author}
      /\ \A v \in Epochs : a.epochs[v] # None => a.epochs[v].buf < c.buf
      /\ c.chainKey = c.buf /\ c.buf <= minted
    BY <1>1, <1>2 DEF AuthorCall
<1>4. /\ ratchet' = [ratchet EXCEPT ![Author] = Continue(i, TheSlot)]
      /\ room' = room /\ minted' = minted /\ feed' = feed /\ channel' = channel /\ known' = known
    BY <1>0, <1>3 DEF deriveDone, CallIn
<1>5. /\ a.currentEpoch \in Int /\ c.version \in Epochs /\ c.version \in Int
      /\ c.version > a.currentEpoch /\ a.currentEpoch < c.version
    BY <1>0, <1>1, <1>3, RoomBoundsAssumption DEF Ratchet, Epochs, Call
<1> HIDE DEF c
<1>6. /\ i \in Ratchet
      /\ i.publicKey = a.publicKey /\ i.peers = a.peers /\ i.calls = a.calls
      /\ i.epochs = [a.epochs EXCEPT ![c.version] = entry]
      /\ i.currentEpoch = c.version
      /\ i.sasState = wipeSasForRotation(a.sasState, c.version)
    BY <1>0, <1>1, <1>5, InstallType, InstallFields
<1> HIDE DEF i
<1>7. Continue(i, TheSlot) = t
    BY <1>0, <1>6 DEF Continue, Ratchet, CallIn, c
<1>8. d = None \/ d \in Call
    BY <1>1 DEF Call
<1>9. d # None => /\ d.pc = "wrap" /\ d.version = c.version /\ d.chainKey = c.chainKey /\ d.buf = c.buf
                  /\ d.peerIndexMap = c.peerIndexMap /\ d.members = c.members /\ d.todo = c.todo
                  /\ d.out = c.out
    BY <1>1, <1>8 DEF Call
<1>10. c.todo # {} => d # None
    <2>1. [c EXCEPT !.pc = "wrap"] \in Call
        BY <1>1 DEF Call
    <2> QED
        BY <2>1, NoneAssumption
<1>11. \A k \in Nodes : i.sasState[k] = None
    <2> SUFFICES ASSUME NEW k \in Nodes, a.sasState[k] # None
                 PROVE  i.sasState[k] = None
        BY <1>6 DEF wipeSasForRotation
    <2>1. a.sasState[k].epoch < c.version
        BY <1>0, <1>5 DEF SasOfEpoch
    <2> QED
        BY <1>6, <2>1 DEF wipeSasForRotation
<1>12. /\ i.epochs[c.version] = entry
       /\ \A v \in Epochs : v # c.version => i.epochs[v] = a.epochs[v]
    BY <1>0, <1>5, <1>6 DEF Ratchet
<1> HIDE DEF d
<1>13. /\ t.publicKey = a.publicKey /\ t.peers = a.peers /\ t.epochs = i.epochs
       /\ t.currentEpoch = c.version /\ t.sasState = i.sasState /\ CallIn(t) = d
    BY <1>0, <1>6 DEF Ratchet, CallIn
<1> HIDE DEF t
<1>14. ratchet' = [ratchet EXCEPT ![Author] = t]
    BY <1>4, <1>7
<1>15. Seated(Author, t, feed'[Author], channel'[Author], Author \in room)
    BY <1>0, <1>1, <1>4, <1>9, <1>13 DEF Seated, c
<1>16. AuthorSound(t, minted)
    <2>1. entry.chainKey = c.chainKey /\ entry.buf = c.buf /\ entry.peerIndexMap = c.peerIndexMap
        OBVIOUS
    <2> HIDE DEF entry
    <2>2. ASSUME NEW v \in Epochs, t.epochs[v] # None
          PROVE  /\ v <= t.currentEpoch
                 /\ t.epochs[v].chainKey = t.epochs[v].buf /\ t.epochs[v].buf <= minted
                 /\ \A w \in Epochs : t.epochs[w] # None /\ v < w => t.epochs[v].buf < t.epochs[w].buf
        <3>1. v \in Int
            BY RoomBoundsAssumption DEF Epochs
        <3>2. \A w \in Epochs : a.epochs[w] # None => w <= a.currentEpoch /\ w \in Int
            BY <1>0, RoomBoundsAssumption DEF AuthorSound, AuthorEpochs, Epochs
        <3>3. CASE v = c.version
            <4>1. v <= t.currentEpoch
                BY <1>13, <3>1, <3>3
            <4>2. \A w \in Epochs : v < w => t.epochs[w] = None
                <5> SUFFICES ASSUME NEW w \in Epochs, v < w, t.epochs[w] # None
                             PROVE  FALSE
                    OBVIOUS
                <5>1. w # v
                    BY <3>1
                <5>2. w <= a.currentEpoch /\ w \in Int
                    BY <1>12, <1>13, <3>2, <3>3, <5>1
                <5> QED
                    BY <1>5, <3>1, <3>3, <5>2
            <4> QED
                BY <1>3, <1>12, <1>13, <2>1, <3>3, <4>1, <4>2
        <3>4. CASE v # c.version
            <4>1. t.epochs[v] = a.epochs[v] /\ a.epochs[v] # None
                BY <1>12, <1>13, <2>2, <3>4
            <4>2. v <= t.currentEpoch
                BY <1>5, <1>13, <3>2, <4>1
            <4>3. t.epochs[v].chainKey = t.epochs[v].buf /\ t.epochs[v].buf <= minted
                BY <1>0, <4>1 DEF AuthorSound, AuthorEpochs
            <4>4. ASSUME NEW w \in Epochs, t.epochs[w] # None, v < w
                  PROVE  t.epochs[v].buf < t.epochs[w].buf
                <5>1. CASE w = c.version
                    BY <1>3, <1>12, <1>13, <2>1, <4>1, <5>1
                <5>2. CASE w # c.version
                    BY <1>0, <1>12, <1>13, <4>1, <4>4, <5>2 DEF AuthorSound, AuthorEpochs
                <5> QED
                    BY <5>1, <5>2
            <4> QED
                BY <4>2, <4>3, <4>4
        <3> QED
            BY <3>3, <3>4
    <2>3. AuthorEpochs(t, minted)
        BY <2>2 DEF AuthorEpochs
    <2>4. t.epochs[t.currentEpoch].peerIndexMap = Members(t.peers) \cup {Author}
        BY <1>3, <1>12, <1>13, <2>1
    <2>5. \A k \in Nodes : c.out[k] = None
        BY <1>3 DEF NoAnnouncements
    <2>6. d # None => AuthorCall(t, d, minted)
        BY <1>3, <1>9, <1>12, <1>13, <2>5 DEF AuthorCall, entry
    <2> QED
        BY <1>13, <2>3, <2>4, <2>6 DEF AuthorSound
<1>17. SasOfEpoch(Author, t)
    BY <1>11, <1>13 DEF SasOfEpoch
<1>18. /\ NewestVersion(t) = c.version /\ NewestVersion(a) = c.version
       /\ NewestEpoch(a) = c /\ Same(c, NewestEpoch(t)) /\ ~Deriving(t)
    <2>1. Same(c, entry)
        BY DEF Same
    <2> HIDE DEF entry
    <2> QED
        BY <1>1, <1>9, <1>12, <1>13, <2>1 DEF NewestVersion, NewestEpoch, Deriving, Same, c
<1>19. ASSUME NEW k \in Nodes \ {Author}
       PROVE  /\ Seated(k, ratchet[k], feed[k], channel'[k], k \in room)
              /\ InOrder(ratchet[k], channel'[k][Author], OutFor(t, k), NewestVersion(t),
                         NewestEpoch(t), minted)
              /\ Heard(k, feed'[Author], t.peers[k], ratchet[k].publicKey)
              /\ NewestVersion(t) >= 0 /\ NewestEpoch(t).chainKey \in known[k] =>
                    About(k, feed'[Author]) # {} \/ t.peers[k] # 0
              /\ About(k, feed'[Author]) = {} =>
                    /\ k \in room /\ NewestVersion(t) >= 0 =>
                          OnItsWay(k, t, ratchet[k], channel'[k][Author])
                    /\ k \notin room /\ ~Deriving(t) => Gone(k, t)
    <2>1. Seated(k, ratchet[k], feed[k], channel'[k], k \in room)
        BY <1>4, NodeFacts
    <2>2. OutFor(t, k) = None /\ OutFor(a, k) = None
        BY <1>1, <1>3, <1>9, <1>13 DEF OutFor, NoAnnouncements, c
    <2>3. InOrder(ratchet[k], channel'[k][Author], OutFor(t, k), NewestVersion(t), NewestEpoch(t), minted)
        <3>1. /\ InOrder(ratchet[k], channel[k][Author], None, c.version, c, minted)
              /\ ratchet[k] \in Ratchet /\ channel[k][Author] \in Seq(EpochAnnouncement)
            BY <1>0, <1>18, <2>2, NodeFacts
        <3>2. CallIn(ratchet[k]) # None => CallIn(ratchet[k]) \in Call
            BY <1>0, <3>1 DEF Ratchet, CallIn
        <3>3. minted <= minted
            BY <1>0
        <3>4. InOrder(ratchet[k], channel[k][Author], None, c.version, NewestEpoch(t), minted)
            BY ONLY <1>0, <1>18, <3>1, <3>2, <3>3, InOrderMore
        <3> QED
            BY <1>4, <1>18, <2>2, <3>4
    <2>4. Heard(k, feed'[Author], t.peers[k], ratchet[k].publicKey)
        BY <1>4, <1>13, OtherFacts
    <2>5. NewestVersion(t) >= 0 /\ NewestEpoch(t).chainKey \in known[k] =>
                    About(k, feed'[Author]) # {} \/ t.peers[k] # 0
        BY <1>4, <1>13, <1>18, OtherFacts DEF Same
    <2>6. ASSUME About(k, feed[Author]) = {}
          PROVE  /\ a.peers[k] = ratchet[k].publicKey
                 /\ k \in room <=> k \in c.todo
        BY <1>3, <2>6, OtherFacts DEF Heard, Members
    <2>7. ASSUME About(k, feed[Author]) = {}, k \in room, NewestVersion(t) >= 0
          PROVE  OnItsWay(k, t, ratchet[k], channel[k][Author])
        <3>1. OnItsWay(k, a, ratchet[k], channel[k][Author])
            BY <1>18, <2>7, OtherFacts
        <3>2. ToWrap(k, t) /\ ToWrap(k, a)
            BY <1>1, <1>9, <1>10, <1>13, <2>6, <2>7 DEF ToWrap, c
        <3>3. CallIn(t).members[k] = ratchet[k].publicKey
            BY <1>9, <1>10, <1>13, <2>6, <2>7, <3>1, <3>2 DEF OnItsWay, c
        <3> QED
            BY <3>2, <3>3 DEF OnItsWay
    <2>8. ASSUME About(k, feed[Author]) = {}, k \notin room
          PROVE  Gone(k, t)
        BY <1>9, <1>11, <1>13, <2>6, <2>8 DEF Gone
    <2> QED
        BY <1>4, <2>1, <2>3, <2>4, <2>5, <2>7, <2>8
<1>20. minted' \in Nat /\ minted <= minted'
    BY <1>0, <1>4
<1> QED
    BY <1>4, <1>13, <1>14, <1>15, <1>16, <1>17, <1>19, <1>20, AuthorStep

\* The author has wrapped the chain key for one more peer, under a new secret.
LEMMA InOrderWrap ==
    ASSUME NEW r, NEW q, NEW out, NEW v, NEW e, NEW f, NEW m \in Nat,
           InOrder(r, q, out, v, e, m), Same(e, f), r \in Ratchet, q \in Seq(EpochAnnouncement),
           CallIn(r) # None => CallIn(r) \in Call, out # None => out \in EpochAnnouncement,
           NEW o, o.secret = m + 1
    PROVE  InOrder(r, q, o, v, f, m + 1)
<1>1. InOrder(r, q, out, v, f, m + 1)
    <2>1. m <= m + 1 /\ m + 1 \in Nat
        OBVIOUS
    <2> QED
        BY <2>1, InOrderMore
<1>2. o.secret <= m + 1 /\ Ahead(r, q, o.secret)
    BY DEF InOrder
<1> QED
    BY <1>1, <1>2 DEF InOrder

LEMMA AuthorWraps ==
    ASSUME OneCallAtATime, RoomTypeOK, RoomSound, ConvergeInv, NEW n \in Nodes, NEW s \in Slots,
           NEW p \in Nodes, wrapDone(n, s, p)
    PROVE  ConvergeInv'
<1> DEFINE a == ratchet[Author]
           c == CallIn(a)
           o == [version |-> c.version, from |-> Author, forPeer |-> p,
                 wrappedFor |-> c.members[p], chainKey |-> c.chainKey,
                 secret |-> minted + 1, peerIndexMap |-> c.peerIndexMap]
           d == [c EXCEPT !.pc = "sas", !.todo = @ \ {p}, !.sasPeer = p,
                          !.secret = minted + 1, !.out[p] = o]
           t == [a EXCEPT !.calls[TheSlot] = d]
<1>0. /\ a \in Ratchet /\ Author \in Nodes /\ Author \in Nat /\ Author \in room
      /\ TheSlot \in Slots /\ s = TheSlot
      /\ minted \in Nat
      /\ Seated(Author, a, feed[Author], channel[Author], Author \in room)
      /\ AuthorSound(a, minted) /\ SasOfEpoch(Author, a)
    BY AuthorFacts
<1>1. n = Author
    <2>1. CallIn(ratchet[n]) # None /\ CallIn(ratchet[n]).pc = "wrap"
        BY <1>0 DEF wrapDone, CallIn
    <2> QED
        BY <2>1, NodeFacts DEF Seated
<1>2. /\ c # None /\ c.pc = "wrap" /\ p \in c.todo
      /\ ratchet' = [ratchet EXCEPT ![Author].calls[TheSlot] = d]
      /\ minted' = minted + 1
      /\ room' = room /\ feed' = feed /\ channel' = channel /\ known' = known
    BY <1>0, <1>1 DEF wrapDone, CallIn, Begin
<1>3. c \in Call /\ p # Author /\ AuthorCall(a, c, minted)
    BY <1>0, <1>2, AuthorFacts DEF Seated, AuthorSound
<1> HIDE DEF c
<1>4. o \in EpochAnnouncement /\ o # None
    <2>1. o \in EpochAnnouncement
        BY <1>0, <1>3 DEF EpochAnnouncement, Call, PeerMap
    <2> QED
        BY <2>1, NoneAssumption
<1>5. /\ o.version = c.version /\ o.from = Author /\ o.wrappedFor = c.members[p]
      /\ o.chainKey = c.chainKey /\ o.secret = minted + 1 /\ o.peerIndexMap = c.peerIndexMap
    OBVIOUS
<1> HIDE DEF o
<1>6. /\ d \in Call
      /\ d.pc = "sas" /\ d.version = c.version /\ d.chainKey = c.chainKey /\ d.buf = c.buf
      /\ d.peerIndexMap = c.peerIndexMap /\ d.members = c.members /\ d.todo = c.todo \ {p}
      /\ d.sasPeer = p /\ d.secret = minted + 1 /\ d.out = [c.out EXCEPT ![p] = o]
    <2>1. [c.out EXCEPT ![p] = o] \in [Nodes -> EpochAnnouncement \cup {None}]
        BY <1>3, <1>4 DEF Call
    <2>2. minted + 1 \in Nat
        BY <1>0
    <2> QED
        BY <1>3, <2>1, <2>2 DEF Call
<1>7. d.out[p] = o /\ \A k \in Nodes : k # p => d.out[k] = c.out[k]
    BY <1>3, <1>6 DEF Call
<1>8. d # None
    BY <1>6, NoneAssumption
<1> HIDE DEF d
<1>9. ratchet' = [ratchet EXCEPT ![Author] = t]
    BY <1>2 DEF RoomTypeOK
<1>10. /\ t.publicKey = a.publicKey /\ t.peers = a.peers /\ t.epochs = a.epochs
       /\ t.currentEpoch = a.currentEpoch /\ t.sasState = a.sasState /\ CallIn(t) = d
    BY <1>0 DEF Ratchet, CallIn
<1> HIDE DEF t
<1>11. Seated(Author, t, feed'[Author], channel'[Author], Author \in room)
    BY <1>0, <1>2, <1>3, <1>6, <1>7, <1>10 DEF Seated, c
<1>12. AuthorSound(t, minted')
    <2>1. \A v \in Epochs : a.epochs[v] # None => a.epochs[v].buf \in Nat
        BY <1>0 DEF Ratchet, EpochState
    <2>2. \A v \in Epochs : a.epochs[v] # None => a.epochs[v].buf <= minted
        BY <1>0 DEF AuthorSound, AuthorEpochs
    <2>3. \A v \in Epochs : a.epochs[v] # None => a.epochs[v].buf <= minted'
        BY <1>0, <1>2, <2>1, <2>2
    <2>4. AuthorEpochs(t, minted')
        BY <1>0, <1>10, <2>3 DEF AuthorSound, AuthorEpochs
    <2>5. d.buf <= minted'
        BY <1>0, <1>2, <1>3, <1>6 DEF AuthorCall, Call
    <2>6. \A k \in Nodes : d.out[k] # None =>
             /\ d.out[k].version = c.version /\ d.out[k].from = Author
             /\ d.out[k].chainKey = c.chainKey /\ d.out[k].peerIndexMap = c.peerIndexMap
        BY <1>3, <1>5, <1>7 DEF AuthorCall
    <2>7. /\ c.chainKey = c.buf /\ c.peerIndexMap = Members(a.peers) \cup {Author}
          /\ c.version = a.currentEpoch
          /\ a.epochs[c.version] =
                [chainKey |-> c.chainKey, buf |-> c.buf, peerIndexMap |-> c.peerIndexMap]
        BY <1>2, <1>3 DEF AuthorCall
    <2>8. AuthorCall(t, d, minted')
        BY <1>3, <1>4, <1>5, <1>6, <1>7, <1>10, <2>5, <2>6, <2>7 DEF AuthorCall
    <2> QED
        BY <1>2, <1>8, <1>10, <2>4, <2>8 DEF AuthorSound
<1>13. SasOfEpoch(Author, t)
    BY <1>0, <1>10 DEF SasOfEpoch
<1>14. /\ NewestVersion(t) = c.version /\ NewestVersion(a) = c.version
       /\ NewestEpoch(a) = c /\ NewestEpoch(t) = d /\ Same(c, d) /\ ~Deriving(a)
    BY <1>2, <1>6, <1>8, <1>10 DEF NewestVersion, NewestEpoch, Deriving, Same, c
<1>15. ASSUME NEW k \in Nodes \ {Author}
       PROVE  /\ Seated(k, ratchet[k], feed[k], channel'[k], k \in room)
              /\ InOrder(ratchet[k], channel'[k][Author], OutFor(t, k), NewestVersion(t),
                         NewestEpoch(t), minted')
              /\ Heard(k, feed'[Author], t.peers[k], ratchet[k].publicKey)
              /\ NewestVersion(t) >= 0 /\ NewestEpoch(t).chainKey \in known[k] =>
                    About(k, feed'[Author]) # {} \/ t.peers[k] # 0
              /\ About(k, feed'[Author]) = {} =>
                    /\ k \in room /\ NewestVersion(t) >= 0 =>
                          OnItsWay(k, t, ratchet[k], channel'[k][Author])
                    /\ k \notin room /\ ~Deriving(t) => Gone(k, t)
    <2>1. Seated(k, ratchet[k], feed[k], channel'[k], k \in room)
        BY <1>2, NodeFacts
    <2>2. OutFor(t, k) = d.out[k] /\ OutFor(a, k) = c.out[k]
        BY <1>2, <1>8, <1>10 DEF OutFor, c
    <2>3. InOrder(ratchet[k], channel'[k][Author], OutFor(t, k), NewestVersion(t), NewestEpoch(t), minted')
        <3>1. /\ InOrder(ratchet[k], channel[k][Author], c.out[k], c.version, c, minted)
              /\ ratchet[k] \in Ratchet /\ channel[k][Author] \in Seq(EpochAnnouncement)
            BY <1>0, <1>14, <2>2, NodeFacts
        <3>2. /\ CallIn(ratchet[k]) # None => CallIn(ratchet[k]) \in Call
              /\ c.out[k] # None => c.out[k] \in EpochAnnouncement
            BY <1>0, <1>3, <3>1 DEF Ratchet, CallIn, Call
        <3>3. minted <= minted + 1 /\ minted + 1 \in Nat
            BY <1>0
        <3>4. CASE k = p
            <4>1. InOrder(ratchet[k], channel[k][Author], o, c.version, d, minted + 1)
                BY ONLY <1>0, <1>5, <1>14, <3>1, <3>2, InOrderWrap
            <4> QED
                BY <1>2, <1>7, <1>14, <2>2, <3>4, <4>1
        <3>5. CASE k # p
            <4>1. InOrder(ratchet[k], channel[k][Author], c.out[k], c.version, d, minted + 1)
                BY ONLY <1>0, <1>14, <3>1, <3>2, <3>3, InOrderMore
            <4> QED
                BY <1>2, <1>7, <1>14, <2>2, <3>5, <4>1
        <3> QED
            BY <3>4, <3>5
    <2>4. Heard(k, feed'[Author], t.peers[k], ratchet[k].publicKey)
        BY <1>2, <1>10, OtherFacts
    <2>5. NewestVersion(t) >= 0 /\ NewestEpoch(t).chainKey \in known[k] =>
                    About(k, feed'[Author]) # {} \/ t.peers[k] # 0
        BY <1>2, <1>10, <1>14, OtherFacts DEF Same
    <2>6. ASSUME About(k, feed[Author]) = {}, k \in room, NewestVersion(t) >= 0
          PROVE  OnItsWay(k, t, ratchet[k], channel[k][Author])
        <3>1. OnItsWay(k, a, ratchet[k], channel[k][Author])
            BY <1>14, <2>6, OtherFacts
        <3>2. CASE k = p
            <4>1. c.members[p] = ratchet[p].publicKey
                BY <1>2, <3>1, <3>2 DEF OnItsWay, ToWrap, c
            <4>2. ~ToWrap(k, t)
                BY <1>6, <1>10, <3>2 DEF ToWrap
            <4>3. Wrapped(k, t, ratchet[k])
                BY <1>5, <1>6, <1>7, <1>10, <2>2, <3>2, <4>1 DEF Wrapped
            <4> QED
                BY <1>4, <1>7, <2>2, <3>2, <4>2, <4>3 DEF OnItsWay
        <3>3. CASE k # p
            <4>1. ToWrap(k, t) <=> ToWrap(k, a)
                BY <1>2, <1>6, <1>8, <1>10, <3>3 DEF ToWrap, c
            <4>2. OutFor(t, k) = OutFor(a, k)
                BY <1>7, <2>2, <3>3
            <4>3. CASE ToWrap(k, a)
                BY <1>6, <1>10, <3>1, <4>1, <4>3 DEF OnItsWay, c
            <4>4. CASE ~ToWrap(k, a) /\ OutFor(a, k) # None
                <5>1. Wrapped(k, a, ratchet[k])
                    BY <3>1, <4>4 DEF OnItsWay
                <5>2. CallIn(a).pc # "sas"
                    BY <1>2 DEF c
                <5>3. Wrapped(k, t, ratchet[k])
                    BY <1>10, <4>2, <5>1, <5>2 DEF Wrapped, Secret
                <5> QED
                    BY <4>1, <4>2, <4>4, <5>3 DEF OnItsWay
            <4>5. CASE ~ToWrap(k, a) /\ OutFor(a, k) = None
                BY <1>10, <1>14, <3>1, <4>1, <4>2, <4>5 DEF OnItsWay, Sent, Consumed, Shared, Secret
            <4> QED
                BY <4>3, <4>4, <4>5
        <3> QED
            BY <3>2, <3>3
    <2>7. ASSUME About(k, feed[Author]) = {}, k \notin room
          PROVE  Gone(k, t)
        <3>1. Gone(k, a)
            BY <1>14, <2>7, OtherFacts
        <3> QED
            BY <1>2, <1>6, <1>10, <3>1 DEF Gone, c
    <2> QED
        BY <1>2, <2>1, <2>3, <2>4, <2>5, <2>6, <2>7
<1>16. minted' \in Nat /\ minted <= minted'
    BY <1>0, <1>2
<1> QED
    BY <1>2, <1>9, <1>10, <1>11, <1>12, <1>13, <1>15, <1>16, AuthorStep

\* The author has computed a SAS.  After the last one the call returns, and the
\* application sends what was wrapped to those who are still there.
LEMMA InOrderDrop ==
    ASSUME NEW r, NEW q, NEW out, NEW v, NEW e, NEW m, InOrder(r, q, out, v, e, m)
    PROVE  InOrder(r, q, None, v, e, m)
BY DEF InOrder

LEMMA LastOfAppend ==
    ASSUME NEW S, NEW q \in Seq(S), NEW x \in S
    PROVE  Append(q, x) # <<>> /\ Append(q, x)[Len(Append(q, x))] = x
<1> DEFINE t == Append(q, x)
<1>1. Len(q) \in Nat /\ Len(t) = Len(q) + 1 /\ t[Len(q) + 1] = x
    OBVIOUS
<1> HIDE DEF t
<1>2. t = <<>> => Len(t) = 0
    OBVIOUS
<1> QED
    BY <1>1, <1>2 DEF t

LEMMA AuthorSas ==
    ASSUME OneCallAtATime, RoomTypeOK, RoomSound, ConvergeInv, NEW s \in Slots, sasDone(Author, s)
    PROVE  ConvergeInv'
<1> DEFINE a == ratchet[Author]
           c == CallIn(a)
           p == c.sasPeer
           sas == installSas(a.sasState, p, c.version, c.secret)
           d == IF c.todo # {} THEN [c EXCEPT !.pc = "wrap"] ELSE None
           t == [a EXCEPT !.sasState = sas, !.calls[TheSlot] = d]
<1>0. /\ a \in Ratchet /\ Author \in Nodes /\ Author \in Nat /\ Author \in room
      /\ TheSlot \in Slots /\ s = TheSlot
      /\ minted \in Nat
      /\ Seated(Author, a, feed[Author], channel[Author], Author \in room)
      /\ AuthorSound(a, minted) /\ SasOfEpoch(Author, a)
    BY AuthorFacts
<1>1. c # None /\ c.pc = "sas" /\ c \in Call
    <2>1. c # None /\ c.pc = "sas"
        BY <1>0 DEF sasDone, CallIn
    <2> QED
        BY <2>1, AuthorFacts
<1>2. AuthorCall(a, c, minted)
    BY <1>0, <1>1 DEF AuthorSound
<1>3. /\ p \in Nodes \ {Author} /\ c.out[p] # None /\ c.out[p].secret = c.secret
      /\ c.version = a.currentEpoch
      /\ a.epochs[c.version] =
            [chainKey |-> c.chainKey, buf |-> c.buf, peerIndexMap |-> c.peerIndexMap]
      /\ c.chainKey = c.buf /\ c.buf <= minted /\ c.peerIndexMap = Members(a.peers) \cup {Author}
      /\ c.out[Author] = None
    BY <1>0, <1>1, <1>2 DEF AuthorCall, Seated
<1>4. /\ ratchet' = [ratchet EXCEPT ![Author] = Continue([a EXCEPT !.sasState = sas], TheSlot)]
      /\ Send(Author, c)
      /\ room' = room /\ minted' = minted /\ feed' = feed /\ known' = known
    BY <1>0 DEF sasDone, CallIn
<1> HIDE DEF c
<1>5. /\ sas[p] = [epoch |-> c.version, data |-> c.secret, verified |-> FALSE]
      /\ \A k \in Nodes : k # p => sas[k] = a.sasState[k]
    BY <1>0, <1>3 DEF installSas, Ratchet
<1>6. sas[p] # None /\ sas[p].data = c.secret /\ sas[p].epoch = c.version
    <2>1. c.version \in Epochs /\ c.secret \in Nat
        BY <1>1 DEF Call
    <2>2. sas[p] \in PeerSasState
        BY <1>5, <2>1 DEF PeerSasState
    <2> DEFINE x == sas[p]
    <2>3. x = [epoch |-> c.version, data |-> c.secret, verified |-> FALSE]
        BY <1>5
    <2>4. x # None
        BY <2>2, NoneAssumption
    <2> HIDE DEF x
    <2>5. x.data = c.secret /\ x.epoch = c.version
        BY ONLY <2>3
    <2> QED
        BY <2>4, <2>5 DEF x
<1> HIDE DEF sas
<1>7. Continue([a EXCEPT !.sasState = sas], TheSlot) = t
    BY <1>0 DEF Continue, Ratchet, CallIn, c
<1>8. d = None \/ d \in Call
    BY <1>1 DEF Call
<1>9. d # None => /\ d.pc = "wrap" /\ d.version = c.version /\ d.chainKey = c.chainKey /\ d.buf = c.buf
                  /\ d.peerIndexMap = c.peerIndexMap /\ d.members = c.members /\ d.todo = c.todo
                  /\ d.out = c.out
    BY <1>1, <1>8 DEF Call
<1>10. d # None <=> c.todo # {}
    <2>1. [c EXCEPT !.pc = "wrap"] \in Call
        BY <1>1 DEF Call
    <2> QED
        BY <2>1, NoneAssumption
<1> HIDE DEF d
<1>11. /\ t.publicKey = a.publicKey /\ t.peers = a.peers /\ t.epochs = a.epochs
       /\ t.currentEpoch = a.currentEpoch /\ t.sasState = sas /\ CallIn(t) = d
    BY <1>0 DEF Ratchet, CallIn
<1> HIDE DEF t
<1>12. ratchet' = [ratchet EXCEPT ![Author] = t]
    BY <1>4, <1>7
<1>13. \A k \in Nodes :
          /\ channel'[k] = IF c.todo = {} /\ k \in room /\ c.out[k] # None
                             THEN [channel[k] EXCEPT ![Author] = Append(@, c.out[k])] ELSE channel[k]
          /\ channel[k] \in [Nodes -> Seq(EpochAnnouncement)]
    BY <1>4 DEF Send, RoomTypeOK
<1>14. \A k \in Nodes :
          /\ channel'[k][Author] = IF c.todo = {} /\ k \in room /\ c.out[k] # None
                                     THEN Append(channel[k][Author], c.out[k]) ELSE channel[k][Author]
          /\ \A j \in Nodes : j # Author => channel'[k][j] = channel[k][j]
    BY <1>0, <1>13
<1>15. channel'[Author] = channel[Author]
    BY <1>0, <1>3, <1>13
<1>16. Seated(Author, t, feed'[Author], channel'[Author], Author \in room)
    BY <1>0, <1>1, <1>4, <1>9, <1>11, <1>15 DEF Seated, c
<1>17. AuthorSound(t, minted)
    <2>1. AuthorEpochs(t, minted)
        BY <1>0, <1>11 DEF AuthorSound, AuthorEpochs
    <2>2. t.epochs[t.currentEpoch].peerIndexMap = Members(t.peers) \cup {Author}
        BY <1>3, <1>11
    <2>3. \A k \in Nodes : c.out[k] # None =>
             /\ c.out[k].version = c.version /\ c.out[k].from = Author
             /\ c.out[k].chainKey = c.chainKey /\ c.out[k].peerIndexMap = c.peerIndexMap
        BY <1>2 DEF AuthorCall
    <2>4. d # None => AuthorCall(t, d, minted)
        BY <1>3, <1>9, <1>11, <2>3 DEF AuthorCall
    <2> QED
        BY <1>11, <2>1, <2>2, <2>4 DEF AuthorSound
<1>18. SasOfEpoch(Author, t)
    <2>1. SasOfEpoch(Author, a)
        BY <1>0
    <2> QED
        BY <1>3, <1>5, <1>6, <1>11, <2>1 DEF SasOfEpoch
<1>19. /\ NewestVersion(t) = c.version /\ NewestVersion(a) = c.version
       /\ NewestEpoch(a) = c /\ Same(c, NewestEpoch(t)) /\ ~Deriving(a)
    <2>1. Same(c, a.epochs[a.currentEpoch])
        BY <1>3 DEF Same
    <2> QED
        BY <1>1, <1>3, <1>9, <1>11, <2>1 DEF NewestVersion, NewestEpoch, Deriving, Same, c
<1>20. ASSUME NEW k \in Nodes \ {Author}
       PROVE  /\ Seated(k, ratchet[k], feed[k], channel'[k], k \in room)
              /\ InOrder(ratchet[k], channel'[k][Author], OutFor(t, k), NewestVersion(t),
                         NewestEpoch(t), minted)
              /\ Heard(k, feed'[Author], t.peers[k], ratchet[k].publicKey)
              /\ NewestVersion(t) >= 0 /\ NewestEpoch(t).chainKey \in known[k] =>
                    About(k, feed'[Author]) # {} \/ t.peers[k] # 0
              /\ About(k, feed'[Author]) = {} =>
                    /\ k \in room /\ NewestVersion(t) >= 0 =>
                          OnItsWay(k, t, ratchet[k], channel'[k][Author])
                    /\ k \notin room /\ ~Deriving(t) => Gone(k, t)
    <2> DEFINE q == channel[k][Author]
               r == ratchet[k]
    <2>1. Seated(k, ratchet[k], feed[k], channel'[k], k \in room)
        <3>1. \A j \in Nodes : channel'[k][j] # <<>> => j = Author
            BY <1>14, NodeFacts DEF Seated
        <3> QED
            BY <3>1, NodeFacts DEF Seated
    <2>2. /\ OutFor(a, k) = c.out[k]
          /\ OutFor(t, k) = IF c.todo = {} THEN None ELSE c.out[k]
          /\ c.out[k] # None => c.out[k] \in EpochAnnouncement
        BY <1>1, <1>9, <1>10, <1>11 DEF OutFor, c, Call
    <2>3. /\ InOrder(r, q, c.out[k], c.version, c, minted)
          /\ r \in Ratchet /\ q \in Seq(EpochAnnouncement)
        BY <1>0, <1>19, <2>2, NodeFacts
    <2>4. CallIn(r) # None => CallIn(r) \in Call
        BY <1>0, <2>3 DEF Ratchet, CallIn
    <2> HIDE DEF q, r
    <2>5. InOrder(r, channel'[k][Author], OutFor(t, k), c.version, c, minted)
        <3>1. CASE c.todo # {}
            BY <1>14, <2>2, <2>3, <3>1 DEF q
        <3>2. CASE c.todo = {} /\ k \in room /\ c.out[k] # None
            <4>1. /\ c.out[k].version = c.version /\ c.out[k].from = Author
                  /\ Same(c.out[k], c) /\ c.out[k].chainKey \in 0..minted
                <5>1. /\ c.out[k].version = c.version /\ c.out[k].from = Author
                      /\ c.out[k].chainKey = c.chainKey /\ c.out[k].peerIndexMap = c.peerIndexMap
                    BY <1>2, <3>2 DEF AuthorCall
                <5>2. c.chainKey \in 0..minted
                    BY <1>0, <1>1, <1>3 DEF Call
                <5> QED
                    BY <5>1, <5>2 DEF Same
            <4>2. InOrder(r, Append(q, c.out[k]), None, c.version, c, minted)
                BY ONLY <1>0, <2>2, <2>3, <2>4, <3>2, <4>1, InOrderSend
            <4> QED
                BY <1>14, <2>2, <3>2, <4>2 DEF q
        <3>3. CASE c.todo = {} /\ ~(k \in room /\ c.out[k] # None)
            <4>1. InOrder(r, q, None, c.version, c, minted)
                BY <2>3, InOrderDrop
            <4> QED
                BY <1>14, <2>2, <3>3, <4>1 DEF q
        <3> QED
            BY <3>1, <3>2, <3>3
    <2>6. InOrder(r, channel'[k][Author], OutFor(t, k), c.version, NewestEpoch(t), minted)
        <3>1. channel'[k][Author] \in Seq(EpochAnnouncement)
            <4>1. c.out[k] # None => Append(q, c.out[k]) \in Seq(EpochAnnouncement)
                BY <2>2, <2>3
            <4> QED
                BY <1>14, <2>3, <4>1 DEF q
        <3>2. OutFor(t, k) # None => OutFor(t, k) \in EpochAnnouncement
            BY <2>2
        <3>3. minted <= minted
            BY <1>0
        <3> QED
            BY ONLY <1>0, <1>19, <2>3, <2>4, <2>5, <3>1, <3>2, <3>3, InOrderMore
    <2>7. Heard(k, feed'[Author], t.peers[k], r.publicKey)
        BY <1>4, <1>11, OtherFacts DEF r
    <2>8. NewestVersion(t) >= 0 /\ NewestEpoch(t).chainKey \in known[k] =>
                    About(k, feed'[Author]) # {} \/ t.peers[k] # 0
        BY <1>4, <1>11, <1>19, OtherFacts DEF Same
    <2>9. ASSUME About(k, feed[Author]) = {}, k \in room, NewestVersion(t) >= 0
          PROVE  OnItsWay(k, t, r, channel'[k][Author])
        <3>1. OnItsWay(k, a, r, q)
            BY <1>19, <2>9, OtherFacts DEF q, r
        <3>2. ToWrap(k, a) <=> k \in c.todo
            BY <1>1 DEF ToWrap, c
        <3>3. ToWrap(k, t) <=> k \in c.todo
            BY <1>9, <1>10, <1>11 DEF ToWrap
        <3>4. k \notin c.todo /\ c.out[k] # None =>
                 c.out[k].wrappedFor = r.publicKey /\ Secret(k, t, c.out[k].secret)
            <4> SUFFICES ASSUME k \notin c.todo, c.out[k] # None
                         PROVE  c.out[k].wrappedFor = r.publicKey /\ Secret(k, t, c.out[k].secret)
                OBVIOUS
            <4>1. Wrapped(k, a, r)
                BY <2>2, <3>1, <3>2 DEF OnItsWay
            <4>2. c.out[k].wrappedFor = r.publicKey
                BY <2>2, <4>1 DEF Wrapped
            <4>3. CASE k = p
                BY <1>3, <1>6, <1>11, <4>2, <4>3 DEF Secret
            <4>4. CASE k # p
                <5>1. Secret(k, a, c.out[k].secret)
                    BY <2>2, <4>1, <4>4 DEF Wrapped, c
                <5> QED
                    BY <1>5, <1>11, <4>2, <4>4, <5>1 DEF Secret
            <4> QED
                BY <4>3, <4>4
        <3>5. CASE k \in c.todo
            <4>1. CallIn(t).members[k] = r.publicKey
                BY <1>9, <1>10, <1>11, <3>1, <3>2, <3>5 DEF OnItsWay, c
            <4> QED
                BY <3>3, <3>5, <4>1 DEF OnItsWay
        <3>6. CASE k \notin c.todo /\ c.out[k] # None /\ c.todo # {}
            BY <2>2, <3>3, <3>4, <3>6 DEF OnItsWay, Wrapped
        <3>7. CASE k \notin c.todo /\ c.out[k] # None /\ c.todo = {}
            <4>1. channel'[k][Author] = Append(q, c.out[k])
                BY <1>14, <2>9, <3>7 DEF q
            <4>2. Append(q, c.out[k]) # <<>> /\ Append(q, c.out[k])[Len(Append(q, c.out[k]))] = c.out[k]
                BY <2>2, <2>3, <3>7, LastOfAppend
            <4>3. c.out[k].version = c.version
                BY <1>2, <3>7 DEF AuthorCall
            <4>4. Sent(k, t, r, channel'[k][Author])
                BY <1>19, <3>4, <3>7, <4>1, <4>2, <4>3 DEF Sent
            <4> QED
                BY <2>2, <3>3, <3>7, <4>4 DEF OnItsWay
        <3>8. CASE k \notin c.todo /\ c.out[k] = None
            <4>1. k # p
                BY <1>3, <3>8
            <4>2. t.sasState[k] = a.sasState[k] /\ channel'[k][Author] = q
                BY <1>5, <1>11, <1>14, <3>8, <4>1 DEF q
            <4>3. Sent(k, a, r, q) \/ Consumed(k, a, r, q) \/ Shared(k, a, r, q)
                BY <2>2, <3>1, <3>2, <3>8 DEF OnItsWay
            <4>4. Sent(k, t, r, q) \/ Consumed(k, t, r, q) \/ Shared(k, t, r, q)
                BY <1>19, <4>2, <4>3 DEF Sent, Consumed, Shared, Secret
            <4> QED
                BY <2>2, <3>3, <3>8, <4>2, <4>4 DEF OnItsWay
        <3> QED
            BY <3>5, <3>6, <3>7, <3>8
    <2>10. ASSUME About(k, feed[Author]) = {}, k \notin room
          PROVE  Gone(k, t)
        <3>1. Gone(k, a)
            BY <1>19, <2>10, OtherFacts
        <3>2. k # p /\ k \notin c.todo /\ a.sasState[k] = None
            BY <1>1, <3>1 DEF Gone, c
        <3> QED
            BY <1>5, <1>9, <1>11, <3>2 DEF Gone
    <2> QED
        BY <1>4, <1>19, <2>1, <2>6, <2>7, <2>8, <2>9, <2>10 DEF r
<1>21. minted' \in Nat /\ minted <= minted'
    BY <1>0, <1>4
<1>22. \A k \in Nodes : k # Author => feed'[k] = feed[k]
    BY <1>4
<1> HIDE DEF a, p
<1> QED
    BY <1>4, <1>11, <1>12, <1>16, <1>17, <1>18, <1>20, <1>21, <1>22, AuthorStep DEF a

\* The author takes a step that touches neither its call nor its newest epoch.
LEMMA AuthorKeeps ==
    ASSUME OneCallAtATime, RoomTypeOK, RoomSound, ConvergeInv, NEW t,
           ratchet' = [ratchet EXCEPT ![Author] = t],
           room' = room, feed' = feed, channel' = channel, known' = known, minted' = minted,
           t.publicKey = ratchet[Author].publicKey, t.peers = ratchet[Author].peers,
           t.currentEpoch = ratchet[Author].currentEpoch, CallIn(t) = CallIn(ratchet[Author]),
           t.epochs[t.currentEpoch] = ratchet[Author].epochs[t.currentEpoch],
           \A v \in Epochs : t.epochs[v] # None => t.epochs[v] = ratchet[Author].epochs[v],
           \A k \in Nodes :
              /\ t.sasState[k] # None <=> ratchet[Author].sasState[k] # None
              /\ t.sasState[k] # None =>
                    /\ t.sasState[k].epoch = ratchet[Author].sasState[k].epoch
                    /\ t.sasState[k].data = ratchet[Author].sasState[k].data
    PROVE  ConvergeInv'
<1> DEFINE a == ratchet[Author]
           c == CallIn(a)
<1>0. /\ a \in Ratchet /\ Author \in Nodes /\ Author \in room /\ minted \in Nat
      /\ Seated(Author, a, feed[Author], channel[Author], Author \in room)
      /\ AuthorSound(a, minted) /\ SasOfEpoch(Author, a)
    BY AuthorFacts
<1>1. Seated(Author, t, feed'[Author], channel'[Author], Author \in room)
    BY <1>0 DEF Seated
<1>2. AuthorSound(t, minted')
    <2>1. AuthorEpochs(t, minted)
        BY <1>0 DEF AuthorSound, AuthorEpochs
    <2>2. ASSUME c # None
          PROVE  AuthorCall(t, c, minted)
        <3>1. AuthorCall(a, c, minted)
            BY <1>0, <2>2 DEF AuthorSound
        <3>2. c.pc # "derive" =>
                 /\ c.version = t.currentEpoch
                 /\ t.epochs[c.version] =
                      [chainKey |-> c.chainKey, buf |-> c.buf, peerIndexMap |-> c.peerIndexMap]
            BY <3>1 DEF AuthorCall
        <3>3. c.pc = "derive" =>
                 /\ c.version = t.currentEpoch + 1
                 /\ \A v \in Epochs : t.epochs[v] # None => t.epochs[v].buf < c.buf
            BY <3>1 DEF AuthorCall
        <3> HIDE DEF c
        <3> QED
            BY <3>1, <3>2, <3>3 DEF AuthorCall
    <2> QED
        BY <1>0, <2>1, <2>2 DEF AuthorSound
<1>3. SasOfEpoch(Author, t)
    BY <1>0 DEF SasOfEpoch
<1>4. /\ NewestVersion(t) = NewestVersion(a) /\ NewestEpoch(t) = NewestEpoch(a)
      /\ Deriving(t) = Deriving(a) /\ \A n \in Nodes : OutFor(t, n) = OutFor(a, n)
    BY DEF NewestVersion, NewestEpoch, Deriving, OutFor
<1>5. ASSUME NEW n \in Nodes \ {Author}
      PROVE  /\ \A r, q : OnItsWay(n, a, r, q) => OnItsWay(n, t, r, q)
             /\ Gone(n, a) => Gone(n, t)
    <2>1. \A secret : Secret(n, a, secret) => Secret(n, t, secret)
        BY DEF Secret
    <2>2. ToWrap(n, t) <=> ToWrap(n, a)
        BY DEF ToWrap
    <2>3. \A r : Wrapped(n, a, r) => Wrapped(n, t, r)
        BY <1>4, <2>1 DEF Wrapped
    <2>4. \A r, q : /\ Sent(n, a, r, q) => Sent(n, t, r, q)
                    /\ Consumed(n, a, r, q) => Consumed(n, t, r, q)
                    /\ Shared(n, a, r, q) => Shared(n, t, r, q)
        BY <1>4, <2>1 DEF Sent, Consumed, Shared
    <2>5. \A r, q : OnItsWay(n, a, r, q) => OnItsWay(n, t, r, q)
        BY <1>4, <2>2, <2>3, <2>4 DEF OnItsWay
    <2>6. Gone(n, a) => Gone(n, t)
        BY DEF Gone
    <2> QED
        BY <2>5, <2>6
<1>6. ASSUME NEW n \in Nodes \ {Author}
      PROVE  /\ Seated(n, ratchet[n], feed[n], channel'[n], n \in room)
             /\ InOrder(ratchet[n], channel'[n][Author], OutFor(t, n), NewestVersion(t),
                        NewestEpoch(t), minted')
             /\ Heard(n, feed'[Author], t.peers[n], ratchet[n].publicKey)
             /\ NewestVersion(t) >= 0 /\ NewestEpoch(t).chainKey \in known[n] =>
                   About(n, feed'[Author]) # {} \/ t.peers[n] # 0
             /\ About(n, feed'[Author]) = {} =>
                   /\ n \in room /\ NewestVersion(t) >= 0 =>
                         OnItsWay(n, t, ratchet[n], channel'[n][Author])
                   /\ n \notin room /\ ~Deriving(t) => Gone(n, t)
    BY <1>4, <1>5, <1>6, NodeFacts, OtherFacts
<1>7. minted' \in Nat /\ minted <= minted'
    BY <1>0
<1> QED
    BY <1>1, <1>2, <1>3, <1>6, <1>7, AuthorStep

\* The author forgets an epoch.  Its call, if there is one, holds another buffer.
LEMMA AuthorForgets ==
    ASSUME OneCallAtATime, RoomTypeOK, RoomSound, ConvergeInv, NEW v \in Epochs, forgetEpoch(Author, v)
    PROVE  ConvergeInv'
<1> DEFINE a == ratchet[Author]
           c == CallIn(a)
<1>0. /\ a \in Ratchet /\ Author \in Nodes /\ AuthorSound(a, minted)
      /\ c # None => c \in Call
    BY AuthorFacts
<1>1. PICK t \in Ratchet :
              /\ ratchet' = [ratchet EXCEPT ![Author] = t]
              /\ t.publicKey = a.publicKey /\ t.peers = a.peers
              /\ t.currentEpoch = a.currentEpoch /\ t.sasState = a.sasState
              /\ t.epochs = [a.epochs EXCEPT ![v] = None]
              /\ v < t.currentEpoch
              /\ \/ CallIn(t) = c
                 \/ /\ c # None /\ a.epochs[v] # None /\ c.buf = a.epochs[v].buf
                    /\ CallIn(t) = [c EXCEPT !.chainKey = Zeroed]
    BY <1>0, ForgetFields
<1>2. /\ room' = room /\ minted' = minted /\ feed' = feed /\ known' = known /\ channel' = channel
    BY DEF forgetEpoch
<1>3. v \in Int /\ a.currentEpoch \in Int /\ v >= 0
    BY <1>0, RoomBoundsAssumption DEF Ratchet, Epochs
<1>4. a.currentEpoch \in Epochs
    BY <1>0, <1>1, <1>3 DEF Ratchet
<1>5. ASSUME c # None, a.epochs[v] # None
      PROVE  c.buf # a.epochs[v].buf
    <2>1. AuthorCall(a, c, minted) /\ c.buf \in Nat /\ AuthorEpochs(a, minted)
        BY <1>0, <1>5 DEF AuthorSound, Call
    <2>2. CASE c.pc = "derive"
        <3>1. a.epochs[v].buf < c.buf
            BY <1>5, <2>1, <2>2 DEF AuthorCall
        <3> QED
            BY <2>1, <3>1
    <2>3. CASE c.pc # "derive"
        <3>1. /\ c.version = a.currentEpoch
              /\ a.epochs[a.currentEpoch] =
                   [chainKey |-> c.chainKey, buf |-> c.buf, peerIndexMap |-> c.peerIndexMap]
            BY <2>1, <2>3 DEF AuthorCall
        <3>2. a.epochs[a.currentEpoch] # None
            BY AuthorFacts, <1>3, <1>1 DEF Sound
        <3>3. a.epochs[v].buf < a.epochs[a.currentEpoch].buf
            BY <1>1, <1>4, <1>5, <2>1, <3>2 DEF AuthorEpochs
        <3>4. a.epochs[a.currentEpoch].buf = c.buf
            BY <3>1
        <3> QED
            BY <2>1, <3>3, <3>4
    <2> QED
        BY <2>2, <2>3
<1>6. CallIn(t) = c
    BY <1>1, <1>5
<1>7. /\ \A w \in Epochs : t.epochs[w] # None => t.epochs[w] = a.epochs[w]
      /\ t.epochs[t.currentEpoch] = a.epochs[t.currentEpoch]
    BY <1>0, <1>1, <1>3, <1>4 DEF Ratchet
<1> QED
    BY <1>1, <1>2, <1>6, <1>7, AuthorKeeps

LEMMA AuthorMarks ==
    ASSUME OneCallAtATime, RoomTypeOK, RoomSound, ConvergeInv, NEW p \in Nodes,
           markSasVerified(Author, p)
    PROVE  ConvergeInv'
<1> DEFINE a == ratchet[Author]
<1>0. Author \in Nodes
    BY TheAuthor
<1>1. PICK t \in Ratchet :
              /\ ratchet' = [ratchet EXCEPT ![Author] = t]
              /\ t.publicKey = a.publicKey /\ t.peers = a.peers
              /\ t.currentEpoch = a.currentEpoch /\ t.epochs = a.epochs
              /\ t.calls = a.calls
              /\ \A k \in Nodes :
                    /\ t.sasState[k] # None <=> a.sasState[k] # None
                    /\ t.sasState[k] # None =>
                          /\ t.sasState[k].epoch = a.sasState[k].epoch
                          /\ t.sasState[k].data = a.sasState[k].data
    BY <1>0, MarkFields
<1>2. /\ room' = room /\ minted' = minted /\ feed' = feed /\ known' = known /\ channel' = channel
    BY DEF markSasVerified
<1>3. CallIn(t) = CallIn(a)
    BY <1>1 DEF CallIn
<1> QED
    BY <1>1, <1>2, <1>3, AuthorKeeps

\* The author hears of a change.
LEMMA HeardAppend ==
    ASSUME NEW f \in Seq(MemberChange), NEW x \in MemberChange, NEW n \in Nodes
    PROVE  LET t == Append(f, x) IN
           /\ x.peer # n => About(n, t) = About(n, f) /\ \A i \in About(n, f) : t[i] = f[i]
           /\ x.peer = n => About(n, t) # {}
           /\ x.peer = n => \A knownAs : Heard(n, t, knownAs, x.publicKey)
           /\ x.peer # n => \A knownAs, k : Heard(n, f, knownAs, k) => Heard(n, t, knownAs, k)
<1> DEFINE t == Append(f, x)
           l == Len(f)
<1>1. /\ l \in Nat /\ DOMAIN f = 1..l /\ DOMAIN t = 1..(l + 1)
      /\ \A i \in 1..l : t[i] = f[i]
      /\ t[l + 1] = x
    OBVIOUS
<1> HIDE DEF t, l
<1>2. \A i \in DOMAIN t : i \in DOMAIN f \/ i = l + 1
    BY <1>1
<1>3. DOMAIN f \subseteq DOMAIN t /\ \A i \in DOMAIN f : t[i] = f[i]
    BY <1>1
<1>4. ASSUME x.peer # n
      PROVE  About(n, t) = About(n, f) /\ \A i \in About(n, f) : t[i] = f[i]
    BY <1>1, <1>2, <1>3, <1>4 DEF About
<1>5. ASSUME x.peer = n
      PROVE  /\ l + 1 \in About(n, t)
             /\ \A i \in About(n, t) : (\A j \in About(n, t) : j <= i) => i = l + 1
    <2>1. l + 1 \in About(n, t)
        BY <1>1, <1>5 DEF About
    <2>2. \A i \in About(n, t) : i \in Int /\ i <= l + 1
        BY <1>1 DEF About
    <2>3. ASSUME NEW i \in About(n, t), \A j \in About(n, t) : j <= i
          PROVE  i = l + 1
        <3>1. l + 1 <= i /\ i \in Int /\ i <= l + 1
            BY <2>1, <2>2, <2>3
        <3> QED
            BY <1>1, <3>1
    <2> QED
        BY <2>1, <2>3
<1>6. x.peer = n => \A knownAs : Heard(n, t, knownAs, x.publicKey)
    BY <1>1, <1>5 DEF Heard
<1>7. x.peer # n => \A knownAs, k : Heard(n, f, knownAs, k) => Heard(n, t, knownAs, k)
    BY <1>4 DEF Heard
<1> QED
    BY <1>4, <1>5, <1>6, <1>7 DEF t

\* A node that comes or goes has an empty ratchet.
LEMMA InOrderFresh ==
    ASSUME NEW r \in Ratchet, NEW q \in Seq(EpochAnnouncement), NEW out, NEW v \in Int, NEW e, NEW m,
           InOrder(r, q, out, v, e, m), NEW k, NEW peers, TheSlot \in Slots
    PROVE  /\ InOrder(NewRatchet(k, peers), q, out, v, e, m)
           /\ InOrder(NewRatchet(k, peers), <<>>, out, v, e, m)
<1> DEFINE t == NewRatchet(k, peers)
<1>1. /\ t.currentEpoch = -1 /\ CallIn(t) = None /\ \A w \in Epochs : t.epochs[w] = None
    BY DEF NewRatchet, CallIn
<1> HIDE DEF t
<1>2. -1 <= v
    <2>1. r.currentEpoch <= v /\ r.currentEpoch \in Int /\ -1 <= r.currentEpoch
        BY RoomBoundsAssumption DEF InOrder, Ratchet, Epochs
    <2> QED
        BY <2>1
<1>3. \A i \in DOMAIN q : -1 <= q[i].version
    <2>1. \A i \in DOMAIN q : q[i] \in EpochAnnouncement
        OBVIOUS
    <2> QED
        BY <2>1, RoomBoundsAssumption DEF EpochAnnouncement, Epochs
<1>4. ~(t.currentEpoch >= 0)
    BY <1>1
<1>5. /\ \A s : Ahead(r, q, s) => Ahead(t, q, s)
      /\ \A s : Ahead(t, <<>>, s)
    BY <1>1 DEF Ahead
<1>6. InOrder(t, q, out, v, e, m)
    BY <1>1, <1>2, <1>3, <1>4, <1>5 DEF InOrder
<1>7. InOrder(t, <<>>, out, v, e, m)
    BY <1>1, <1>2, <1>4, <1>5 DEF InOrder
<1> QED
    BY <1>6, <1>7 DEF t

\* A node other than the author comes or goes.
LEMMA MemberStep ==
    ASSUME OneCallAtATime, RoomTypeOK, RoomSound, ConvergeInv, NEW p \in Nodes, p > Author,
           NEW k \in Nat, NEW peers, ratchet' = [ratchet EXCEPT ![p] = NewRatchet(k, peers)],
           Tell(p, k), Steady \subseteq room', \A n \in Nodes : n # p => (n \in room' <=> n \in room),
           minted' = minted, known' = known, \A n \in Nodes : n # p => channel'[n] = channel[n],
           channel'[p] = channel[p] \/ channel'[p] = NoMessages,
           p \in room' <=> k # 0, p \in room' => peers[Author] # 0, peers[p] = 0
    PROVE  ConvergeInv'
<1> DEFINE a == ratchet[Author]
           f == feed[Author]
           t == NewRatchet(k, peers)
           x == [peer |-> p, publicKey |-> k]
<1>0. /\ a \in Ratchet /\ Author \in Nodes /\ Author \in Nat /\ Author \in room
      /\ TheSlot \in Slots /\ f \in Seq(MemberChange) /\ minted \in Nat
      /\ p \in Nodes \ {Author} /\ x \in MemberChange /\ x.peer = p /\ x.publicKey = k
      /\ p \in Nat
    BY AuthorFacts, NodesAssumption DEF MemberChange
<1>1. ratchet'[p] = t /\ \A n \in Nodes : n # p => ratchet'[n] = ratchet[n]
    BY OneRatchet
<1>2. /\ t.publicKey = k /\ t.peers = peers /\ CallIn(t) = None
      /\ \A n \in Nodes : t.sasState[n] = None
    BY <1>0 DEF NewRatchet, CallIn
<1> HIDE DEF t, x
<1>3. /\ feed'[p] = <<>>
      /\ feed'[Author] = Append(f, x)
      /\ \A n \in Nodes : n # p => feed'[n] = feed[n] \/ feed'[n] = Append(feed[n], x)
    BY <1>0 DEF Tell, x
<1>4. SeatInv'
    <2>1. Seated(p, t, feed'[p], channel'[p], p \in room')
        <3>1. \A n \in Nodes : channel'[p][n] # <<>> => n = Author
            BY <1>0, NodeFacts DEF Seated, NoMessages
        <3>2. DOMAIN feed'[p] = {}
            BY <1>3
        <3>3. Author <= p
            BY <1>0
        <3> QED
            BY <1>0, <1>2, <3>1, <3>2, <3>3 DEF Seated
    <2>2. ASSUME NEW n \in Nodes, n # p
          PROVE  Seated(n, ratchet[n], feed'[n], channel[n], n \in room)
        <3>1. Seated(n, ratchet[n], feed[n], channel[n], n \in room) /\ feed[n] \in Seq(MemberChange)
            BY DEF ConvergeInv, SeatInv, RoomTypeOK
        <3>2. \A i \in DOMAIN feed'[n] : feed'[n][i].peer > Author /\ feed'[n][i].peer # n
            <4>1. CASE feed'[n] = feed[n]
                BY <3>1, <4>1 DEF Seated
            <4>2. CASE feed'[n] = Append(feed[n], x)
                <5>1. \A i \in DOMAIN feed'[n] : feed'[n][i] = x \/
                         (i \in DOMAIN feed[n] /\ feed'[n][i] = feed[n][i])
                    BY <1>0, <3>1, <4>2
                <5> QED
                    BY <1>0, <2>2, <3>1, <5>1 DEF Seated
            <4> QED
                BY <1>3, <2>2, <4>1, <4>2
        <3> QED
            BY <3>1, <3>2 DEF Seated
    <2> QED
        BY <1>1, <2>1, <2>2 DEF SeatInv
<1>5. ratchet'[Author] = a
    BY <1>0, <1>1
<1>6. AuthorInv'
    BY <1>5 DEF ConvergeInv, AuthorInv
<1>7. MailInv'
    <2>1. NewestVersion(a) \in Int
        <3>1. a.currentEpoch \in Int
            BY <1>0, RoomBoundsAssumption DEF Ratchet, Epochs
        <3>2. CallIn(a) # None => CallIn(a).version \in Int
            BY AuthorFacts, RoomBoundsAssumption DEF Call, Epochs
        <3> QED
            BY <3>1, <3>2 DEF NewestVersion
    <2>2. InOrder(t, channel'[p][Author], OutFor(a, p), NewestVersion(a), NewestEpoch(a), minted)
        <3>1. /\ InOrder(ratchet[p], channel[p][Author], OutFor(a, p), NewestVersion(a),
                         NewestEpoch(a), minted)
              /\ ratchet[p] \in Ratchet /\ channel[p][Author] \in Seq(EpochAnnouncement)
            BY <1>0, NodeFacts
        <3>2. channel'[p][Author] = channel[p][Author] \/ channel'[p][Author] = <<>>
            BY <1>0 DEF NoMessages
        <3> HIDE DEF a
        <3> QED
            BY ONLY <1>0, <2>1, <3>1, <3>2, InOrderFresh DEF t
    <2> QED
        BY <1>0, <1>1, <1>5, <2>2 DEF ConvergeInv, MailInv
<1>8. /\ About(p, feed'[Author]) # {}
      /\ Heard(p, feed'[Author], a.peers[p], k)
      /\ \A n \in Nodes : n # p =>
            /\ About(n, feed'[Author]) = About(n, f)
            /\ \A knownAs, j : Heard(n, f, knownAs, j) => Heard(n, feed'[Author], knownAs, j)
    <2> DEFINE g == Append(f, x)
    <2>1. About(p, g) # {} /\ \A knownAs : Heard(p, g, knownAs, x.publicKey)
        BY <1>0, HeardAppend
    <2>2. ASSUME NEW n \in Nodes, n # p
          PROVE  /\ About(n, g) = About(n, f)
                 /\ \A knownAs, j : Heard(n, f, knownAs, j) => Heard(n, g, knownAs, j)
        BY <1>0, <2>2, HeardAppend
    <2> HIDE DEF g
    <2>3. feed'[Author] = g
        BY <1>3 DEF g
    <2> QED
        BY <1>0, <2>1, <2>2, <2>3
<1>9. FeedInv'
    BY <1>1, <1>2, <1>5, <1>8 DEF ConvergeInv, FeedInv
<1>10. KnownInv'
    BY <1>5, <1>8 DEF ConvergeInv, KnownInv
<1>11. SyncInv'
    <2>1. SasOfEpoch(p, t)
        BY <1>2 DEF SasOfEpoch
    <2> QED
        BY <1>0, <1>1, <1>5, <1>8, <2>1 DEF ConvergeInv, SyncInv
<1> QED
    BY <1>4, <1>6, <1>7, <1>9, <1>10, <1>11 DEF ConvergeInv

LEMMA Joins ==
    ASSUME OneCallAtATime, RoomTypeOK, RoomSound, ConvergeInv, NEW p \in Nodes, Join(p)
    PROVE  ConvergeInv'
<1> DEFINE k == changes + 1
           peers == [n \in Nodes |-> IF n \in room THEN ratchet[n].publicKey ELSE 0]
<1>0. Author \in Nodes /\ Author \in Nat /\ Author \in room
    BY AuthorFacts
<1>1. /\ p \notin room /\ room' = room \cup {p}
      /\ ratchet' = [ratchet EXCEPT ![p] = NewRatchet(k, peers)]
      /\ Tell(p, k) /\ channel' = channel /\ minted' = minted /\ known' = known
    BY DEF Join
<1>2. p > Author
    <2>1. PICK n \in room : n < p
        BY DEF Join
    <2>2. Author <= n /\ n \in Nat /\ p \in Nat
        BY NodesAssumption DEF ConvergeInv, SeatInv, Seated, RoomTypeOK
    <2> QED
        BY <1>0, <2>1, <2>2
<1>3. k \in Nat /\ k # 0
    BY DEF RoomTypeOK
<1>4. peers[Author] # 0 /\ peers[p] = 0
    BY <1>0, <1>1, AuthorFacts DEF Seated
<1>5. Steady \subseteq room'
    BY <1>1 DEF ConvergeInv, SeatInv
<1> HIDE DEF k, peers
<1> QED
    BY <1>1, <1>2, <1>3, <1>4, <1>5, MemberStep

LEMMA Leaves ==
    ASSUME OneCallAtATime, RoomTypeOK, RoomSound, ConvergeInv, NEW p \in Nodes, Leave(p)
    PROVE  ConvergeInv'
<1>0. Author \in Nodes /\ Author \in Nat /\ Author \in Steady
    BY TheAuthor
<1>1. /\ p \in room \ Steady /\ room' = room \ {p}
      /\ ratchet' = [ratchet EXCEPT ![p] = NewRatchet(0, NoPeers)]
      /\ channel' = [channel EXCEPT ![p] = NoMessages]
      /\ Tell(p, 0) /\ minted' = minted /\ known' = known
    BY DEF Leave
<1>2. p > Author
    <2>1. Author <= p /\ p \in Nat /\ p # Author
        BY <1>0, <1>1, NodesAssumption DEF ConvergeInv, SeatInv, Seated
    <2> QED
        BY <1>0, <2>1
<1>3. channel'[p] = NoMessages /\ \A n \in Nodes : n # p => channel'[n] = channel[n]
    BY <1>1 DEF RoomTypeOK
<1>4. NoPeers[p] = 0
    BY DEF NoPeers
<1>5. Steady \subseteq room'
    BY <1>1 DEF ConvergeInv, SeatInv
<1>6. p \notin room' /\ \A n \in Nodes : n # p => (n \in room' <=> n \in room)
    BY <1>1
<1> DEFINE k == 0
<1>7. k \in Nat /\ k = 0
    OBVIOUS
<1>8. ratchet' = [ratchet EXCEPT ![p] = NewRatchet(k, NoPeers)] /\ Tell(p, k)
    BY <1>1
<1> HIDE DEF k
<1> QED
    BY <1>1, <1>2, <1>3, <1>4, <1>5, <1>6, <1>7, <1>8, MemberStep

(***************************************************************************)
(* The invariants hold at first, and every step keeps them.                *)
(***************************************************************************)
LEMMA ConvergeInit ==
    ASSUME OneCallAtATime, Init
    PROVE  ConvergeInv
<1> DEFINE a == ratchet[Author]
<1>0. /\ Author \in Steady /\ Author \in Nodes /\ Author \in Nat /\ TheSlot \in Slots
      /\ \A p \in Steady : Author <= p
    BY TheAuthor, OneSlot
<1>1. /\ room = Steady /\ minted = 0
      /\ \A n \in Nodes : /\ feed[n] = <<>> /\ channel[n] = NoMessages /\ known[n] = {}
                          /\ ratchet[n] = InitialRatchet(n)
    BY DEF Init
<1>2. ASSUME NEW n \in Nodes
      PROVE  /\ ratchet[n].currentEpoch = -1 /\ CallIn(ratchet[n]) = None
             /\ ratchet[n].publicKey = IF n \in Steady THEN 1 ELSE 0
             /\ \A v \in Epochs : ratchet[n].epochs[v] = None
             /\ \A p \in Nodes : /\ ratchet[n].sasState[p] = None
                                 /\ ratchet[n].peers[p] = IF n \in Steady /\ p \in Steady \ {n} THEN 1 ELSE 0
    <2> DEFINE others == [p \in Nodes |-> IF p \in Steady \ {n} THEN 1 ELSE 0]
    <2>1. ASSUME NEW k, NEW peers
          PROVE  LET r == NewRatchet(k, peers) IN
                 /\ r.currentEpoch = -1 /\ CallIn(r) = None /\ r.publicKey = k /\ r.peers = peers
                 /\ \A v \in Epochs : r.epochs[v] = None
                 /\ \A p \in Nodes : r.sasState[p] = None
        BY <1>0 DEF NewRatchet, CallIn
    <2>2. ratchet[n] = IF n \in Steady THEN NewRatchet(1, others) ELSE NewRatchet(0, NoPeers)
        BY <1>1 DEF InitialRatchet
    <2>3. \A p \in Nodes : NoPeers[p] = 0 /\ others[p] = IF p \in Steady \ {n} THEN 1 ELSE 0
        BY DEF NoPeers
    <2> HIDE DEF others
    <2>4. CASE n \in Steady
        BY <2>1, <2>2, <2>3, <2>4
    <2>5. CASE n \notin Steady
        BY <2>1, <2>2, <2>3, <2>5
    <2> QED
        BY <2>4, <2>5
<1>3. SeatInv
    <2> SUFFICES ASSUME NEW n \in Nodes
                 PROVE  Seated(n, ratchet[n], feed[n], channel[n], n \in room)
        BY <1>1 DEF SeatInv
    <2>1. \A p \in Nodes : channel[n][p] = <<>>
        BY <1>1 DEF NoMessages
    <2>2. DOMAIN feed[n] = {}
        BY <1>1
    <2>3. n = Author => \A p \in Members(ratchet[n].peers) : p > Author
        <3>1. \A p \in Steady : p # Author => p > Author
            BY <1>0, NodesAssumption
        <3> QED
            BY <1>2, <3>1 DEF Members
    <2>4. /\ n \in room <=> ratchet[n].publicKey # 0
          /\ n \in room => Author <= n
          /\ n \in room /\ n # Author => ratchet[n].peers[Author] # 0
          /\ ratchet[n].peers[n] = 0
        BY <1>0, <1>1, <1>2
    <2> QED
        BY <1>2, <2>1, <2>2, <2>3, <2>4 DEF Seated
<1>4. /\ a.currentEpoch = -1 /\ CallIn(a) = None /\ \A v \in Epochs : a.epochs[v] = None
      /\ \A p \in Nodes : a.sasState[p] = None
      /\ ~(a.currentEpoch >= 0)
    BY <1>0, <1>2
<1>5. AuthorInv
    BY <1>4 DEF AuthorInv, AuthorSound, AuthorEpochs
<1>6. NewestVersion(a) = -1 /\ ~(NewestVersion(a) >= 0) /\ \A n : OutFor(a, n) = None
    BY <1>4 DEF NewestVersion, OutFor
<1>7. MailInv
    <2> SUFFICES ASSUME NEW n \in Nodes \ {Author}
                 PROVE  InOrder(ratchet[n], channel[n][Author], None, -1, NewestEpoch(a), minted)
        BY <1>6 DEF MailInv
    <2>1. channel[n][Author] = <<>> /\ DOMAIN <<>> = {}
        BY <1>0, <1>1 DEF NoMessages
    <2>2. Ahead(ratchet[n], <<>>, minted + 1)
        BY <1>2, <2>1 DEF Ahead
    <2>3. ratchet[n].currentEpoch <= -1 /\ ~(ratchet[n].currentEpoch >= 0)
        BY <1>2
    <2> QED
        BY <1>2, <2>1, <2>2, <2>3 DEF InOrder
<1>8. \A n : About(n, feed[Author]) = {}
    <2>1. DOMAIN feed[Author] = {}
        BY <1>0, <1>1
    <2> QED
        BY <2>1 DEF About
<1>9. FeedInv
    BY <1>0, <1>2, <1>8 DEF FeedInv, Heard
<1>10. KnownInv
    BY <1>1, <1>6 DEF KnownInv
<1>11. SyncInv
    BY <1>2, <1>4, <1>6 DEF SyncInv, SasOfEpoch, Gone
<1> QED
    BY <1>3, <1>5, <1>7, <1>9, <1>10, <1>11 DEF ConvergeInv

LEMMA ConvergeUnchanged ==
    ASSUME ConvergeInv, UNCHANGED roomVars
    PROVE  ConvergeInv'
<1>1. /\ room' = room /\ feed' = feed /\ channel' = channel /\ ratchet' = ratchet
      /\ minted' = minted /\ known' = known
    BY DEF roomVars
<1>2. SeatInv' /\ AuthorInv' /\ MailInv'
    BY <1>1 DEF ConvergeInv, SeatInv, AuthorInv, MailInv
<1>3. FeedInv' /\ KnownInv' /\ SyncInv'
    BY <1>1 DEF ConvergeInv, FeedInv, KnownInv, SyncInv
<1> QED
    BY <1>2, <1>3 DEF ConvergeInv

LEMMA ConvergeStep ==
    ASSUME OneCallAtATime
    PROVE  RoomTypeOK /\ RoomSound /\ ConvergeInv /\ [Next]_roomVars => ConvergeInv'
<1> SUFFICES ASSUME RoomTypeOK, RoomSound, ConvergeInv, [Next]_roomVars
             PROVE  ConvergeInv'
    OBVIOUS
<1>0. \A n \in Nodes : n = Author \/ n \in Nodes \ {Author}
    OBVIOUS
<1>1. ASSUME NEW p \in Nodes, Join(p) \/ Leave(p)
      PROVE  ConvergeInv'
    BY <1>1, Joins, Leaves
<1>2. ASSUME NEW n \in Nodes, rotateOnMemberChange(n)
      PROVE  ConvergeInv'
    BY <1>0, <1>2, AuthorRotates, NodeRotates
<1>3. ASSUME NEW n \in Nodes, NEW p \in Nodes, consumeEpochAnnouncement(n, p)
      PROVE  ConvergeInv'
    BY <1>3, NodeConsumes
<1>4. ASSUME NEW n \in Nodes, NEW p \in Nodes, rewrapCurrentEpochFor(n, p)
      PROVE  ConvergeInv'
    BY <1>4, AuthorRewraps
<1>5. ASSUME NEW n \in Nodes, NEW p \in Nodes, markSasVerified(n, p)
      PROVE  ConvergeInv'
    BY <1>0, <1>5, AuthorMarks, NodeMarks
<1>6. ASSUME NEW n \in Nodes, NEW s \in Slots, deriveDone(n, s)
      PROVE  ConvergeInv'
    BY <1>0, <1>6, AuthorDerives, NodeDerives
<1>7. ASSUME NEW n \in Nodes, NEW s \in Slots, sasDone(n, s)
      PROVE  ConvergeInv'
    BY <1>0, <1>7, AuthorSas, NodeSas
<1>8. ASSUME NEW n \in Nodes, NEW p \in Nodes, NEW s \in Slots, wrapDone(n, s, p)
      PROVE  ConvergeInv'
    BY <1>8, AuthorWraps
<1>9. ASSUME NEW n \in Nodes, NEW v \in Epochs, forgetEpoch(n, v)
      PROVE  ConvergeInv'
    BY <1>0, <1>9, AuthorForgets, NodeForgets
<1>10. CASE UNCHANGED roomVars
    BY <1>10, ConvergeUnchanged
<1> QED
    BY <1>1, <1>2, <1>3, <1>4, <1>5, <1>6, <1>7, <1>8, <1>9, <1>10 DEF Next

(***************************************************************************)
(* Why no chain key stays for good.  That the epoch which a step supersedes *)
(* is the only one without a timer needs that no epoch is installed ahead  *)
(* of the current one, and that no call installs an earlier one.           *)
(***************************************************************************)
Forgets(r) ==
    \A v \in Epochs : r.epochs[v] # None =>
        v <= r.currentEpoch /\ (v < r.currentEpoch => v \in r.forgetTimers)
ForgetInv == \A n \in Nodes : Forgets(ratchet[n])

\* A call never installs an epoch older than the current one.
LEMMA DeriveIsNewer ==
    ASSUME OneCallAtATime, RoomTypeOK, RoomSound, ConvergeInv, NEW n \in Nodes,
           CallIn(ratchet[n]) # None, CallIn(ratchet[n]).pc = "derive"
    PROVE  ratchet[n].currentEpoch <= CallIn(ratchet[n]).version
<1>1. CASE n = Author
    <2>1. /\ ratchet[n].currentEpoch \in Int
          /\ CallIn(ratchet[n]).version = ratchet[n].currentEpoch + 1
        BY <1>1, AuthorFacts, RoomBoundsAssumption DEF AuthorSound, AuthorCall, Ratchet, Epochs
    <2> QED
        BY <2>1
<1>2. CASE n # Author
    BY <1>2, NodeFacts DEF InOrder
<1> QED
    BY <1>1, <1>2

LEMMA ForgetsInstall ==
    ASSUME NEW r \in Ratchet, NEW c \in Call, r.currentEpoch <= c.version, Forgets(r)
    PROVE  Forgets(installEpoch(r, c))
<1> DEFINE t == installEpoch(r, c)
           entry == [chainKey |-> c.chainKey, buf |-> c.buf, peerIndexMap |-> c.peerIndexMap]
<1>1. /\ t.epochs = [r.epochs EXCEPT ![c.version] = entry]
      /\ t.currentEpoch = IF c.version > r.currentEpoch THEN c.version ELSE r.currentEpoch
      /\ t.forgetTimers = IF c.version > r.currentEpoch
                            THEN r.forgetTimers \cup ToForget(r.currentEpoch, c.version)
                            ELSE r.forgetTimers
    BY InstallFields
<1> HIDE DEF t, entry
<1>2. r.currentEpoch \in Int /\ c.version \in Int /\ c.version \in Epochs
    BY RoomBoundsAssumption DEF Ratchet, Call, Epochs
<1>3. t.currentEpoch = c.version
    BY <1>1, <1>2
<1> SUFFICES ASSUME NEW v \in Epochs, t.epochs[v] # None
             PROVE  v <= t.currentEpoch /\ (v < t.currentEpoch => v \in t.forgetTimers)
    BY DEF Forgets, t
<1>4. v \in Int /\ v >= 0
    BY RoomBoundsAssumption DEF Epochs
<1>5. CASE v = c.version
    BY <1>3, <1>4, <1>5
<1>6. CASE v # c.version
    <2>1. r.epochs[v] # None
        BY <1>1, <1>2, <1>6 DEF Ratchet
    <2>2. v <= r.currentEpoch /\ (v < r.currentEpoch => v \in r.forgetTimers)
        BY <2>1 DEF Forgets
    <2>3. c.version > r.currentEpoch /\ v = r.currentEpoch => v \in t.forgetTimers
        BY <1>1, <1>4 DEF ToForget
    <2>4. r.forgetTimers \subseteq t.forgetTimers
        BY <1>1
    <2> QED
        BY <1>2, <1>3, <1>4, <1>6, <2>2, <2>3, <2>4
<1> QED
    BY <1>5, <1>6

\* One ratchet is replaced by one that forgets.
LEMMA OneForgets ==
    ASSUME RoomTypeOK, ForgetInv, NEW n \in Nodes, NEW r, ratchet' = [ratchet EXCEPT ![n] = r], Forgets(r)
    PROVE  ForgetInv'
BY OneRatchet DEF ForgetInv, Forgets

LEMMA ForgetsFields ==
    ASSUME NEW r, NEW t, t.epochs = r.epochs, t.currentEpoch = r.currentEpoch,
           t.forgetTimers = r.forgetTimers, Forgets(r)
    PROVE  Forgets(t)
BY DEF Forgets

LEMMA ForgetStep ==
    ASSUME OneCallAtATime
    PROVE  RoomTypeOK /\ RoomSound /\ ConvergeInv /\ ForgetInv /\ [Next]_roomVars => ForgetInv'
<1> SUFFICES ASSUME RoomTypeOK, RoomSound, ConvergeInv, ForgetInv, [Next]_roomVars
             PROVE  ForgetInv'
    OBVIOUS
<1>0. \A n \in Nodes : ratchet[n] \in Ratchet /\ Forgets(ratchet[n])
    BY DEF RoomTypeOK, ForgetInv
<1>1. ASSUME NEW p \in Nodes, Join(p) \/ Leave(p)
      PROVE  ForgetInv'
    <2>1. \A k, peers : Forgets(NewRatchet(k, peers))
        BY DEF Forgets, NewRatchet
    <2> QED
        BY <1>1, <2>1, OneForgets DEF Join, Leave
<1>2. ASSUME NEW n \in Nodes, NEW peers, ratchet' = [ratchet EXCEPT ![n].peers = peers]
      PROVE  ForgetInv'
    <2> DEFINE t == [ratchet[n] EXCEPT !.peers = peers]
    <2>1. ratchet' = [ratchet EXCEPT ![n] = t]
        BY <1>2 DEF RoomTypeOK
    <2>2. Forgets(t)
        BY <1>0 DEF Forgets, Ratchet
    <2> QED
        BY <2>1, <2>2, OneForgets
<1>3. ASSUME NEW n \in Nodes, NEW s \in Slots, NEW c, Begin(n, s, c)
      PROVE  ForgetInv'
    <2> DEFINE t == [ratchet[n] EXCEPT !.calls[s] = c]
    <2>1. ratchet' = [ratchet EXCEPT ![n] = t]
        BY <1>3 DEF RoomTypeOK, Begin
    <2>2. Forgets(t)
        BY <1>0 DEF Forgets, Ratchet
    <2> QED
        BY <2>1, <2>2, OneForgets
<1>4. ASSUME NEW n \in Nodes, NEW s \in Slots, NEW peers, startNewEpoch(n, s, peers)
      PROVE  ForgetInv'
    <2> DEFINE c == [pc |-> "derive", version |-> ratchet[n].currentEpoch + 1,
                     chainKey |-> randomChainKey(n), buf |-> minted + 1,
                     peerIndexMap |-> Members(peers) \cup {n}, members |-> peers,
                     todo |-> Members(peers), sasPeer |-> None, secret |-> 0,
                     out |-> NoAnnouncements]
               t == [ratchet[n] EXCEPT !.peers = peers, !.calls[s] = c]
    <2>1. ratchet' = [ratchet EXCEPT ![n] = t]
        BY <1>4 DEF RoomTypeOK, startNewEpoch
    <2> HIDE DEF c
    <2>2. Forgets(t)
        BY <1>0 DEF Forgets, Ratchet
    <2> QED
        BY <2>1, <2>2, OneForgets
<1>5. ASSUME ratchet' = ratchet
      PROVE  ForgetInv'
    BY <1>5 DEF ForgetInv, Forgets
<1>6. ASSUME NEW n \in Nodes, rotateOnMemberChange(n)
      PROVE  ForgetInv'
    BY <1>2, <1>4, <1>6 DEF rotateOnMemberChange
<1>7. ASSUME NEW n \in Nodes, NEW p \in Nodes, consumeEpochAnnouncement(n, p)
      PROVE  ForgetInv'
    BY <1>3, <1>5, <1>7 DEF consumeEpochAnnouncement
<1>8. ASSUME NEW n \in Nodes, NEW p \in Nodes, rewrapCurrentEpochFor(n, p)
      PROVE  ForgetInv'
    BY <1>3, <1>8 DEF rewrapCurrentEpochFor
<1>9. ASSUME NEW n \in Nodes, NEW p \in Nodes, markSasVerified(n, p)
      PROVE  ForgetInv'
    <2> DEFINE same == ratchet[n].sasState[p].data = ratchet[p].sasState[n].data
               t == [ratchet[n] EXCEPT !.sasState[p].verified = same]
    <2>1. ratchet' = [ratchet EXCEPT ![n] = t]
        BY <1>9 DEF RoomTypeOK, markSasVerified
    <2> HIDE DEF same
    <2>2. Forgets(t)
        BY <1>0 DEF Forgets, Ratchet
    <2> QED
        BY <2>1, <2>2, OneForgets
<1>10. ASSUME NEW n \in Nodes, NEW s \in Slots, deriveDone(n, s)
       PROVE  ForgetInv'
    <2> DEFINE c == ratchet[n].calls[s]
               r == installEpoch(ratchet[n], c)
               t == IF c.sasPeer # None THEN [r EXCEPT !.calls[s].pc = "sas"] ELSE Continue(r, s)
    <2>1. c # None /\ c.pc = "derive" /\ c \in Call /\ ratchet' = [ratchet EXCEPT ![n] = t]
        BY <1>0, <1>10 DEF deriveDone, Ratchet
    <2>2. ratchet[n].currentEpoch <= c.version
        <3>1. c = CallIn(ratchet[n])
            BY OneSlot DEF CallIn
        <3> HIDE DEF c
        <3> QED
            BY <2>1, <3>1, DeriveIsNewer
    <2> HIDE DEF c
    <2>3. Forgets(r) /\ r \in Ratchet
        BY <1>0, <2>1, <2>2, ForgetsInstall, InstallType
    <2> HIDE DEF r
    <2>4. t.epochs = r.epochs /\ t.currentEpoch = r.currentEpoch /\ t.forgetTimers = r.forgetTimers
        BY <2>3 DEF Continue, Ratchet
    <2> HIDE DEF t
    <2>5. Forgets(t)
        BY <2>3, <2>4, ForgetsFields
    <2> QED
        BY <2>1, <2>5, OneForgets
<1>11. ASSUME NEW n \in Nodes, NEW s \in Slots, sasDone(n, s)
       PROVE  ForgetInv'
    <2> DEFINE c == ratchet[n].calls[s]
               sas == installSas(ratchet[n].sasState, c.sasPeer, c.version, c.secret)
               t == Continue([ratchet[n] EXCEPT !.sasState = sas], s)
    <2>1. ratchet' = [ratchet EXCEPT ![n] = t]
        BY <1>11 DEF sasDone
    <2> HIDE DEF sas
    <2>2. Forgets(t)
        BY <1>0 DEF Forgets, Ratchet, Continue
    <2> QED
        BY <2>1, <2>2, OneForgets
<1>12. ASSUME NEW n \in Nodes, NEW p \in Nodes, NEW s \in Slots, wrapDone(n, s, p)
       PROVE  ForgetInv'
    BY <1>3, <1>12 DEF wrapDone
<1>13. ASSUME NEW n \in Nodes, NEW v \in Epochs, forgetEpoch(n, v)
       PROVE  ForgetInv'
    <2>1. PICK t \in Ratchet :
              /\ ratchet' = [ratchet EXCEPT ![n] = t]
              /\ t.currentEpoch = ratchet[n].currentEpoch
              /\ t.epochs = [ratchet[n].epochs EXCEPT ![v] = None]
              /\ t.forgetTimers = ratchet[n].forgetTimers \ {v}
        BY <1>13, ForgetFields
    <2>2. Forgets(t)
        BY <1>0, <2>1 DEF Forgets, Ratchet
    <2> QED
        BY <2>1, <2>2, OneForgets
<1>14. CASE UNCHANGED roomVars
    BY <1>5, <1>14 DEF roomVars
<1> QED
    BY <1>1, <1>6, <1>7, <1>8, <1>9, <1>10, <1>11, <1>12, <1>13, <1>14 DEF Next

(***************************************************************************)
(* What the invariants say of a room at rest.                              *)
(***************************************************************************)
LEMMA AtRest ==
    ASSUME OneCallAtATime, RoomTypeOK, RoomSound, ConvergeInv, Quiescent
    PROVE  LET a == ratchet[Author] IN
           /\ Author \in room /\ ~Deriving(a) /\ NewestVersion(a) = a.currentEpoch
           /\ NewestEpoch(a) = a.epochs[a.currentEpoch]
           /\ \A n \in Nodes \ {Author} :
                 /\ About(n, feed[Author]) = {}
                 /\ n \in room <=> a.peers[n] # 0
           /\ \A n \in room \ {Author} :
                 /\ ratchet[n].currentEpoch <= a.currentEpoch
                 /\ a.currentEpoch >= 0 =>
                       /\ Shared(n, a, ratchet[n], channel[n][Author])
                       /\ Same(ratchet[n].epochs[a.currentEpoch], a.epochs[a.currentEpoch])
           /\ a.currentEpoch >= 0 => a.epochs[a.currentEpoch].peerIndexMap = room
<1> DEFINE a == ratchet[Author]
<1>0. Author \in Nodes /\ Author \in room /\ TheSlot \in Slots /\ room \subseteq Nodes
    BY AuthorFacts DEF RoomTypeOK
<1>1. \A n \in room : /\ feed[n] = <<>> /\ CallIn(ratchet[n]) = None
                      /\ \A p \in Nodes : channel[n][p] = <<>>
    BY <1>0 DEF Quiescent, NoMessages, CallIn
<1>2. ~Deriving(a) /\ NewestVersion(a) = a.currentEpoch /\ NewestEpoch(a) = a.epochs[a.currentEpoch]
    BY <1>0, <1>1 DEF Deriving, NewestVersion, NewestEpoch
<1>3. \A n : About(n, feed[Author]) = {}
    <2>1. DOMAIN feed[Author] = {}
        BY <1>0, <1>1
    <2> QED
        BY <2>1 DEF About
<1>4. ASSUME NEW n \in Nodes \ {Author}
      PROVE  n \in room <=> a.peers[n] # 0
    BY <1>3, OtherFacts DEF Heard
<1>5. ASSUME NEW n \in room \ {Author}
      PROVE  /\ ratchet[n].currentEpoch <= a.currentEpoch
             /\ a.currentEpoch >= 0 =>
                   /\ Shared(n, a, ratchet[n], channel[n][Author])
                   /\ Same(ratchet[n].epochs[a.currentEpoch], a.epochs[a.currentEpoch])
    <2>1. n \in Nodes \ {Author}
        BY <1>0
    <2>2. InOrder(ratchet[n], channel[n][Author], OutFor(a, n), a.currentEpoch,
                  a.epochs[a.currentEpoch], minted)
        BY <1>2, <2>1, NodeFacts
    <2>3. ratchet[n].currentEpoch <= a.currentEpoch
        BY <2>2 DEF InOrder
    <2>4. ASSUME a.currentEpoch >= 0
          PROVE  Shared(n, a, ratchet[n], channel[n][Author])
        <3>1. OnItsWay(n, a, ratchet[n], channel[n][Author])
            BY <1>2, <1>3, <2>1, <2>4, NodeFacts
        <3>2. ~ToWrap(n, a) /\ OutFor(a, n) = None
            BY <1>0, <1>1 DEF ToWrap, OutFor
        <3>3. ~Sent(n, a, ratchet[n], channel[n][Author]) /\ ~Consumed(n, a, ratchet[n], channel[n][Author])
            BY <1>0, <1>1 DEF Sent, Consumed
        <3> QED
            BY <3>1, <3>2, <3>3 DEF OnItsWay
    <2>5. ASSUME a.currentEpoch >= 0
          PROVE  Same(ratchet[n].epochs[a.currentEpoch], a.epochs[a.currentEpoch])
        <3>1. ratchet[n].currentEpoch = a.currentEpoch
            BY <1>2, <2>4, <2>5 DEF Shared
        <3> QED
            BY <2>2, <2>5, <3>1 DEF InOrder
    <2> QED
        BY <2>3, <2>4, <2>5
<1>6. ASSUME a.currentEpoch >= 0
      PROVE  a.epochs[a.currentEpoch].peerIndexMap = room
    <2>1. a.epochs[a.currentEpoch].peerIndexMap = Members(a.peers) \cup {Author}
        BY <1>2, <1>6, NewestMap
    <2> QED
        BY <1>0, <1>4, <2>1 DEF Members
<1> QED
    BY <1>0, <1>2, <1>3, <1>4, <1>5, <1>6

LEMMA RestAgrees ==
    ASSUME OneCallAtATime, RoomTypeOK, RoomSound, ConvergeInv
    PROVE  RoomAgrees
<1> SUFFICES ASSUME Quiescent, NEW n \in room, NEW p \in room
             PROVE  /\ ratchet[n].currentEpoch = ratchet[p].currentEpoch
                    /\ ratchet[n].currentEpoch >= 0 =>
                         LET v == ratchet[n].currentEpoch IN
                         /\ Installed(n, v) /\ Installed(p, v)
                         /\ ratchet[n].epochs[v].chainKey = ratchet[p].epochs[v].chainKey
                         /\ ratchet[n].epochs[v].peerIndexMap = room
    BY DEF RoomAgrees
<1> DEFINE a == ratchet[Author]
           e == a.epochs[a.currentEpoch]
<1>0. room \subseteq Nodes /\ Author \in Nodes
    BY TheAuthor DEF RoomTypeOK
<1>1. ASSUME NEW k \in room
      PROVE  /\ ratchet[k].currentEpoch = a.currentEpoch
             /\ a.currentEpoch >= 0 =>
                  /\ Installed(k, a.currentEpoch)
                  /\ Same(ratchet[k].epochs[a.currentEpoch], e)
    <2>1. ratchet[k].currentEpoch \in Epochs \cup {-1} /\ a.currentEpoch \in Epochs \cup {-1}
        BY <1>0 DEF RoomTypeOK, Ratchet
    <2>2. ratchet[k].currentEpoch >= 0 => Installed(k, ratchet[k].currentEpoch)
        BY <1>0 DEF RoomSound, Sound, Installed
    <2>3. CASE k = Author
        BY <2>2, <2>3 DEF Same
    <2>4. CASE k # Author
        <3>1. /\ ratchet[k].currentEpoch <= a.currentEpoch
              /\ a.currentEpoch >= 0 =>
                    /\ ratchet[k].currentEpoch = a.currentEpoch
                    /\ Same(ratchet[k].epochs[a.currentEpoch], e)
            BY <2>4, AtRest DEF Shared
        <3>2. ratchet[k].currentEpoch = a.currentEpoch
            BY <2>1, <3>1, RoomBoundsAssumption DEF Epochs
        <3> QED
            BY <2>2, <3>1, <3>2
    <2> QED
        BY <2>3, <2>4
<1>2. a.currentEpoch >= 0 => e.peerIndexMap = room
    BY AtRest
<1> HIDE DEF a, e
<1> QED
    BY <1>1, <1>2 DEF Same

LEMMA RestExcludes ==
    ASSUME OneCallAtATime, RoomTypeOK, RoomSound, ConvergeInv
    PROVE  OutsidersExcluded
<1> SUFFICES ASSUME Quiescent, NEW n \in room, NEW p \in Nodes \ room, NEW v \in Epochs,
                    v = ratchet[n].currentEpoch, Installed(n, v)
             PROVE  ratchet[n].epochs[v].chainKey \notin known[p]
    BY DEF OutsidersExcluded
<1> DEFINE a == ratchet[Author]
<1>0. Author \in room /\ v >= 0
    BY AtRest, RoomBoundsAssumption DEF Epochs
<1>1. a.currentEpoch = v /\ ratchet[n].epochs[v].chainKey = a.epochs[v].chainKey
    BY <1>0, RestAgrees DEF RoomAgrees
<1>2. /\ NewestVersion(a) >= 0 /\ NewestEpoch(a).chainKey = ratchet[n].epochs[v].chainKey
      /\ p \in Nodes \ {Author} /\ About(p, feed[Author]) = {} /\ a.peers[p] = 0
    BY <1>0, <1>1, AtRest
<1> QED
    BY <1>2, OtherFacts

LEMMA RestSas ==
    ASSUME OneCallAtATime, RoomTypeOK, RoomSound, ConvergeInv
    PROVE  SasAgrees
<1> SUFFICES ASSUME Quiescent, NEW n \in room, NEW p \in Nodes, ratchet[n].sasState[p] # None
             PROVE  /\ ratchet[n].sasState[p].epoch = ratchet[n].currentEpoch
                    /\ ratchet[p].sasState[n] # None
                    /\ ratchet[p].sasState[n].data = ratchet[n].sasState[p].data
    BY DEF SasAgrees
<1> DEFINE a == ratchet[Author]
<1>0. Author \in Nodes /\ Author \in room /\ room \subseteq Nodes /\ n \in Nodes
    BY AtRest, TheAuthor DEF RoomTypeOK
<1>1. ratchet[n].sasState[p].epoch = ratchet[n].currentEpoch /\ n # p /\ Author \in {n, p}
    BY <1>0 DEF ConvergeInv, SyncInv, SasOfEpoch
<1>2. a.currentEpoch >= 0
    <2>1. ratchet[n].sasState[p] \in PeerSasState
        BY <1>0 DEF RoomTypeOK, Ratchet
    <2>2. ratchet[n].currentEpoch >= 0
        BY <1>1, <2>1, RoomBoundsAssumption DEF PeerSasState, Epochs
    <2>3. ratchet[n].currentEpoch = a.currentEpoch
        BY <1>0, RestAgrees DEF RoomAgrees
    <2> QED
        BY <2>2, <2>3
<1>3. CASE n = Author
    <2>1. p \in room
        <3> SUFFICES ASSUME p \notin room
                     PROVE  FALSE
            OBVIOUS
        <3>1. p \in Nodes \ {Author} /\ About(p, feed[Author]) = {} /\ ~Deriving(a)
            BY <1>1, <1>3, AtRest
        <3>2. Gone(p, a)
            BY <3>1, OtherFacts
        <3> QED
            BY <1>3, <3>2 DEF Gone
    <2>2. Shared(p, a, ratchet[p], channel[p][Author])
        BY <1>1, <1>2, <1>3, <2>1, AtRest
    <2> QED
        BY <1>1, <1>3, <2>2 DEF Shared, Secret
<1>4. CASE p = Author
    <2>1. Shared(n, a, ratchet[n], channel[n][Author])
        BY <1>1, <1>2, <1>4, AtRest
    <2> QED
        BY <1>1, <1>4, <2>1 DEF Shared, Secret
<1> QED
    BY <1>1, <1>3, <1>4

\* The invariants hold of every room whose applications await their calls.
LEMMA ConvergeCorrect ==
    ASSUME OneCallAtATime
    PROVE  RoomSpec => []ConvergeInv
<1>1. Init => ConvergeInv
    BY ConvergeInit
<1>2. RoomTypeOK /\ RoomSound /\ ConvergeInv /\ [Next]_roomVars => ConvergeInv'
    BY ConvergeStep
<1> QED
    BY <1>1, <1>2, RoomTypeCorrect, RoomSoundCorrect, PTL DEF RoomSpec

(***************************************************************************)
(* RoomAgrees: after any number of joins, departures, requests and timers, *)
(* once every call has returned and every announcement is consumed, the    *)
(* nodes of the room are in one epoch, with one chain key and with the     *)
(* room as their peer_index_map.                                           *)
(***************************************************************************)
THEOREM RoomConverges ==
    ASSUME OneCallAtATime
    PROVE  RoomSpec => []RoomAgrees
<1>1. RoomTypeOK /\ RoomSound /\ ConvergeInv => RoomAgrees
    BY RestAgrees
<1>2. RoomSpec => []ConvergeInv
    BY ConvergeCorrect
<1> QED
    BY <1>1, <1>2, RoomTypeCorrect, RoomSoundCorrect, PTL

(***************************************************************************)
(* OutsidersExcluded: then nobody outside the room, and nobody who has left*)
(* it, has ever unwrapped the chain key that the room uses.                *)
(***************************************************************************)
THEOREM OutsidersAreExcluded ==
    ASSUME OneCallAtATime
    PROVE  RoomSpec => []OutsidersExcluded
<1>1. RoomTypeOK /\ RoomSound /\ ConvergeInv => OutsidersExcluded
    BY RestExcludes
<1>2. RoomSpec => []ConvergeInv
    BY ConvergeCorrect
<1> QED
    BY <1>1, <1>2, RoomTypeCorrect, RoomSoundCorrect, PTL

(***************************************************************************)
(* SasAgrees: then a node shows a SAS only for a peer of the room that     *)
(* shows the same one for it, and only of the current epoch, although the  *)
(* author computes its SAS before it has sent the announcement.            *)
(***************************************************************************)
THEOREM SasIsShared ==
    ASSUME OneCallAtATime
    PROVE  RoomSpec => []SasAgrees
<1>1. RoomTypeOK /\ RoomSound /\ ConvergeInv => SasAgrees
    BY RestSas
<1>2. RoomSpec => []ConvergeInv
    BY ConvergeCorrect
<1> QED
    BY <1>1, <1>2, RoomTypeCorrect, RoomSoundCorrect, PTL

(***************************************************************************)
(* NoZeroedKey: forgetEpoch never overwrites a buffer that a suspended call*)
(* has yet to wrap, so that nobody unwraps a zeroized chain key.           *)
(***************************************************************************)
THEOREM NoZeroedKeyIsShared ==
    ASSUME OneCallAtATime
    PROVE  RoomSpec => []NoZeroedKey
<1>1. RoomTypeOK /\ ConvergeInv => NoZeroedKey
    <2> SUFFICES ASSUME RoomTypeOK, ConvergeInv, NEW n \in Nodes
                 PROVE  Zeroed \notin known[n]
        BY DEF NoZeroedKey
    <2>1. known[n] \subseteq 0..minted /\ minted \in Nat
        BY DEF RoomTypeOK, ConvergeInv, KnownInv
    <2> QED
        BY <2>1, NoneAssumption
<1>2. RoomSpec => []ConvergeInv
    BY ConvergeCorrect
<1> QED
    BY <1>1, <1>2, RoomTypeCorrect, PTL

(***************************************************************************)
(* OldEpochsForgotten: every epoch of a node but the current one has its   *)
(* forgetEpoch timer pending, at every moment.                             *)
(***************************************************************************)
THEOREM OldEpochsAreForgotten ==
    ASSUME OneCallAtATime
    PROVE  RoomSpec => []OldEpochsForgotten
<1>1. Init => ForgetInv
    <2> SUFFICES ASSUME Init, NEW n \in Nodes
                 PROVE  Forgets(ratchet[n])
        BY DEF ForgetInv
    <2>1. ratchet[n] = InitialRatchet(n)
        BY DEF Init
    <2>2. \A v \in Epochs : InitialRatchet(n).epochs[v] = None
        BY DEF InitialRatchet, NewRatchet
    <2> QED
        BY <2>1, <2>2 DEF Forgets
<1>2. RoomTypeOK /\ RoomSound /\ ConvergeInv /\ ForgetInv /\ [Next]_roomVars => ForgetInv'
    BY ForgetStep
<1>3. ForgetInv => OldEpochsForgotten
    BY DEF ForgetInv, Forgets, OldEpochsForgotten, Installed
<1>4. RoomSpec => []ConvergeInv
    BY ConvergeCorrect
<1> QED
    BY <1>1, <1>2, <1>3, <1>4, RoomTypeCorrect, RoomSoundCorrect, PTL DEF RoomSpec
=============================================================================
