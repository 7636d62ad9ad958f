---------------------------- MODULE RoomRatchet ----------------------------
(***************************************************************************)
(* The RoomRatchet instances (src/src/ratchet.ts) of the nodes of a room,  *)
(* the member changes that their applications hand to them and the         *)
(* announcements that they exchange.                                       *)
(*                                                                         *)
(* A call of a ratchet is suspended while WebCrypto derives the key table  *)
(* of an epoch, wraps its chain key for a peer, or computes a short        *)
(* authentication string (SAS); what happens between suspensions is one    *)
(* action.  Slots is how many calls an application has open at a time: one *)
(* if it awaits each call before the next.                                 *)
(*                                                                         *)
(* Signaling belongs to the application: it tells every node of the room   *)
(* of each change, in one order, and carries the announcements of one node *)
(* to another in order and without loss.                                   *)
(***************************************************************************)
EXTENDS Integers, Sequences

CONSTANTS
    Nodes,        \* the peer ids; their order is that of the strings
    Steady,       \* the nodes in the room from the start, which never leave
    Slots,        \* the calls that a node may have open
    MaxChanges,   \* bound on the member changes
    MaxEpoch,     \* bound on the epochs
    MaxRewraps,   \* bound on the requests to wrap the chain key again
    None,         \* an absent entry of a map, or a free slot
    Zeroed        \* the contents of a buffer after zeroize

ASSUME NodesAssumption == Nodes \subseteq Nat /\ Steady \subseteq Nodes
ASSUME SlotsAssumption == Slots \subseteq Nat
ASSUME RoomBoundsAssumption ==
    MaxChanges \in Nat /\ MaxEpoch \in Nat /\ MaxRewraps \in Nat
Epochs == 0..MaxEpoch

VARIABLES
    room,         \* the nodes that are in the room
    changes,      \* how many changes there were
    feed,         \* the changes that a node has not handled yet
    channel,      \* channel[n][p]: the announcements on their way from p to n
    ratchet,      \* the RoomRatchet of each node
    minted,       \* the number of chain keys and DH secrets so far
    rewraps,      \* how many requests there were
    known,        \* history: the chain keys that a node has unwrapped
    compared      \* history: the DH secrets whose SAS users found equal

roomVars == <<room, changes, feed, channel, ratchet, minted, rewraps, known, compared>>

-----------------------------------------------------------------------------
(***************************************************************************)
(* State.  Chain keys, DH secrets and identity keys are numbers, of which  *)
(* an identity key of 0 is that of an absent peer.  buf is the buffer that *)
(* holds the chain key: forgetEpoch overwrites the buffer, and with it what*)
(* a suspended call reads from it.                                         *)
(***************************************************************************)
Key == Nat \cup {Zeroed}
PeerMap == [Nodes -> Nat]
MemberChange == [peer : Nodes, publicKey : Nat]
EpochState == [chainKey : Key, buf : Nat, peerIndexMap : SUBSET Nodes]
PeerSasState == [epoch : Epochs, data : Nat, verified : BOOLEAN]
EpochAnnouncement == [version : Epochs, from : Nodes, forPeer : Nodes, wrappedFor : Nat,
                      chainKey : Key, secret : Nat, peerIndexMap : SUBSET Nodes]
Call == [pc : {"derive", "wrap", "sas"}, version : Epochs, chainKey : Key, buf : Nat,
         peerIndexMap : SUBSET Nodes, members : PeerMap, todo : SUBSET Nodes,
         sasPeer : Nodes \cup {None}, secret : Nat,
         out : [Nodes -> EpochAnnouncement \cup {None}]]
Ratchet == [publicKey : Nat, peers : PeerMap, epochs : [Epochs -> EpochState \cup {None}],
            currentEpoch : Epochs \cup {-1}, forgetTimers : SUBSET Epochs,
            sasState : [Nodes -> PeerSasState \cup {None}],
            calls : [Slots -> Call \cup {None}]]

ASSUME NoneAssumption ==
    /\ None \notin Nodes /\ None \notin EpochState /\ None \notin PeerSasState
    /\ None \notin EpochAnnouncement /\ None \notin Call /\ Zeroed \notin Nat

RoomTypeOK ==
    /\ room \subseteq Nodes
    /\ changes \in 0..MaxChanges
    /\ feed \in [Nodes -> Seq(MemberChange)]
    /\ channel \in [Nodes -> [Nodes -> Seq(EpochAnnouncement)]]
    /\ ratchet \in [Nodes -> Ratchet]
    /\ minted \in Nat
    /\ rewraps \in 0..MaxRewraps
    /\ known \in [Nodes -> SUBSET Key]
    /\ compared \subseteq Nat

NewRatchet(publicKey, initialPeers) ==
    [publicKey |-> publicKey, peers |-> initialPeers, epochs |-> [v \in Epochs |-> None],
     currentEpoch |-> -1, forgetTimers |-> {}, sasState |-> [p \in Nodes |-> None],
     calls |-> [s \in Slots |-> None]]
NoPeers == [p \in Nodes |-> 0]
NoAnnouncements == [p \in Nodes |-> None]
NoMessages == [p \in Nodes |-> <<>>]
InitialRatchet(n) ==
    IF n \in Steady THEN NewRatchet(1, [p \in Nodes |-> IF p \in Steady \ {n} THEN 1 ELSE 0])
    ELSE NewRatchet(0, NoPeers)

Init ==
    /\ room = Steady
    /\ changes = 0
    /\ feed = [n \in Nodes |-> <<>>]
    /\ channel = [n \in Nodes |-> NoMessages]
    /\ ratchet = [n \in Nodes |-> InitialRatchet(n)]
    /\ minted = 0
    /\ rewraps = 0
    /\ known = [n \in Nodes |-> {}]
    /\ compared = {}

Members(peers) == {p \in Nodes : peers[p] # 0}
Installed(n, v) == ratchet[n].epochs[v] # None
isAuthoritativeAuthor(n, peers) == \A p \in Members(peers) : n < p

FreeSlot(n, s) ==
    /\ ratchet[n].calls[s] = None
    /\ \A t \in Slots : t < s => ratchet[n].calls[t] # None

-----------------------------------------------------------------------------
(***************************************************************************)
(* The application: members come and go.  A node that comes back has a new *)
(* identity key and a new ratchet.  A node that would be the author does   *)
(* not join: the version that it should begin with is the application's    *)
(* to find out.                                                            *)
(***************************************************************************)
Tell(p, publicKey) ==
    feed' = [n \in Nodes |-> IF n = p THEN <<>>
                             ELSE IF n \in room
                               THEN Append(feed[n], [peer |-> p, publicKey |-> publicKey])
                             ELSE feed[n]]

Join(p) ==
    /\ changes < MaxChanges
    /\ p \notin room
    /\ \E n \in room : n < p
    /\ room' = room \cup {p}
    /\ changes' = changes + 1
    /\ ratchet' = [ratchet EXCEPT ![p] =
                     NewRatchet(changes + 1, [n \in Nodes |-> IF n \in room
                                                                THEN ratchet[n].publicKey ELSE 0])]
    /\ Tell(p, changes + 1)
    /\ UNCHANGED <<channel, minted, rewraps, known, compared>>

Leave(p) ==
    /\ changes < MaxChanges
    /\ p \in room \ Steady
    /\ room' = room \ {p}
    /\ changes' = changes + 1
    /\ ratchet' = [ratchet EXCEPT ![p] = NewRatchet(0, NoPeers)]
    /\ channel' = [channel EXCEPT ![p] = NoMessages]
    /\ Tell(p, 0)
    /\ UNCHANGED <<minted, rewraps, known, compared>>

-----------------------------------------------------------------------------
(***************************************************************************)
(* Calls.                                                                  *)
(***************************************************************************)
Begin(n, s, call) == ratchet' = [ratchet EXCEPT ![n].calls[s] = call]

chainOfCurrentEpoch(n) ==
    LET current == {v \in Epochs : v = ratchet[n].currentEpoch}
    IN  IF current = {} THEN minted + 1
        ELSE ratchet[n].epochs[CHOOSE v \in current : TRUE].chainKey

randomChainKey(n) == minted + 1

\* startNewEpoch, up to the await in installEpoch, for a node that has become
\* the author of peers.
startNewEpoch(n, s, peers) ==
    /\ ratchet' = [ratchet EXCEPT
         ![n].peers = peers,
         ![n].calls[s] = [pc |-> "derive", version |-> ratchet[n].currentEpoch + 1,
                          chainKey |-> randomChainKey(n), buf |-> minted + 1,
                          peerIndexMap |-> Members(peers) \cup {n}, members |-> peers,
                          todo |-> Members(peers), sasPeer |-> None, secret |-> 0,
                          out |-> NoAnnouncements]]
    /\ minted' = minted + 1

rotateOnMemberChange(n) ==
    /\ n \in room
    /\ feed[n] # <<>>
    /\ ratchet[n].currentEpoch < MaxEpoch
    /\ LET delta == Head(feed[n])
           next  == [ratchet[n].peers EXCEPT ![delta.peer] = delta.publicKey]
       IN  \E s \in Slots :
             /\ FreeSlot(n, s)
             /\ IF isAuthoritativeAuthor(n, next)
                  THEN startNewEpoch(n, s, next)
                  ELSE ratchet' = [ratchet EXCEPT ![n].peers = next] /\ UNCHANGED minted
    /\ feed' = [feed EXCEPT ![n] = Tail(@)]
    /\ UNCHANGED <<room, changes, channel, rewraps, known, compared>>

\* An announcement that does not unwrap, or whose map lacks this node, is an
\* error and changes nothing.
consumeEpochAnnouncement(n, p) ==
    /\ n \in room
    /\ channel[n][p] # <<>>
    /\ LET msg == Head(channel[n][p]) IN
       \E s \in Slots :
         /\ FreeSlot(n, s)
         /\ IF msg.wrappedFor = ratchet[n].publicKey /\ n \in msg.peerIndexMap
              THEN /\ Begin(n, s, [pc |-> "derive", version |-> msg.version,
                                   chainKey |-> msg.chainKey, buf |-> msg.secret,
                                   peerIndexMap |-> msg.peerIndexMap, members |-> NoPeers,
                                   todo |-> {}, sasPeer |-> msg.from, secret |-> msg.secret,
                                   out |-> NoAnnouncements])
                   /\ known' = [known EXCEPT ![n] = @ \cup {msg.chainKey}]
              ELSE UNCHANGED <<ratchet, known>>
    /\ channel' = [channel EXCEPT ![n][p] = Tail(@)]
    /\ UNCHANGED <<room, changes, feed, minted, rewraps, compared>>

\* A peer of the room has asked for the current epoch.
rewrapCurrentEpochFor(n, p) ==
    /\ rewraps < MaxRewraps
    /\ n \in room /\ p \in room \ {n}
    /\ isAuthoritativeAuthor(n, ratchet[n].peers)
    /\ ratchet[n].currentEpoch >= 0 /\ Installed(n, ratchet[n].currentEpoch)
    /\ LET state == ratchet[n].epochs[ratchet[n].currentEpoch] IN
       \E s \in Slots :
         /\ FreeSlot(n, s)
         /\ Begin(n, s, [pc |-> "wrap", version |-> ratchet[n].currentEpoch,
                         chainKey |-> state.chainKey, buf |-> state.buf,
                         peerIndexMap |-> state.peerIndexMap,
                         members |-> [NoPeers EXCEPT ![p] = ratchet[p].publicKey],
                         todo |-> {p}, sasPeer |-> None, secret |-> 0, out |-> NoAnnouncements])
    /\ rewraps' = rewraps + 1
    /\ UNCHANGED <<room, changes, feed, channel, minted, known, compared>>

-----------------------------------------------------------------------------
(***************************************************************************)
(* Continuations.                                                          *)
(***************************************************************************)
keepSasOnRotation(sasState, newEpoch) == sasState

wipeSasForRotation(sasState, newEpoch) ==
    [p \in Nodes |-> IF sasState[p] # None /\ sasState[p].epoch < newEpoch
                       THEN None ELSE sasState[p]]

ForgetNew(prev, version) == {version}
ForgetUnchecked(prev, version) == {prev}
ForgetNothing(prev, version) == {}

\* The epochs for which the step from prev to version sets a timer.
ToForget(prev, version) == IF prev >= 0 THEN {prev} ELSE {}

\* The ratchet r after installEpoch has put the epoch of call c in its map.
installEpoch(r, c) ==
    LET installed == [r EXCEPT !.epochs[c.version] =
                        [chainKey |-> c.chainKey, buf |-> c.buf, peerIndexMap |-> c.peerIndexMap]]
    IN  IF c.version > r.currentEpoch
          THEN [installed EXCEPT
                  !.currentEpoch = c.version,
                  !.sasState = wipeSasForRotation(@, c.version),
                  !.forgetTimers = @ \cup ToForget(r.currentEpoch, c.version)]
          ELSE installed

ReturnAfterFirstPeer(r, s) ==
    [r EXCEPT !.calls[s] = IF @.pc = "derive" /\ @.todo # {} THEN [@ EXCEPT !.pc = "wrap"] ELSE None]

\* How a call goes on when nothing is left of its present step: with the next
\* peer to wrap for, or by returning, and then the application sends what it
\* returned to those who are still there.
Continue(r, s) ==
    [r EXCEPT !.calls[s] = IF @.todo # {} THEN [@ EXCEPT !.pc = "wrap"] ELSE None]
Send(n, c) ==
    channel' = [p \in Nodes |->
                  IF c.todo = {} /\ p \in room /\ c.out[p] # None
                    THEN [channel[p] EXCEPT ![n] = Append(@, c.out[p])] ELSE channel[p]]

\* The key table of an epoch has been derived.
deriveDone(n, s) ==
    /\ ratchet[n].calls[s] # None
    /\ LET c == ratchet[n].calls[s]
           r == installEpoch(ratchet[n], c)
       IN  /\ c.pc = "derive"
           /\ ratchet' = [ratchet EXCEPT ![n] =
                            IF c.sasPeer # None THEN [r EXCEPT !.calls[s].pc = "sas"]
                            ELSE Continue(r, s)]
    /\ UNCHANGED <<room, changes, feed, channel, minted, rewraps, known, compared>>

\* wrapChainKeyForPeer reads the chain key and wraps it under a new DH secret.
wrapDone(n, s, p) ==
    /\ ratchet[n].calls[s] # None
    /\ LET c == ratchet[n].calls[s]
           announcement == [version |-> c.version, from |-> n, forPeer |-> p,
                            wrappedFor |-> c.members[p], chainKey |-> c.chainKey,
                            secret |-> minted + 1, peerIndexMap |-> c.peerIndexMap]
       IN  /\ c.pc = "wrap" /\ p \in c.todo
           /\ Begin(n, s, [c EXCEPT !.pc = "sas", !.todo = @ \ {p}, !.sasPeer = p,
                                    !.secret = minted + 1, !.out[p] = announcement])
    /\ minted' = minted + 1
    /\ UNCHANGED <<room, changes, feed, channel, rewraps, known, compared>>

installSasKeepingVerified(sasState, p, epoch, dhSecret) ==
    [sasState EXCEPT ![p] = [epoch |-> epoch, data |-> dhSecret,
                             verified |-> IF @ = None THEN FALSE ELSE @.verified]]

installSas(sasState, p, epoch, dhSecret) ==
    [sasState EXCEPT ![p] = [epoch |-> epoch, data |-> dhSecret, verified |-> FALSE]]

\* The SAS has been computed.
sasDone(n, s) ==
    /\ ratchet[n].calls[s] # None
    /\ LET c   == ratchet[n].calls[s]
           sas == installSas(ratchet[n].sasState, c.sasPeer, c.version, c.secret)
       IN  /\ c.pc = "sas"
           /\ ratchet' = [ratchet EXCEPT ![n] = Continue([ratchet[n] EXCEPT !.sasState = sas], s)]
           /\ Send(n, c)
    /\ UNCHANGED <<room, changes, feed, minted, rewraps, known, compared>>

\* The timer that installEpoch set for the epoch it superseded.  The buffer is
\* overwritten also for a call that still holds it.
forgetEpoch(n, v) ==
    /\ v \in ratchet[n].forgetTimers
    /\ ratchet' = [ratchet EXCEPT
         ![n].forgetTimers = @ \ {v},
         ![n].epochs[v] = None,
         ![n].calls = [s \in Slots |->
             IF @[s] # None /\ Installed(n, v) /\ @[s].buf = ratchet[n].epochs[v].buf
               THEN [@[s] EXCEPT !.chainKey = Zeroed] ELSE @[s]]]
    /\ UNCHANGED <<room, changes, feed, channel, minted, rewraps, known, compared>>

\* The users of n and p compare what their nodes show, and n records the result.
markSasVerified(n, p) ==
    /\ n \in room /\ p \in room
    /\ ratchet[n].sasState[p] # None /\ ratchet[p].sasState[n] # None
    /\ LET same == ratchet[n].sasState[p].data = ratchet[p].sasState[n].data IN
       /\ ratchet' = [ratchet EXCEPT ![n].sasState[p].verified = same]
       /\ compared' = IF same THEN compared \cup {ratchet[n].sasState[p].data} ELSE compared
    /\ UNCHANGED <<room, changes, feed, channel, minted, rewraps, known>>

Next ==
    \/ \E p \in Nodes : Join(p) \/ Leave(p)
    \/ \E n \in Nodes : rotateOnMemberChange(n)
    \/ \E n, p \in Nodes : consumeEpochAnnouncement(n, p)
    \/ \E n, p \in Nodes : rewrapCurrentEpochFor(n, p) \/ markSasVerified(n, p)
    \/ \E n \in Nodes, s \in Slots : deriveDone(n, s) \/ sasDone(n, s)
    \/ \E n, p \in Nodes, s \in Slots : wrapDone(n, s, p)
    \/ \E n \in Nodes, v \in Epochs : forgetEpoch(n, v)

RoomSpec == Init /\ [][Next]_roomVars

-----------------------------------------------------------------------------
(***************************************************************************)
(* Properties.                                                             *)
(***************************************************************************)
Quiescent ==
    \A n \in room : /\ feed[n] = <<>> /\ channel[n] = NoMessages
                    /\ \A s \in Slots : ratchet[n].calls[s] = None

\* Once every call has returned and every announcement has been consumed, the
\* nodes of the room are in one epoch, with one chain key and one peer_index_map,
\* which is that of the room.
RoomAgrees ==
    Quiescent => \A n, p \in room :
        /\ ratchet[n].currentEpoch = ratchet[p].currentEpoch
        /\ ratchet[n].currentEpoch >= 0 =>
             LET v == ratchet[n].currentEpoch IN
             /\ Installed(n, v) /\ Installed(p, v)
             /\ ratchet[n].epochs[v].chainKey = ratchet[p].epochs[v].chainKey
             /\ ratchet[n].epochs[v].peerIndexMap = room

\* The narrower claim about simultaneous changes: two nodes that hold an epoch
\* when all is done hold the same chain key for it.
NoSplitBrain ==
    Quiescent => \A n, p \in room, v \in Epochs :
        Installed(n, v) /\ Installed(p, v) =>
            ratchet[n].epochs[v].chainKey = ratchet[p].epochs[v].chainKey

\* advanceSending finds a key from the first epoch on: forgetEpoch never takes
\* the current epoch, and a node that was handed an epoch belongs to it.
CanSend ==
    \A n \in room : ratchet[n].currentEpoch >= 0 =>
        /\ Installed(n, ratchet[n].currentEpoch)
        /\ n \in ratchet[n].epochs[ratchet[n].currentEpoch].peerIndexMap

\* The chain key of the room is unknown to everyone who is not in it, those who
\* have left included.
OutsidersExcluded ==
    Quiescent => \A n \in room, p \in Nodes \ room :
        \A v \in Epochs : v = ratchet[n].currentEpoch /\ Installed(n, v) =>
            ratchet[n].epochs[v].chainKey \notin known[p]

\* No chain key is wrapped after forgetEpoch has zeroized its buffer.
NoZeroedKey == \A n \in Nodes : Zeroed \notin known[n]

\* Once every call has returned, a node shows a SAS only for peers of the room,
\* of its current epoch, and they show the same one for it.
SasAgrees ==
    Quiescent => \A n \in room, p \in Nodes :
        ratchet[n].sasState[p] # None =>
            /\ ratchet[n].sasState[p].epoch = ratchet[n].currentEpoch
            /\ ratchet[p].sasState[n] # None
            /\ ratchet[p].sasState[n].data = ratchet[n].sasState[p].data

\* isSasVerified is true only of the very secret that users compared, however
\* often the session is wrapped again or rotated.
VerifiedWasCompared ==
    \A n, p \in Nodes : ratchet[n].sasState[p] # None /\ ratchet[n].sasState[p].verified =>
        ratchet[n].sasState[p].data \in compared

\* Every epoch that is not current any more is waiting for its forgetEpoch timer,
\* and so is forgotten after the grace window: no chain key stays for good.
OldEpochsForgotten ==
    \A n \in Nodes, v \in Epochs :
        Installed(n, v) /\ v < ratchet[n].currentEpoch => v \in ratchet[n].forgetTimers
=============================================================================
