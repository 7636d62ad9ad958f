--------------------------- MODULE FrameAddressing --------------------------
(***************************************************************************)
(* From the member of an MLS group to the key its frames are opened with:  *)
(* the epoch material (src/src/mls/index.ts), the key table                *)
(* (ratchet-crypto.ts, ratchet-ids.ts), the Key ID formats (kid-format.ts) *)
(* and the SFrame header (sframe-header.ts, sframe.ts).                    *)
(*                                                                         *)
(* The widths of the code's integers and fields are constants, so that TLC *)
(* can take every one of them to its limits.  A byte has ByteBits bits.    *)
(* The AEAD is ideal: it opens what was sealed under the same key, counter *)
(* and header, and whole.                                                  *)
(***************************************************************************)
EXTENDS Integers, Sequences, SequencesExt, FiniteSetsExt

CONSTANTS
    ByteBits,  \* 8
    WordBits,  \* 32: of a KID on the wire, and of JavaScript's <<
    BigBits,   \* 64: of an MLS KID and of a counter
    HalfBits,  \* 16: of the epoch and of the index in a fixed KID
    SafeBits,  \* 53: of Number.MAX_SAFE_INTEGER
    TagBytes,  \* AEAD_TAG_BYTES
    Configs,   \* kidFormat and mlsConfig of the clients of a room
    Groups,    \* the peerIds of the leaves of the group; an order stands for lex
    FirstEpochs, \* epochs a client may join the group in
    MaxHistory, \* bound on the epochs of the group a behaviour shows
    Ctrs       \* counters of the frames sent

KidBytes == WordBits \div ByteBits
CtrBytes == BigBits \div ByteBits
ASSUME WidthAssumption ==
    /\ ByteBits \in Nat \ {0} /\ HalfBits \in Nat \ {0} /\ TagBytes \in Nat
    /\ WordBits = KidBytes * ByteBits /\ WordBits = 2 * HalfBits
    /\ BigBits = 2 * WordBits /\ SafeBits \in WordBits .. BigBits
    /\ Ctrs \subseteq 0 .. 2^BigBits - 1

\* A group has a leaf, the client's own; the widths are numbers where they are given.
ASSUME RoomAssumption ==
    /\ Groups \subseteq Seq(Nat) \ {<<>>} /\ FirstEpochs \subseteq Nat
    /\ \A c \in Configs :
          /\ c.format \in {"fixed", "mls"}
          /\ c.format = "mls" =>
                c.nEpochBits \in Nat /\ c.nIndexBits \in Nat /\ c.contextId \in Nat

VARIABLES
    config,    \* the configuration all clients of the room share
    ready,     \* the cryptor and the provider could be built
    epoch,     \* the epoch of the group
    members,   \* the leaves of each epoch so far
    applied,   \* the epochs of which the sender and the receiver have the keys
    refused,   \* the epochs for which applyEpoch threw
    frame,     \* the frame on its way
    outcome    \* what sframeDecrypt made of it

vars == <<config, ready, epoch, members, applied, refused, frame, outcome>>

None == [step |-> "none"]
Clients == {"sender", "receiver"}

-----------------------------------------------------------------------------
(***************************************************************************)
(* Key IDs.  What throws a RangeError is Thrown.                           *)
(***************************************************************************)
Thrown == -1

validateMlsBitRange(E, S) ==
    /\ E >= 1 /\ S >= 1
    /\ E < BigBits - 1 /\ S < BigBits - E /\ E + S < BigBits

makeKidCodec(c) == c.format = "mls" => validateMlsBitRange(c.nEpochBits, c.nIndexBits)

\* The fields do not overlap, so the bitwise or is a sum.
encodeMlsKid(e, i, c) ==
    LET E == c.nEpochBits
        S == c.nIndexBits
    IN  IF e < 2^E /\ i < 2^S /\ c.contextId < 2^(BigBits - E - S)
          THEN c.contextId * 2^(E + S) + i * 2^E + e ELSE Thrown

\* A mutant: the context is left in the index.
decodeMlsKidUnmasked(kid, c) ==
    [epoch |-> kid % 2^c.nEpochBits, index |-> kid \div 2^c.nEpochBits]
\* The context is dropped: KIDs of every context lead to the same keys.
decodeMlsKid(kid, c) ==
    [epoch |-> kid % 2^c.nEpochBits, index |-> (kid \div 2^c.nEpochBits) % 2^c.nIndexBits]

makeKid(e, i) == IF e < 2^HalfBits /\ i < 2^HalfBits THEN e * 2^HalfBits + i ELSE Thrown
splitKid(kid) ==
    [epoch |-> (kid % 2^WordBits) \div 2^HalfBits, index |-> kid % 2^HalfBits]

encode(e, i) ==
    IF config.format = "fixed" THEN makeKid(e, i)
    ELSE LET big == encodeMlsKid(e, i, config)
         IN  IF big < 2^WordBits THEN big ELSE Thrown
decode(kid) == IF config.format = "fixed" THEN splitKid(kid) ELSE decodeMlsKid(kid, config)

-----------------------------------------------------------------------------
(***************************************************************************)
(* The epoch material and the key table.                                   *)
(***************************************************************************)
\* A mutant: the bound is taken as exclusive.
maxEpochExclusive ==
    IF config.format = "mls" THEN 2^config.nEpochBits - 2 ELSE 2^HalfBits - 1
\* (1 << nEpochBits) - 1: the shift count is taken modulo the word, the result
\* is a signed word.
maxEpoch ==
    IF config.format = "mls"
      THEN LET n == config.nEpochBits % WordBits
           IN  (IF n = WordBits - 1 THEN -(2^n) ELSE 2^n) - 1
      ELSE 2^HalfBits - 1

\* The last of equal peerIds gives the index.
buildPeerIndexMap(ids) ==
    [p \in Range(ids) |-> Cardinality({l \in DOMAIN ids : ids[l] <= p}) - 1]

peerIndexMap(e) == buildPeerIndexMap(members[e])
Indices(e) == {peerIndexMap(e)[p] : p \in Range(members[e])}

\* A mutant: indices above 16 bits are truncated.
peerIndexBe16Truncated(i) == i % 2^HalfBits
peerIndexBe16(i) == IF i < 2^HalfBits THEN i ELSE Thrown

\* The chain key is the exporter's, one for each epoch of the group.
deriveSenderKeys(e, i) == [chain |-> e, info |-> peerIndexBe16(i), kid |-> encode(e, i)]

\* deriveMlsEpochMaterial and deriveEpochKeyTable in one: what validatePeerIndexMap
\* says of the map is not looked at.
Derivable(e) ==
    /\ e <= maxEpoch
    /\ members[e] # <<>>
    /\ \A i \in Indices(e) : peerIndexBe16(i) # Thrown /\ encode(e, i) # Thrown

-----------------------------------------------------------------------------
(***************************************************************************)
(* The header: a config byte, the KID in four bytes, the counter in as few *)
(* as it takes.                                                            *)
(***************************************************************************)
Base == 2^ByteBits
fixedBigEndian(v, width) == [j \in 1 .. width |-> (v \div 2^(ByteBits * (width - j))) % Base]
minimalBigEndian(v) == fixedBigEndian(v, Min({w \in 1 .. CtrBytes : v < 2^(ByteBits * w)}))
readBigEndian(bytes) == FoldLeft(LAMBDA out, b : out * Base + b, 0, bytes)

serializeHeader(kid, ctr) ==
    LET ctrBytes == minimalBigEndian(ctr)
    IN  <<[k |-> TRUE, klen |-> KidBytes - 1, c |-> TRUE, clen |-> Len(ctrBytes) - 1]>>
          \o fixedBigEndian(kid, KidBytes) \o ctrBytes

Unparsed == [kid |-> Thrown, ctr |-> Thrown, bodyOffset |-> 0]
parseHeader(buf) ==
    IF buf = <<>> THEN Unparsed
    ELSE LET cfg == buf[1]
             afterKid == 1 + (IF cfg.k THEN cfg.klen + 1 ELSE 0)
             end == afterKid + (IF cfg.c THEN cfg.clen + 1 ELSE 0)
             kid == IF cfg.k THEN readBigEndian(SubSeq(buf, 2, afterKid)) ELSE cfg.klen
         IN  IF Len(buf) < end \/ kid >= 2^SafeBits THEN Unparsed
             ELSE [kid |-> kid, bodyOffset |-> end,
                   ctr |-> IF cfg.c THEN readBigEndian(SubSeq(buf, afterKid + 1, end))
                           ELSE cfg.clen]

\* A ciphertext of one byte and the tag; its bytes do not matter.
sframeEncrypt(key, ctr) == serializeHeader(key.kid, ctr) \o [j \in 1 .. 1 + TagBytes |-> 0]

-----------------------------------------------------------------------------
Init ==
    /\ config \in Configs
    /\ ready = FALSE
    /\ epoch \in FirstEpochs
    /\ \E ids \in Groups : members = [e \in {epoch} |-> ids]
    /\ applied = [c \in Clients |-> {}]
    /\ refused = {}
    /\ frame = None
    /\ outcome = None

\* The constructors throw where the bit widths are out of range.
construct ==
    /\ ~ready
    /\ makeKidCodec(config)
    /\ ready' = TRUE
    /\ UNCHANGED <<config, epoch, members, applied, refused, frame, outcome>>

\* External: a commit of the MLS group.
groupAdvances(ids) ==
    /\ ready
    /\ Cardinality(DOMAIN members) < MaxHistory
    /\ epoch' = epoch + 1
    /\ members' = [e \in DOMAIN members \cup {epoch'} |->
                      IF e = epoch' THEN ids ELSE members[e]]
    /\ UNCHANGED <<config, ready, applied, refused, frame, outcome>>

\* applyEpoch, with whatever epoch the group was in when it began.
applyEpoch(c, e) ==
    /\ ready
    /\ e \notin applied[c]
    /\ Derivable(e)
    /\ applied' = [applied EXCEPT ![c] = @ \cup {e}]
    /\ UNCHANGED <<config, ready, epoch, members, refused, frame, outcome>>

applyEpochThrows(e) ==
    /\ ready
    /\ e \notin refused
    /\ ~Derivable(e)
    /\ refused' = refused \cup {e}
    /\ UNCHANGED <<config, ready, epoch, members, applied, frame, outcome>>

\* A leaf seals a frame under the highest epoch it has the keys of, and the
\* frame is cut to a length on its way, or not.
send(leaf, ctr, cut) ==
    /\ frame = None
    /\ applied["sender"] # {}
    /\ LET e == Max(applied["sender"])
       IN  /\ leaf \in DOMAIN members[e]
           /\ LET peer == members[e][leaf]
                  key == deriveSenderKeys(e, peerIndexMap(e)[peer])
                  buf == sframeEncrypt(key, ctr)
                  end == IF cut > Len(buf) THEN Len(buf) ELSE cut
              IN  frame' = [step |-> "sent", peer |-> peer, key |-> key, ctr |-> ctr,
                            buf |-> SubSeq(buf, 1, end), whole |-> end = Len(buf)]
    /\ UNCHANGED <<config, ready, epoch, members, applied, refused, outcome>>

Lookup(d) ==
    IF d.epoch \in applied["receiver"] /\ d.index \in Indices(d.epoch)
      THEN deriveSenderKeys(d.epoch, d.index) ELSE None

sframeDecrypt ==
    /\ frame # None
    /\ outcome = None
    /\ LET hdr == parseHeader(frame.buf)
           short == hdr = Unparsed \/ Len(frame.buf) < hdr.bodyOffset + TagBytes
           at == decode(hdr.kid)
           key == IF short THEN None ELSE Lookup(at)
       IN  outcome' = [step |-> IF short THEN "malformed"
                                ELSE IF key = None THEN "no key"
                                ELSE IF key = frame.key /\ hdr.ctr = frame.ctr /\ frame.whole
                                  THEN "opened" ELSE "not authentic",
                       key |-> key, had |-> frame.key.chain \in applied["receiver"],
                       from |-> IF key = None THEN {}
                                ELSE {p \in Range(members[at.epoch]) :
                                         peerIndexMap(at.epoch)[p] = at.index}]
    /\ UNCHANGED <<config, ready, epoch, members, applied, refused, frame>>

Next ==
    \/ construct
    \/ \E ids \in Groups : groupAdvances(ids)
    \/ \E e \in DOMAIN members :
          applyEpochThrows(e) \/ \E c \in Clients : applyEpoch(c, e)
    \/ \E leaf \in 1 .. Max({Len(ids) : ids \in Groups}), ctr \in Ctrs,
          cut \in 0 .. 2 + KidBytes + CtrBytes + TagBytes : send(leaf, ctr, cut)
    \/ sframeDecrypt

Spec == Init /\ [][Next]_vars

-----------------------------------------------------------------------------
(***************************************************************************)
(* Properties                                                              *)
(***************************************************************************)

\* A frame that arrives whole at a client with the keys of its epoch is opened
\* and taken for its sender's, whatever the format, the widths, the context, the
\* counter and the epochs the client also holds; a frame cut anywhere never
\* leads to another key than its sender's (serializeHeader, parseHeader, the
\* codec's encode and decode, sframeDecrypt).
FrameReachesItsKey ==
    outcome # None =>
        /\ outcome.key \in {frame.key, None}
        /\ outcome.key = frame.key => outcome.from = {frame.peer}
        /\ frame.whole /\ outcome.had => outcome.step = "opened"

\* An epoch is refused only where some member has no Key ID: no KID of the wire's
\* width decodes to the epoch and its index in the configured context, or the
\* index is wider than the key derivation takes.  (For 31 epoch bits and more the
\* 32-bit shift of createMlsRatchetProvider refuses epochs that do fit.)
HasKid(e, i) ==
    \E kid \in 0 .. 2^WordBits - 1 :
        /\ decode(kid) = [epoch |-> e, index |-> i]
        /\ config.format = "mls" =>
              kid \div 2^(config.nEpochBits + config.nIndexBits) = config.contextId
RefusedOnlyIfTooLarge ==
    (config.format = "mls" => config.nEpochBits < WordBits - 1) =>
        \A e \in refused : \E i \in Indices(e) : ~HasKid(e, i) \/ i >= 2^HalfBits

\* Two leaves of an applied epoch have one key between them only if they have one
\* identity, however many members the group has and whichever of them share an
\* identity (buildPeerIndexMap, peerIndexBe16, deriveSenderKeys).
KeyPerIdentity ==
    \A e \in applied["sender"] : \A p, q \in Range(members[e]) :
        LET Key(r) == [deriveSenderKeys(e, peerIndexMap(e)[r]) EXCEPT !.kid = 0]
        IN  Key(p) = Key(q) => p = q

(***************************************************************************)
(* The inductive invariant of the proofs.                                  *)
(***************************************************************************)

\* An epoch keeps its members; an epoch is applied or refused with the codec in
\* place, and for what it is.
EpochInv ==
    /\ config \in Configs /\ epoch \in Nat
    /\ ready \in BOOLEAN /\ (ready => makeKidCodec(config))
    /\ \A e \in DOMAIN members : e \in 0 .. epoch /\ members[e] \in Groups
    /\ applied \in [Clients -> SUBSET DOMAIN members]
    /\ refused \subseteq DOMAIN members
    /\ ready \/ (refused = {} /\ \A c \in Clients : applied[c] = {})
    /\ \A c \in Clients : \A e \in applied[c] : Derivable(e)
    /\ \A e \in refused : ~Derivable(e)

\* The frame is one that a leaf of an applied epoch sealed, or the first bytes of it.
FrameInv ==
    frame # None =>
        /\ \E e \in applied["sender"] :
              /\ frame.peer \in Range(members[e])
              /\ frame.key = deriveSenderKeys(e, peerIndexMap(e)[frame.peer])
        /\ frame.ctr \in Ctrs
        /\ LET sent == sframeEncrypt(frame.key, frame.ctr)
           IN  /\ Len(frame.buf) \in 0 .. Len(sent)
               /\ frame.buf = SubSeq(sent, 1, Len(frame.buf))
               /\ frame.whole => Len(frame.buf) = Len(sent)
AddrInv == EpochInv /\ FrameInv /\ (frame = None => outcome = None)
=============================================================================
