-------------------------- MODULE MCFrameAddressing -------------------------
(***************************************************************************)
(* FrameAddressing with every width divided by eight: a byte is a bit, a   *)
(* KID on the wire has 4 bits, a counter 8.                                *)
(***************************************************************************)
EXTENDS FrameAddressing

MCConfigs ==
    {[format |-> "fixed"]}
    \cup [format : {"mls"}, nEpochBits : 0 .. BigBits, nIndexBits : 0 .. BigBits,
          contextId : 0 .. 1]

\* Two members, two leaves of one of them, and more than half a KID can index.
MCGroups == {<<2, 1>>, <<1, 2, 1>>, <<3, 1, 5, 2, 4>>}
=============================================================================
