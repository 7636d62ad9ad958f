----------------------------- MODULE FrameFormat -----------------------------
(***************************************************************************)
(* The wire format of a frame: how many leading bytes stay in the clear    *)
(* and which form the additional data takes.  Pure operators, translated   *)
(* from src/src/codec-partial.ts and src/src/worker-frame.ts.              *)
(***************************************************************************)
EXTENDS Naturals

Codecs == {"vp8", "h264", "opus", "vp9", "av1", "none"}
Kinds == {"key", "inter", "audio"}
AadForms == {"header", "prefix", "canonical"}
PrefixLens == {0, 1, 3, 10}
Format == [prefixLen : PrefixLens, aadForm : AadForms]

\* The bytes the codec leaves in the clear; VP8 alone tells key frames apart.
getUnencryptedBytes(codec, kind) ==
    CASE codec = "vp8" -> IF kind = "key" THEN 10 ELSE 3
      [] codec \in {"h264", "opus"} -> 1
      [] OTHER -> 0

\* The formats tried for a sender whose format is not known yet.  The order in
\* which the code tries them decides nothing: only the right one opens a frame.
formatCandidates(codec, kind) ==
    LET N == getUnencryptedBytes(codec, kind)
        With(n, forms) == {[prefixLen |-> n, aadForm |-> a] : a \in forms}
    IN  IF codec \in {"vp9", "av1"}
          THEN With(0, {"header"}) \cup With(1, AadForms)
        ELSE IF N = 0
          THEN With(0, {"header", "canonical"})
          ELSE With(N, AadForms)

\* What the receiver assumes when no candidate opened the frame.
fallbackFormat(codec, kind) ==
    [prefixLen |-> getUnencryptedBytes(codec, kind), aadForm |-> "header"]
=============================================================================
