--------------------------- MODULE ManifestMerge ---------------------------
(***************************************************************************)
(* What the decoder makes of two encodings of a manifest one after the     *)
(* other.                                                                  *)
(***************************************************************************)
EXTENDS ManifestMarshal

\* What an encoding of a followed by one of b stands for: the later value of
\* a field, the values of both of a repeated one, a message merged from both.
RECURSIVE Merged(_, _, _)
Merged(t, a, b) ==
  [n \in DOMAIN a |->
     LET f == CHOOSE g \in Fields[t] : g.name = n IN
     CASE f.label = "rep" -> a[n] \o b[n]
       [] f.label = "ptr" /\ b[n] = <<>> -> a[n]
       [] f.label = "ptr" /\ b[n] # <<>> /\ a[n] # <<>> /\ f.kind \in MessageTypes ->
            << Merged(f.kind, a[n][1], b[n][1]) >>
       [] OTHER -> b[n]]

\* Two encodings one after another decode to the merge of the two: repeated
\* fields append, a message under a pointer is decoded into the one there.
ConcatenationMerges ==
  Ended => \A a, b \in Samples : dAtA = Encoded(a) \o Encoded(b) =>
    Decoded /\ manifest = Merged("DeltaArchiveManifest", a, b)
=============================================================================
