---------------------------- MODULE ModelTranscript ----------------------------
(***************************************************************************)
(* The model-visible transcript of the local provider and its request-time *)
(* checkpoints (src/crates/provider-local/src/compaction.rs).  An entry is *)
(* a message, or a summary of several: "of" lists what it stands for, so   *)
(* what a transcript tells the model is Covers of it.  A checkpoint is the *)
(* lineage it has summarised and what replaces it; there is at most one.   *)
(***************************************************************************)
EXTENDS Integers, Sequences, SequencesExt

Raw(message) == [of |-> <<message>>]
Covers(t)    == FlattenSeq([n \in DOMAIN t |-> t[n].of])

\* A pass summarises all but a contiguous raw tail, here the last entry.
Compacted(t) ==
    IF Len(t) < 2 THEN t ELSE <<[of |-> Covers(Front(t))], Last(t)>>

NoCheckpoint == {}
Checkpoint(source, next) == {[source |-> source, next |-> next]}

\* Mutated form: a lineage that is long enough will do.
LongEnough(checkpoint, t) == {c \in checkpoint : Len(c.source) <= Len(t)}

\* A checkpoint holds for the exact lineage it has summarised, and for what
\* follows it: length and fingerprint of the prefix.
Applicable(checkpoint, t) == {c \in checkpoint : IsPrefix(c.source, t)}

\* projected_messages, and commit_checkpoint, which also consumes it.
Projected(checkpoint, t) ==
    IF Applicable(checkpoint, t) = {} THEN t
    ELSE LET c == CHOOSE c \in checkpoint : TRUE
         IN c.next \o SubSeq(t, Len(c.source) + 1, Len(t))
=============================================================================
