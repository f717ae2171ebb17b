----------------------- MODULE ConversationJournal_proofs -----------------------
(***************************************************************************)
(* What holds of the conversation journal for every bound on its batches,  *)
(* mutations, edits, revisions, crashes and refreshes.                     *)
(***************************************************************************)
EXTENDS ConversationJournal, FiniteSetTheorems, WellFoundedInduction, TLAPS

-----------------------------------------------------------------------------
(* Who holds a snapshot when                                               *)

Shape ==
    /\ session = "open" => view # NoView
    /\ view = NoView => session = "none" /\ job = NoJob /\ pub = NoPub
    /\ opening # NoOpen => view = NoView
    /\ session = "open" \/ job # NoJob \/ pub # NoPub => journal # NoRow
    /\ opening # NoOpen /\ opening.cloud = NoCloud => journal # NoRow
    /\ journal = NoRow => lastSeq = 0
    /\ job # NoJob => job.mutation <= lastMutation
    /\ pub # NoPub => pub.mutation <= lastMutation
    /\ journal # NoRow => journal.pending <= lastMutation
    /\ job # NoJob /\ ~job.committed /\ pub # NoPub => job.mutation # pub.mutation

-----------------------------------------------------------------------------
(* The log of batches: what is owed is a suffix of it and what is held a   *)
(* prefix                                                                  *)

LogInv ==
    /\ lastSeq \in Nat /\ unacked \subseteq 1..lastSeq /\ trajectory \subseteq 1..lastSeq
    /\ 1..lastSeq \subseteq trajectory \cup unacked
    /\ \A s \in unacked : s..lastSeq \subseteq unacked
    /\ \A s \in trajectory : 1..s \subseteq trajectory
    /\ sending \subseteq trajectory
    /\ sending # {} => \E s \in unacked : sending = {q \in unacked : q <= s}

-----------------------------------------------------------------------------
(* Snapshots: an event is in the trajectory or behind the checkpoint       *)

Behind(snapshot) ==
    /\ snapshot.checkpoint <= lastSeq
    /\ \A e \in snapshot.events : e <= lastSeq /\ (e <= snapshot.checkpoint \/ e \in trajectory)
SnapInv ==
    /\ journal # NoRow => Behind(journal.base)
    /\ view # NoView => Behind(view)
    /\ job # NoJob => Behind(job.snapshot)
    /\ pub # NoPub => Behind(pub.snapshot)
HeadInv ==
    /\ cloud.snapshot.events \subseteq trajectory
    /\ opening # NoOpen /\ opening.cloud # NoCloud => opening.cloud.events \subseteq trajectory
    /\ pub # NoPub /\ pub.stage = "put" => pub.snapshot.events \subseteq trajectory

-----------------------------------------------------------------------------
(* The pending mutation                                                    *)

ReleaseInv == pub # NoPub /\ pub.stage = "stored" => applied[pub.mutation] # 0

-----------------------------------------------------------------------------
(* Nothing of the branch is lost                                           *)

Branch == content \ disowned
\* What a snapshot lacks of the branch is replayed over it.
Kept(snapshot) ==
    \A s \in Branch : \/ s \in snapshot.events
                      \/ s \in replayable /\ s > snapshot.checkpoint
                         /\ s > journal.base.checkpoint
Current == pub # NoPub /\ pub.stage # "read" /\ journal.pending = pub.mutation
LossInv ==
    /\ journal # NoRow => Kept(journal.base)
    /\ view # NoView => Branch \subseteq view.events
    /\ job # NoJob /\ ~job.committed => Kept(job.snapshot)
    /\ Current => /\ Kept(pub.snapshot)
                  /\ \A s \in replayable :
                       s > journal.base.checkpoint => s > pub.snapshot.checkpoint

-----------------------------------------------------------------------------
(* Lemmas about the operators                                              *)

LEMMA Sentinels ==
  /\ NoView \notin Snapshot /\ NoCloud \notin Snapshot /\ NoRow \notin JournalRow
  /\ NoJob \notin Job /\ NoPub \notin Publication
  /\ \A c, r : [cloud |-> c, rev |-> r] # NoOpen
<1>1. \A X \in Snapshot : DOMAIN X = {"events", "foreign", "running", "checkpoint"}
  BY DEF Snapshot
<1>2. \A X \in JournalRow : DOMAIN X = {"base", "rev", "local_live", "pending", "acknowledged"}
  BY DEF JournalRow
<1>3. \A X \in Job : DOMAIN X = {"mutation", "snapshot", "rev", "committed"}
  BY DEF Job
<1>4. \A X \in Publication :
        DOMAIN X = {"mutation", "snapshot", "rev", "baseRev", "stage", "stored"}
  BY DEF Publication
<1>5. /\ DOMAIN NoView = {"absent"} /\ DOMAIN NoCloud = {"absent"} /\ DOMAIN NoRow = {"absent"}
      /\ DOMAIN NoJob = {"absent"} /\ DOMAIN NoPub = {"absent"} /\ DOMAIN NoOpen = {"absent"}
  BY DEF NoView, NoCloud, NoRow, NoJob, NoPub, NoOpen
<1>6. \A c, r : "cloud" \in DOMAIN [cloud |-> c, rev |-> r]
  OBVIOUS
<1> QED
  BY <1>1, <1>2, <1>3, <1>4, <1>5, <1>6

LEMMA Empty == EmptySnapshot \in Snapshot /\ EmptySnapshot.events = {}
  BY OutboxBounds DEF EmptySnapshot, Snapshot, Seqs

\* The last of a set of batches.
LEMMA LastBatch ==
  ASSUME NEW n \in Nat, NEW S, S \subseteq 1..n, S # {}
  PROVE  MaxOf(S) \in S /\ \A s \in S : s <= MaxOf(S)
<1> DEFINE T == {n - s : s \in S}
<1>1. T \subseteq Nat /\ T # {}
  <2>1. \A s \in S : n - s \in Nat
    OBVIOUS
  <2>2. PICK s \in S : TRUE
    OBVIOUS
  <2>3. n - s \in T
    OBVIOUS
  <2> QED
    BY <2>1, <2>3
<1>2. PICK t \in T : \A u \in T : ~(<<u, t>> \in OpToRel(<, Nat))
  BY <1>1, WFMin, NatLessThanWellFounded
<1>3. PICK m \in S : t = n - m
  OBVIOUS
<1>4. \A s \in S : s <= m
  <2> SUFFICES ASSUME NEW s \in S PROVE s <= m
    OBVIOUS
  <2>1. ~(n - s < n - m)
    BY <1>1, <1>2, <1>3 DEF OpToRel
  <2> QED
    BY <2>1
<1> QED
  <2>1. \E x \in S : \A s \in S : s <= x
    BY <1>4
  <2> QED
    BY <2>1, Zenon DEF MaxOf

-----------------------------------------------------------------------------
(* The types, in parts                                                     *)

HostTypeOK ==
    /\ view \in Snapshot \cup {NoView}
    /\ session \in {"none", "open"} /\ client \in BOOLEAN
    /\ opening \in [cloud : Snapshot \cup {NoCloud}, rev : Revs] \cup {NoOpen}
    /\ sending \subseteq unacked
WebTypeOK ==
    /\ job \in Job \cup {NoJob} /\ pub \in Publication \cup {NoPub}
    /\ serverRev \in Revs /\ metaRev \in Revs /\ conflicted \in BOOLEAN
ProductTypeOK ==
    /\ cloud \in [rev : Revs, snapshot : Snapshot] /\ applied \in [Mutations -> Revs]
    /\ trajectory \subseteq 1..lastSeq
CountersTypeOK ==
    /\ clock \in Revs /\ lastMutation \in 0..MaxMutations
    /\ crashes \in 0..MaxCrashes /\ lists \in 0..MaxLists
    /\ disowned \subseteq Seqs

LEMMA TypeParts ==
  TypeOK <=> OutboxTypeOK /\ HostTypeOK /\ WebTypeOK /\ ProductTypeOK /\ CountersTypeOK
  BY DEF TypeOK, HostTypeOK, WebTypeOK, ProductTypeOK, CountersTypeOK

LEMMA JournalInit == Init => TypeOK /\ Shape
<1> SUFFICES ASSUME Init PROVE TypeOK /\ Shape
  OBVIOUS
<1>1. /\ 0 \in Revs /\ 0 \in 0..MaxMutations /\ 0 \in 0..MaxCrashes /\ 0 \in 0..MaxLists
      /\ 0 \in 0..MaxSeq
  BY OutboxBounds, JournalBounds DEF Revs
<1>2. TypeOK
  BY <1>1, Empty DEF Init, OutboxInit, TypeOK, OutboxTypeOK
<1>3. Shape
  BY Sentinels DEF Init, OutboxInit, Shape
<1> QED
  BY <1>2, <1>3

-----------------------------------------------------------------------------
(* What recovery shows                                                     *)

\* Without a journal, or against a newer cloud head, it shows the cloud head.
LEMMA RecoveredCloud ==
  ASSUME TypeOK, NEW c \in Snapshot \cup {NoCloud}, NEW r, ~PrefersCache(c, r), c # NoCloud
  PROVE  /\ ~Interrupts(c, r) /\ Recovered(c, r) = [c EXCEPT !.checkpoint = 0]
         /\ RecoveryBase(c, r) = [c EXCEPT !.checkpoint = 0]
         /\ Recovered(c, r) \in Snapshot
         /\ Recovered(c, r).events = c.events /\ Recovered(c, r).checkpoint = 0
<1>1. ~Interrupts(c, r) /\ RecoveryBase(c, r) = [c EXCEPT !.checkpoint = 0]
  BY DEF Interrupts, RecoveryBase
<1>2. Replayed(c, r) = {}
  BY DEF Replayed
<1>3. Recovered(c, r) = [c EXCEPT !.checkpoint = 0]
  BY <1>1, <1>2 DEF Recovered, Merged, Replay
<1>4. c \in Snapshot /\ 0 \in 0..MaxSeq
  BY OutboxBounds
<1> QED
  BY <1>1, <1>3, <1>4 DEF Snapshot

\* The cached branch is shown whole: its base, and every batch past the
\* checkpoint that may be replayed.
LEMMA MergedCache ==
  ASSUME TypeOK, NEW c, NEW r, PrefersCache(c, r)
  PROVE  /\ journal \in JournalRow /\ Merged(c, r) \in Snapshot
         /\ Merged(c, r).events = Recoverable
         /\ \A s \in replayable : s > journal.base.checkpoint => s <= Merged(c, r).checkpoint
         /\ journal.base.checkpoint <= Merged(c, r).checkpoint
         /\ Merged(c, r).checkpoint \in {journal.base.checkpoint} \cup 1..lastSeq
<1> DEFINE base == journal.base
           batches == Replayed(c, r)
<1>1. journal \in JournalRow /\ journal # NoRow /\ base \in Snapshot
  BY DEF TypeOK, OutboxTypeOK, PrefersCache, JournalRow
<1>2. /\ lastSeq \in 0..MaxSeq /\ replayable \subseteq 1..lastSeq /\ content \subseteq 1..lastSeq
      /\ MaxSeq \in Nat
  BY OutboxBounds DEF TypeOK, OutboxTypeOK
<1>3. batches = {s \in replayable : s > base.checkpoint}
  BY DEF Replayed
<1>4. Merged(c, r) = Replay(base, batches)
  BY DEF Merged, RecoveryBase
<1>5. Recoverable = base.events \cup (batches \cap content)
  BY <1>1, <1>3 DEF Recoverable
<1>6. /\ base.checkpoint \in 0..MaxSeq /\ base.events \subseteq Seqs
      /\ base.foreign \subseteq 1..MaxForeign /\ base.running \in BOOLEAN
  BY <1>1 DEF Snapshot
<1> HIDE DEF batches
<1>7. /\ batches \subseteq 1..lastSeq /\ \A s \in batches : s > base.checkpoint
      /\ lastSeq \in Nat /\ 1..lastSeq \subseteq 1..MaxSeq /\ 1..lastSeq \subseteq 0..MaxSeq
  <2>1. batches \subseteq 1..lastSeq /\ \A s \in batches : s > base.checkpoint
    BY <1>2, <1>3
  <2>2. lastSeq \in Nat /\ lastSeq <= MaxSeq
    BY <1>2
  <2> QED
    BY <1>2, <2>1, <2>2
<1>8. /\ Recoverable \subseteq Seqs
      /\ \A s \in replayable : s > base.checkpoint => s \in batches
  BY <1>2, <1>3, <1>5, <1>6, <1>7 DEF Seqs
<1> HIDE DEF base
<1>9. CASE batches = {}
  <2>1. Merged(c, r) = base
    BY <1>4, <1>9 DEF Replay
  <2>2. Recoverable = base.events
    BY <1>5, <1>9
  <2>3. base.checkpoint <= base.checkpoint
    BY <1>6
  <2> QED
    BY <1>1, <1>8, <1>9, <2>1, <2>2, <2>3 DEF base
<1>10. CASE batches # {}
  <2> DEFINE last == MaxOf(batches)
             runs == last \in live
  <2>1. last \in batches /\ \A s \in batches : s <= last
    BY <1>7, <1>10, LastBatch
  <2>2. Merged(c, r) = [base EXCEPT !.events = Recoverable, !.running = runs,
                                    !.checkpoint = last]
    BY <1>4, <1>5, <1>10 DEF Replay
  <2>6. runs \in BOOLEAN
    OBVIOUS
  <2> HIDE DEF last, runs
  <2>3. last \in 1..lastSeq /\ last > base.checkpoint /\ last \in 0..MaxSeq
    BY <1>7, <2>1
  <2>4. /\ Merged(c, r) \in Snapshot /\ Merged(c, r).events = Recoverable
        /\ Merged(c, r).checkpoint = last
    BY <1>1, <1>8, <2>2, <2>3, <2>6 DEF Snapshot
  <2>5. base.checkpoint <= last
    BY <1>6, <2>3
  <2> QED
    BY <1>1, <1>8, <2>1, <2>3, <2>4, <2>5 DEF base
<1> QED
  BY <1>9, <1>10

LEMMA RecoveredCache ==
  ASSUME TypeOK, NEW c, NEW r, PrefersCache(c, r), Interrupts(c, r) => lastSeq < MaxSeq
  PROVE  /\ Recovered(c, r) \in Snapshot
         /\ Recovered(c, r).events
              = Recoverable \cup (IF Interrupts(c, r) THEN {lastSeq + 1} ELSE {})
         /\ \A s \in replayable : s > journal.base.checkpoint => s <= Recovered(c, r).checkpoint
         /\ journal.base.checkpoint <= lastSeq => journal.base.checkpoint <= Recovered(c, r).checkpoint
         /\ journal.base.checkpoint <= lastSeq =>
              Recovered(c, r).checkpoint <= IF Interrupts(c, r) THEN lastSeq + 1 ELSE lastSeq
         /\ Interrupts(c, r) => Recovered(c, r).checkpoint = lastSeq + 1
<1>1. /\ Merged(c, r) \in Snapshot /\ Merged(c, r).events = Recoverable
      /\ \A s \in replayable : s > journal.base.checkpoint => s <= Merged(c, r).checkpoint
      /\ journal.base.checkpoint <= Merged(c, r).checkpoint
      /\ Merged(c, r).checkpoint \in {journal.base.checkpoint} \cup 1..lastSeq
  BY MergedCache
<1>2. /\ lastSeq \in Nat /\ lastSeq \in 0..MaxSeq /\ MaxSeq \in Nat /\ replayable \subseteq 1..lastSeq
      /\ journal.base.checkpoint \in Nat
  BY OutboxBounds, MergedCache DEF TypeOK, OutboxTypeOK, JournalRow, Snapshot
<1>3. CASE ~Interrupts(c, r)
  <2>1. Recovered(c, r) = Merged(c, r)
    BY <1>3 DEF Recovered
  <2> QED
    BY <1>1, <1>2, <1>3, <2>1
<1>4. CASE Interrupts(c, r)
  <2>1. Recovered(c, r) = [Merged(c, r) EXCEPT !.events = Merged(c, r).events \cup {lastSeq + 1},
                                               !.running = FALSE, !.checkpoint = lastSeq + 1]
    BY <1>4 DEF Recovered
  <2>2. lastSeq + 1 \in Seqs /\ lastSeq + 1 \in 0..MaxSeq
    BY <1>2, <1>4 DEF Seqs
  <2>3. /\ Recovered(c, r) \in Snapshot
        /\ Recovered(c, r).events = Recoverable \cup {lastSeq + 1}
        /\ Recovered(c, r).checkpoint = lastSeq + 1
    BY <1>1, <2>1, <2>2 DEF Snapshot
  <2> QED
    BY <1>2, <1>4, <2>3
<1> QED
  BY <1>3, <1>4

-----------------------------------------------------------------------------
(* Types and shape are kept                                                *)

LEMMA Untouched ==
  ASSUME TypeOK
  PROVE  /\ UNCHANGED outbox => OutboxTypeOK'
         /\ UNCHANGED host /\ unacked \subseteq unacked' => HostTypeOK'
         /\ UNCHANGED web => WebTypeOK'
         /\ UNCHANGED product /\ 1..lastSeq \subseteq 1..lastSeq' => ProductTypeOK'
         /\ UNCHANGED counters => CountersTypeOK'
<1>1. OutboxTypeOK /\ HostTypeOK /\ WebTypeOK /\ ProductTypeOK /\ CountersTypeOK
  BY TypeParts
<1>2. UNCHANGED outbox => OutboxTypeOK'
  BY <1>1 DEF OutboxTypeOK, outbox
<1>3. UNCHANGED host /\ unacked \subseteq unacked' => HostTypeOK'
  BY <1>1 DEF HostTypeOK, host
<1>4. UNCHANGED web => WebTypeOK'
  BY <1>1 DEF WebTypeOK, web
<1>5. UNCHANGED product /\ 1..lastSeq \subseteq 1..lastSeq' => ProductTypeOK'
  BY <1>1 DEF ProductTypeOK, product
<1>6. UNCHANGED counters => CountersTypeOK'
  BY <1>1 DEF CountersTypeOK, counters
<1> QED
  BY <1>2, <1>3, <1>4, <1>5, <1>6

LEMMA TypeNext ==
  ASSUME OutboxTypeOK', HostTypeOK', WebTypeOK', ProductTypeOK', CountersTypeOK'
  PROVE  TypeOK'
  BY DEF TypeOK, OutboxTypeOK, HostTypeOK, WebTypeOK, ProductTypeOK, CountersTypeOK

LEMMA EnqueueType ==
  ASSUME TypeOK, NEW visible \in BOOLEAN, NEW runs, Enqueue(visible, runs), lastSeq < MaxSeq,
         journal' \in JournalRow \cup {NoRow}
  PROVE  /\ OutboxTypeOK' /\ unacked \subseteq unacked' /\ content \subseteq content'
         /\ 1..lastSeq \subseteq 1..lastSeq' /\ lastSeq' = lastSeq + 1
         /\ lastSeq' \in Seqs /\ lastSeq' \in 0..MaxSeq
<1>1. /\ lastSeq \in 0..MaxSeq /\ MaxSeq \in Nat /\ lastSeq' = lastSeq + 1
      /\ rows \subseteq 1..lastSeq /\ unacked \subseteq rows /\ replayable \subseteq rows
      /\ live \subseteq 1..lastSeq /\ content \subseteq 1..lastSeq
  BY OutboxBounds DEF TypeOK, OutboxTypeOK, Enqueue
<1>2. /\ lastSeq' \in 0..MaxSeq /\ lastSeq' \in Seqs /\ 1..lastSeq \subseteq 1..lastSeq'
      /\ lastSeq' \in 1..lastSeq'
  BY <1>1 DEF Seqs
<1>3. /\ rows' = rows \cup {lastSeq'} /\ unacked' = unacked \cup {lastSeq'}
      /\ replayable' = replayable \cup {lastSeq'}
      /\ live' \in {live, live \cup {lastSeq'}} /\ content' \in {content, content \cup {lastSeq'}}
  BY <1>1 DEF Enqueue
<1>4. OutboxTypeOK'
  BY <1>1, <1>2, <1>3 DEF OutboxTypeOK
<1> QED
  BY <1>1, <1>2, <1>3, <1>4

LEMMA NewConversationType ==
  ASSUME TypeOK, Shape, NewConversation PROVE TypeOK' /\ Shape'
<1>1. /\ HostTypeOK'
  BY Empty DEF NewConversation, TypeOK, HostTypeOK, outbox
<1>2. UNCHANGED <<outbox, web, product, counters>> /\ view' # NoView
  BY Empty, Sentinels DEF NewConversation
<1>3. TypeOK'
  BY <1>1, <1>2, Untouched, TypeNext DEF outbox
<1>4. Shape'
  BY <1>2 DEF NewConversation, Shape, outbox, web, counters
<1> QED
  BY <1>3, <1>4

LEMMA InitializedRow ==
  ASSUME TypeOK, NEW X \in Snapshot, NEW r \in Revs
  PROVE  /\ Initialized(X, r) \in JournalRow /\ Initialized(X, r) # NoRow
         /\ journal # NoRow => Initialized(X, r).pending = journal.pending
         /\ journal = NoRow => Initialized(X, r).pending = None
         /\ journal = NoRow \/ rows = {} => Initialized(X, r).base = X
         /\ journal # NoRow /\ rows # {} => Initialized(X, r) = journal
<1>1. journal \in JournalRow \cup {NoRow} /\ 0 \in 0..MaxMutations
  BY OutboxBounds DEF TypeOK, OutboxTypeOK
<1>2. X.running \in BOOLEAN
  BY DEF Snapshot
<1>3. CASE journal = NoRow
  <2>1. Initialized(X, r) = [base |-> X, rev |-> r, local_live |-> X.running,
                             pending |-> None, acknowledged |-> None]
    BY <1>3 DEF Initialized
  <2>2. Initialized(X, r) \in JournalRow
    BY <1>1, <1>2, <2>1 DEF JournalRow, None
  <2>3. Initialized(X, r) # NoRow
    BY <2>2, Sentinels
  <2>4. Initialized(X, r).pending = None /\ Initialized(X, r).base = X
    BY <2>1
  <2> QED
    BY <1>3, <2>2, <2>3, <2>4
<1>4. CASE journal # NoRow /\ rows = {}
  <2>1. Initialized(X, r) = [journal EXCEPT !.base = X, !.rev = r, !.local_live = X.running]
    BY <1>4 DEF Initialized
  <2>2. /\ Initialized(X, r) \in JournalRow /\ Initialized(X, r).base = X
        /\ Initialized(X, r).pending = journal.pending
    BY <1>1, <1>2, <1>4, <2>1 DEF JournalRow
  <2>3. Initialized(X, r) # NoRow
    BY <2>2, Sentinels
  <2> QED
    BY <1>4, <2>2, <2>3
<1>5. CASE journal # NoRow /\ rows # {}
  BY <1>1, <1>5 DEF Initialized
<1> QED
  BY <1>3, <1>4, <1>5

LEMMA ConfigureType ==
  ASSUME TypeOK, Shape, Configure PROVE TypeOK' /\ Shape'
<1>1. view \in Snapshot /\ metaRev \in Revs /\ journal' = Initialized(view, metaRev)
  BY DEF Configure, TypeOK
<1>2. /\ journal' \in JournalRow /\ journal' # NoRow
      /\ journal # NoRow => journal'.pending = journal.pending
      /\ journal = NoRow => journal'.pending = None
  BY <1>1, InitializedRow
<1>3. /\ OutboxTypeOK' /\ unacked \subseteq unacked' /\ content \subseteq content'
      /\ 1..lastSeq \subseteq 1..lastSeq'
  BY <1>2, EnqueueType DEF Configure
<1>4. HostTypeOK'
  BY <1>3 DEF Configure, TypeOK, HostTypeOK
<1>5. TypeOK'
  BY <1>3, <1>4, Untouched, TypeNext DEF Configure
<1>6. Shape'
  BY <1>2 DEF Configure, TypeOK, Shape, web, counters, None
<1> QED
  BY <1>5, <1>6

LEMMA AppendType ==
  ASSUME TypeOK, Shape, NEW runs \in BOOLEAN, Append(runs) PROVE TypeOK' /\ Shape'
<1>1. view \in Snapshot /\ journal' = journal /\ journal # NoRow
  BY DEF Append, TypeOK, Shape
<1>2. /\ OutboxTypeOK' /\ unacked \subseteq unacked' /\ content \subseteq content'
      /\ 1..lastSeq \subseteq 1..lastSeq' /\ lastSeq' \in Seqs /\ lastSeq' \in 0..MaxSeq
  BY <1>1, EnqueueType DEF Append, TypeOK, OutboxTypeOK
<1>3. view' \in Snapshot
  BY <1>1, <1>2 DEF Append, Snapshot
<1>4. HostTypeOK'
  BY <1>2, <1>3 DEF Append, TypeOK, HostTypeOK
<1>5. TypeOK'
  BY <1>2, <1>4, Untouched, TypeNext DEF Append
<1>6. Shape'
  BY <1>1, <1>3, Sentinels DEF Append, Shape, web, counters
<1> QED
  BY <1>5, <1>6

LEMMA CloseType ==
  ASSUME TypeOK, Shape, CloseSession PROVE TypeOK' /\ Shape'
<1>1. HostTypeOK'
  BY DEF CloseSession, TypeOK, HostTypeOK, outbox
<1>2. TypeOK'
  BY <1>1, Untouched, TypeNext DEF CloseSession, outbox
<1>3. Shape'
  BY DEF CloseSession, Shape, outbox, web, counters
<1> QED
  BY <1>2, <1>3

LEMMA ReadCloudType ==
  ASSUME TypeOK, Shape, ReadCloud PROVE TypeOK' /\ Shape'
<1>1. /\ cloud.rev \in Revs /\ cloud.snapshot \in Snapshot
      /\ journal # NoRow => journal.rev \in Revs
  BY DEF TypeOK, OutboxTypeOK, JournalRow
<1>2. \/ opening' = [cloud |-> cloud.snapshot, rev |-> cloud.rev]
      \/ journal # NoRow /\ opening' = [cloud |-> NoCloud, rev |-> journal.rev]
  BY DEF ReadCloud
<1>3. opening' \in [cloud : Snapshot \cup {NoCloud}, rev : Revs]
  BY <1>1, <1>2
<1>7. HostTypeOK'
  BY <1>3 DEF ReadCloud, TypeOK, HostTypeOK, outbox
<1>4. TypeOK'
  BY <1>3, <1>7, Untouched, TypeNext DEF ReadCloud, outbox
<1>5. opening'.cloud = NoCloud => journal # NoRow
  BY <1>1, <1>2, Sentinels
<1>6. Shape'
  BY <1>5 DEF ReadCloud, Shape, outbox, web, counters
<1> QED
  BY <1>4, <1>6

LEMMA OpeningType ==
  ASSUME TypeOK, Shape, opening # NoOpen
  PROVE  /\ opening.cloud \in Snapshot \cup {NoCloud} /\ opening.rev \in Revs
         /\ opening.cloud = NoCloud => PrefersCache(opening.cloud, opening.rev)
         /\ view = NoView /\ session = "none" /\ job = NoJob /\ pub = NoPub
  BY DEF TypeOK, Shape, PrefersCache

LEMMA ContentType ==
  ASSUME TypeOK PROVE content \subseteq Seqs
<1>1. lastSeq \in 0..MaxSeq /\ MaxSeq \in Nat /\ content \subseteq 1..lastSeq
  BY OutboxBounds DEF TypeOK, OutboxTypeOK
<1>2. 1..lastSeq \subseteq 1..MaxSeq
  BY <1>1
<1> QED
  BY <1>1, <1>2 DEF Seqs

LEMMA RecoverableType ==
  ASSUME TypeOK PROVE Recoverable \subseteq Seqs
<1>1. content \subseteq Seqs
  BY ContentType
<1>2. journal # NoRow => journal.base.events \subseteq Seqs
  BY DEF TypeOK, OutboxTypeOK, JournalRow, Snapshot
<1> QED
  BY <1>1, <1>2 DEF Recoverable

LEMMA RecoverWritesType ==
  ASSUME TypeOK, Shape, NEW c \in Snapshot \cup {NoCloud}, NEW r \in Revs, NEW settled \in BOOLEAN,
         c = NoCloud => PrefersCache(c, r),
         Interrupts(c, r) => lastSeq < MaxSeq, RecoverWrites(c, r, settled)
  PROVE  /\ OutboxTypeOK' /\ unacked \subseteq unacked' /\ content \subseteq content'
         /\ 1..lastSeq \subseteq 1..lastSeq'
         /\ journal # NoRow => journal' # NoRow /\ journal'.pending \in {journal.pending, None}
         /\ journal = NoRow => UNCHANGED outbox
<1>0. journal \in JournalRow \cup {NoRow} /\ 0 \in 0..MaxMutations
  BY OutboxBounds DEF TypeOK, OutboxTypeOK
<1>1. CASE Diverges(c, r)
  <2>1. ~PrefersCache(c, r) /\ journal # NoRow /\ journal \in JournalRow
    BY <1>0, <1>1 DEF Diverges
  <2>2. RecoveryBase(c, r) \in Snapshot /\ ~Interrupts(c, r)
    BY <2>1, RecoveredCloud
  <2>3. /\ journal' = [journal EXCEPT !.base = RecoveryBase(c, r), !.rev = r, !.local_live = FALSE,
                                      !.pending = None]
        /\ replayable' = {} /\ UNCHANGED <<rows, unacked, lastSeq, live, content>>
    BY <1>1, <2>2 DEF RecoverWrites
  <2>4. journal' \in JournalRow /\ journal'.pending = None
    BY <1>0, <2>1, <2>2, <2>3 DEF JournalRow, None
  <2>5. journal' # NoRow
    BY <2>4, Sentinels
  <2>6. OutboxTypeOK'
    BY <2>3, <2>4 DEF TypeOK, OutboxTypeOK
  <2> QED
    BY <2>1, <2>3, <2>4, <2>5, <2>6
<1>2. CASE Interrupts(c, r)
  <2>1. journal # NoRow /\ journal \in JournalRow /\ ~Diverges(c, r)
    BY <1>0, <1>2 DEF Interrupts, PrefersCache, Diverges
  <2>2. /\ Enqueue(TRUE, FALSE)
        /\ journal' = IF settled THEN [journal EXCEPT !.local_live = FALSE] ELSE journal
    BY <1>2, <2>1 DEF RecoverWrites
  <2>3. journal' \in JournalRow /\ journal'.pending = journal.pending
    BY <2>1, <2>2 DEF JournalRow
  <2>4. journal' # NoRow
    BY <2>3, Sentinels
  <2> QED
    BY <1>2, <2>1, <2>2, <2>3, <2>4, EnqueueType
<1>3. CASE ~Diverges(c, r) /\ ~Interrupts(c, r)
  <2>1. UNCHANGED outbox
    BY <1>3 DEF RecoverWrites
  <2> QED
    BY <2>1, Untouched DEF outbox
<1> QED
  BY <1>1, <1>2, <1>3

LEMMA RecoverType ==
  ASSUME TypeOK, Shape, Recover PROVE TypeOK' /\ Shape'
<1> DEFINE c == opening.cloud
           r == opening.rev
<1>1. /\ c \in Snapshot \cup {NoCloud} /\ r \in Revs
      /\ c = NoCloud => PrefersCache(c, r)
      /\ view = NoView /\ session = "none" /\ job = NoJob /\ pub = NoPub
  BY OpeningType DEF Recover
<1>2. /\ Interrupts(c, r) => lastSeq < MaxSeq
      /\ RecoverWrites(c, r, TRUE) /\ view' = Recovered(c, r) /\ opening' = NoOpen
      /\ serverRev' = r /\ conflicted' = FALSE
      /\ UNCHANGED <<session, client, sending, pub, metaRev, product, crashes, lists>>
  BY DEF Recover
<1>3. /\ OutboxTypeOK' /\ unacked \subseteq unacked' /\ content \subseteq content'
      /\ 1..lastSeq \subseteq 1..lastSeq'
      /\ journal # NoRow => journal' # NoRow /\ journal'.pending \in {journal.pending, None}
      /\ journal = NoRow => UNCHANGED outbox
  BY <1>1, <1>2, RecoverWritesType
<1>4. Recovered(c, r) \in Snapshot
  BY <1>1, <1>2, RecoveredCloud, RecoveredCache
<1>5. HostTypeOK'
  BY <1>2, <1>3, <1>4 DEF TypeOK, HostTypeOK
<1>6. /\ clock' \in Revs /\ lastMutation' \in 0..MaxMutations
      /\ job' \in Job \cup {NoJob}
      /\ job' # NoJob => journal # NoRow /\ job'.mutation <= lastMutation'
      /\ lastMutation \in Nat /\ lastMutation <= lastMutation'
  <2>0. /\ clock \in 0..MaxClock /\ MaxClock \in Nat /\ MaxMutations \in Nat
        /\ lastMutation \in 0..MaxMutations
    BY OutboxBounds DEF TypeOK, Revs
  <2>1. CASE ~NeedsPublication(c, r)
    BY <1>1, <2>0, <2>1 DEF Recover, TypeOK
  <2>2. CASE NeedsPublication(c, r)
    <3> DEFINE reuse == journal.pending # None
               m == IF reuse THEN journal.pending ELSE lastMutation + 1
    <3>1. /\ journal # NoRow /\ journal.pending \in 0..MaxMutations
          /\ journal.pending <= lastMutation
      BY <2>2 DEF NeedsPublication, PrefersCache, TypeOK, OutboxTypeOK, JournalRow, Shape
    <3>2. /\ reuse \/ lastMutation < MaxMutations
          /\ clock < MaxClock /\ clock' = clock + 1
          /\ job' = [mutation |-> m, snapshot |-> Recovered(c, r), rev |-> clock + 1,
                     committed |-> FALSE]
          /\ lastMutation' = IF reuse THEN lastMutation ELSE lastMutation + 1
      BY <2>2 DEF Recover, Schedule
    <3>3. /\ m \in Mutations /\ clock + 1 \in Revs /\ m <= lastMutation'
          /\ lastMutation <= lastMutation' /\ lastMutation' \in 0..MaxMutations
      BY <2>0, <3>1, <3>2 DEF Mutations, Revs, None
    <3> HIDE DEF m
    <3>4. job' \in Job /\ job'.mutation = m
      BY <1>4, <3>2, <3>3 DEF Job
    <3> QED
      BY <2>0, <3>1, <3>2, <3>3, <3>4
  <2> QED
    BY <2>1, <2>2
<1>7. disowned' \subseteq Seqs
  <2>1. disowned \subseteq Seqs
    BY DEF TypeOK
  <2>2. Recoverable \subseteq Seqs
    BY RecoverableType
  <2>3. disowned' \in {disowned, disowned \cup (Recoverable \ c.events)}
    BY DEF Recover
  <2> QED
    BY <2>1, <2>2, <2>3
<1>8. WebTypeOK'
  BY <1>1, <1>2, <1>6 DEF TypeOK, WebTypeOK
<1>9. CountersTypeOK'
  BY <1>2, <1>6, <1>7 DEF TypeOK, CountersTypeOK
<1>10. TypeOK'
  BY <1>2, <1>3, <1>5, <1>8, <1>9, Untouched, TypeNext
<1>11. view' # NoView
  BY <1>2, <1>4, Sentinels
<1>12. journal # NoRow => journal.pending \in Nat /\ journal.pending <= lastMutation
  BY DEF TypeOK, OutboxTypeOK, JournalRow, Shape
<1>13. journal # NoRow => journal'.pending <= lastMutation'
  BY <1>3, <1>6, <1>12 DEF None
<1>14. journal = NoRow => lastSeq' = 0 /\ journal' = NoRow
  BY <1>3 DEF Shape, outbox
<1>15. Shape'
  BY <1>1, <1>2, <1>3, <1>6, <1>11, <1>13, <1>14 DEF Shape
<1> QED
  BY <1>10, <1>15

LEMMA ForgetType ==
  ASSUME TypeOK, Shape, Forget, OutboxTypeOK', unacked \subseteq unacked',
         1..lastSeq \subseteq 1..lastSeq',
         journal # NoRow => journal' # NoRow /\ journal'.pending \in {journal.pending, None},
         journal = NoRow => UNCHANGED outbox
  PROVE  TypeOK' /\ Shape'
<1>1. HostTypeOK'
  BY DEF Forget, TypeOK, HostTypeOK
<1>2. WebTypeOK'
  BY DEF Forget, TypeOK, WebTypeOK
<1>3. CountersTypeOK'
  BY JournalBounds DEF Forget, TypeOK, CountersTypeOK
<1>4. TypeOK'
  BY <1>1, <1>2, <1>3, Untouched, TypeNext DEF Forget
<1>5. /\ lastMutation \in Nat
      /\ journal # NoRow => journal.pending \in Nat /\ journal.pending <= lastMutation
  BY DEF TypeOK, OutboxTypeOK, JournalRow, Shape
<1>6. journal = NoRow => lastSeq' = 0 /\ journal' = NoRow
  BY DEF Shape, outbox
<1>7. journal' # NoRow => journal'.pending <= lastMutation'
  BY <1>5, <1>6 DEF Forget, None
<1>8. Shape'
  BY <1>6, <1>7 DEF Forget, Shape
<1> QED
  BY <1>4, <1>8

LEMMA CrashType ==
  ASSUME TypeOK, Shape, Crash \/ CrashInRecovery PROVE TypeOK' /\ Shape'
<1>1. CASE Crash
  BY <1>1, Untouched, ForgetType DEF Crash, outbox
<1>2. CASE CrashInRecovery
  <2>1. /\ opening # NoOpen /\ Interrupts(opening.cloud, opening.rev) /\ lastSeq < MaxSeq
        /\ RecoverWrites(opening.cloud, opening.rev, FALSE) /\ Forget
    BY <1>2 DEF CrashInRecovery
  <2> QED
    BY <2>1, OpeningType, RecoverWritesType, ForgetType
<1> QED
  BY <1>1, <1>2

LEMMA DeliveryType ==
  ASSUME TypeOK, Shape, Delivery PROVE TypeOK' /\ Shape'
<1>0. /\ unacked \subseteq rows /\ rows \subseteq 1..lastSeq /\ replayable \subseteq rows
      /\ trajectory \subseteq 1..lastSeq /\ sending \subseteq unacked
  BY DEF TypeOK, OutboxTypeOK
<1>1. CASE Deliver
  <2>1. /\ sending' \subseteq unacked /\ trajectory' = trajectory \cup sending'
        /\ UNCHANGED <<outbox, view, session, client, opening, web, cloud, applied, counters>>
    BY <1>1 DEF Deliver
  <2>2. HostTypeOK' /\ ProductTypeOK'
    BY <1>0, <2>1 DEF TypeOK, HostTypeOK, ProductTypeOK, outbox
  <2>3. TypeOK'
    BY <2>1, <2>2, Untouched, TypeNext
  <2>4. Shape'
    BY <2>1 DEF Shape, outbox, web, counters
  <2> QED
    BY <2>3, <2>4
<1>2. CASE DeliveryAcknowledged
  <2>1. /\ unacked' = unacked \ sending /\ sending' = {} /\ rows' \subseteq rows
        /\ rows' = rows \ {s \in sending : s <= journal.base.checkpoint}
        /\ replayable' = replayable \cap rows'
        /\ UNCHANGED <<journal, lastSeq, live, content, view, session, client, opening, web,
                       product, counters>>
    BY <1>2 DEF DeliveryAcknowledged, Acknowledge
  <2>2. OutboxTypeOK'
    BY <1>0, <2>1 DEF TypeOK, OutboxTypeOK
  <2>3. HostTypeOK'
    BY <2>1 DEF TypeOK, HostTypeOK
  <2>4. TypeOK'
    BY <2>1, <2>2, <2>3, Untouched, TypeNext
  <2>5. Shape'
    BY <2>1 DEF Shape, web, counters
  <2> QED
    BY <2>4, <2>5
<1>3. CASE DeliveryLost
  <2>1. HostTypeOK'
    BY <1>3 DEF DeliveryLost, TypeOK, HostTypeOK, outbox
  <2>2. TypeOK'
    BY <1>3, <2>1, Untouched, TypeNext DEF DeliveryLost, outbox
  <2>3. Shape'
    BY <1>3 DEF DeliveryLost, Shape, outbox, web, counters
  <2> QED
    BY <2>2, <2>3
<1> QED
  BY <1>1, <1>2, <1>3 DEF Delivery

LEMMA PersistType ==
  ASSUME TypeOK, Shape, Persist PROVE TypeOK' /\ Shape'
<1>1. /\ clock \in 0..MaxClock /\ MaxClock \in Nat /\ MaxMutations \in Nat
      /\ lastMutation \in 0..MaxMutations /\ view \in Snapshot /\ journal # NoRow
      /\ view # NoView
  BY OutboxBounds DEF Persist, TypeOK, Revs, Shape
<1>2. /\ clock < MaxClock /\ clock' = clock + 1 /\ lastMutation < MaxMutations
      /\ lastMutation' = lastMutation + 1
      /\ job' = [mutation |-> lastMutation + 1, snapshot |-> view, rev |-> clock + 1,
                 committed |-> FALSE]
      /\ UNCHANGED <<outbox, host, pub, serverRev, metaRev, conflicted, product,
                     crashes, lists, disowned>>
  BY DEF Persist, Schedule
<1>3. /\ lastMutation + 1 \in Mutations /\ clock + 1 \in Revs /\ lastMutation' \in 0..MaxMutations
      /\ lastMutation \in Nat
  BY <1>1, <1>2 DEF Mutations, Revs
<1>4. job' \in Job /\ job'.mutation = lastMutation'
  BY <1>1, <1>2, <1>3 DEF Job
<1>5. WebTypeOK' /\ CountersTypeOK'
  BY <1>2, <1>3, <1>4 DEF TypeOK, WebTypeOK, CountersTypeOK
<1>6. TypeOK'
  BY <1>2, <1>5, Untouched, TypeNext DEF outbox
<1>7. /\ pub # NoPub => pub.mutation \in Nat /\ pub.mutation <= lastMutation
      /\ journal.pending \in Nat /\ journal.pending <= lastMutation
  BY <1>1 DEF TypeOK, OutboxTypeOK, JournalRow, Publication, Mutations, Shape
<1>8. /\ pub # NoPub => pub.mutation <= lastMutation' /\ lastMutation' # pub.mutation
      /\ journal.pending <= lastMutation' /\ lastMutation' <= lastMutation'
  BY <1>2, <1>3, <1>7
<1>9. Shape'
  BY <1>1, <1>2, <1>4, <1>8 DEF Shape, outbox, host
<1> QED
  BY <1>6, <1>9

LEMMA CommitType ==
  ASSUME TypeOK, Shape, Commit PROVE TypeOK' /\ Shape'
<1>1. /\ job \in Job /\ job.committed = FALSE /\ journal # NoRow /\ job # NoJob
      /\ journal \in JournalRow /\ serverRev \in Revs
  BY DEF Commit, TypeOK, OutboxTypeOK, Shape, Job
<1>2. /\ journal' = [base |-> job.snapshot, rev |-> serverRev, local_live |-> job.snapshot.running,
                     pending |-> job.mutation, acknowledged |-> journal.acknowledged]
      /\ job' = [job EXCEPT !.committed = TRUE]
      /\ UNCHANGED <<rows, unacked, replayable, lastSeq, live, content, host, pub, serverRev,
                     metaRev, conflicted, product, counters>>
  BY <1>1 DEF Commit, CommitPending
<1>3. /\ job.snapshot \in Snapshot /\ job.snapshot.running \in BOOLEAN
      /\ job.mutation \in 0..MaxMutations /\ job.mutation \in Mutations
  BY <1>1, OutboxBounds DEF Job, Snapshot, Mutations
<1>4. /\ journal' \in JournalRow /\ journal'.pending = job.mutation
      /\ job' \in Job /\ job'.mutation = job.mutation /\ job'.committed = TRUE
  BY <1>1, <1>2, <1>3 DEF JournalRow, Job
<1>5. journal' # NoRow /\ job' # NoJob
  BY <1>4, Sentinels
<1>6. OutboxTypeOK' /\ WebTypeOK'
  BY <1>2, <1>4 DEF TypeOK, OutboxTypeOK, WebTypeOK
<1>7. TypeOK'
  BY <1>2, <1>6, Untouched, TypeNext
<1>8. Shape'
  BY <1>1, <1>2, <1>4, <1>5 DEF Shape, host, counters
<1> QED
  BY <1>7, <1>8

LEMMA StartPublishType ==
  ASSUME TypeOK, Shape, StartPublish PROVE TypeOK' /\ Shape'
<1>1. /\ job \in Job /\ job # NoJob /\ serverRev \in Revs /\ 0 \in Revs
      /\ pub' = [mutation |-> job.mutation, snapshot |-> job.snapshot, rev |-> job.rev,
                 baseRev |-> serverRev, stage |-> "read", stored |-> 0]
      /\ job' = NoJob
      /\ UNCHANGED <<outbox, host, serverRev, metaRev, conflicted, product, counters>>
  BY OutboxBounds DEF StartPublish, TypeOK, Revs
<1>2. pub' \in Publication /\ pub'.mutation = job.mutation
  BY <1>1 DEF Publication, Job
<1>3. WebTypeOK'
  BY <1>1, <1>2 DEF TypeOK, WebTypeOK
<1>4. TypeOK'
  BY <1>1, <1>3, Untouched, TypeNext DEF outbox
<1>5. Shape'
  BY <1>1, <1>2 DEF Shape, outbox, host, counters
<1> QED
  BY <1>4, <1>5

LEMMA RequeueType ==
  ASSUME TypeOK, Shape, pub # NoPub, Requeue,
         UNCHANGED <<outbox, host, serverRev, metaRev, conflicted, counters>>, ProductTypeOK'
  PROVE  TypeOK' /\ Shape'
<1>1. pub \in Publication /\ pub' = NoPub
  BY DEF TypeOK, Requeue
<1>2. /\ job' \in Job \cup {NoJob}
      /\ job' # NoJob => job'.mutation <= lastMutation
  <2>1. CASE job = NoJob
    <3>1. job' = [mutation |-> pub.mutation, snapshot |-> pub.snapshot, rev |-> pub.rev,
                  committed |-> TRUE]
      BY <2>1 DEF Requeue
    <3>2. job' \in Job /\ job'.mutation = pub.mutation
      BY <1>1, <3>1 DEF Publication, Job
    <3> QED
      BY <3>2 DEF Shape
  <2>2. CASE job # NoJob
    BY <2>2 DEF Requeue, TypeOK, Shape
  <2> QED
    BY <2>1, <2>2
<1>3. WebTypeOK'
  BY <1>1, <1>2 DEF TypeOK, WebTypeOK
<1>4. TypeOK'
  BY <1>3, Untouched, TypeNext DEF outbox
<1>5. Shape'
  BY <1>1, <1>2 DEF Shape, outbox, host, counters
<1> QED
  BY <1>4, <1>5

LEMMA CloudPutType ==
  ASSUME TypeOK, pub # NoPub, CloudPut \/ UNCHANGED product, lastSeq' = lastSeq
  PROVE  /\ ProductTypeOK' /\ trajectory' = trajectory
         /\ \A m \in Mutations : applied[m] # 0 => applied'[m] = applied[m]
<1>1. /\ pub \in Publication /\ applied \in [Mutations -> Revs]
      /\ pub.snapshot \in Snapshot /\ pub.rev \in Revs /\ 0 \in 0..MaxSeq
  BY OutboxBounds DEF TypeOK, Publication
<1>2. CASE CloudPut /\ Accepts
  <2>1. /\ cloud' = [rev |-> pub.rev, snapshot |-> [pub.snapshot EXCEPT !.checkpoint = 0]]
        /\ applied' = [applied EXCEPT ![pub.mutation] = pub.rev]
        /\ applied[pub.mutation] = 0 /\ trajectory' = trajectory
    BY <1>2 DEF CloudPut, Accepts
  <2>2. [pub.snapshot EXCEPT !.checkpoint = 0] \in Snapshot
    BY <1>1 DEF Snapshot
  <2>3. cloud' \in [rev : Revs, snapshot : Snapshot]
    BY <1>1, <2>1, <2>2
  <2>4. applied' \in [Mutations -> Revs]
    BY <1>1, <2>1
  <2>5. \A m \in Mutations : applied[m] # 0 => applied'[m] = applied[m]
    BY <1>1, <2>1
  <2> QED
    BY <2>1, <2>3, <2>4, <2>5 DEF TypeOK, ProductTypeOK
<1>3. CASE UNCHANGED <<cloud, applied, trajectory>>
  BY <1>3 DEF TypeOK, ProductTypeOK
<1> QED
  BY <1>2, <1>3 DEF CloudPut, product

\* A publication moves on: its mutation stays what it was.
LEMMA PubMoves ==
  ASSUME TypeOK, Shape, pub # NoPub, pub' \in Publication, pub'.mutation = pub.mutation,
         UNCHANGED <<outbox, host, job, serverRev, metaRev, conflicted, counters>>, ProductTypeOK'
  PROVE  TypeOK' /\ Shape'
<1>1. WebTypeOK'
  BY DEF TypeOK, WebTypeOK
<1>2. TypeOK'
  BY <1>1, Untouched, TypeNext DEF outbox
<1>3. Shape'
  BY DEF Shape, outbox, host, counters
<1> QED
  BY <1>2, <1>3

LEMMA PublishReadType ==
  ASSUME TypeOK, Shape, PublishRead PROVE TypeOK' /\ Shape'
<1>1. /\ pub \in Publication /\ pub # NoPub /\ journal # NoRow /\ journal \in JournalRow
      /\ UNCHANGED <<outbox, host, job, metaRev, conflicted, product, counters>>
      /\ journal.base \in Snapshot /\ journal.rev \in Revs /\ serverRev \in Revs
  BY DEF PublishRead, TypeOK, OutboxTypeOK, Shape, JournalRow
<1>2. ProductTypeOK'
  BY <1>1, Untouched DEF outbox
<1>3. CASE journal.pending = pub.mutation
  <2>1. pub' = [pub EXCEPT !.snapshot = journal.base, !.stage = "barrier"] /\ serverRev' = serverRev
    BY <1>3 DEF PublishRead
  <2>2. pub' \in Publication /\ pub'.mutation = pub.mutation
    BY <1>1, <2>1 DEF Publication
  <2> QED
    BY <1>1, <1>2, <2>1, <2>2, PubMoves
<1>4. CASE journal.pending # pub.mutation
  <2>1. pub' = NoPub /\ serverRev' \in Revs
    BY <1>1, <1>4 DEF PublishRead
  <2>2. WebTypeOK'
    BY <1>1, <2>1 DEF TypeOK, WebTypeOK
  <2>3. TypeOK'
    BY <1>1, <2>2, Untouched, TypeNext DEF outbox
  <2>4. Shape'
    BY <1>1, <2>1 DEF Shape, outbox, host, counters
  <2> QED
    BY <2>3, <2>4
<1> QED
  BY <1>3, <1>4

LEMMA BarrierType ==
  ASSUME TypeOK, Shape, PassBarrier \/ BarrierTimeout PROVE TypeOK' /\ Shape'
<1>1. pub \in Publication /\ pub # NoPub
  BY DEF PassBarrier, BarrierTimeout, TypeOK
<1>2. CASE PassBarrier
  <2>1. /\ pub' \in Publication /\ pub'.mutation = pub.mutation
        /\ UNCHANGED <<outbox, host, job, serverRev, metaRev, conflicted, product, counters>>
    BY <1>1, <1>2 DEF PassBarrier, Publication
  <2>2. ProductTypeOK'
    BY <2>1, Untouched DEF outbox
  <2> QED
    BY <1>1, <2>1, <2>2, PubMoves
<1>3. CASE BarrierTimeout
  <2>1. Requeue /\ UNCHANGED <<outbox, host, serverRev, metaRev, conflicted, product, counters>>
    BY <1>3 DEF BarrierTimeout
  <2>2. ProductTypeOK'
    BY <2>1, Untouched DEF outbox
  <2> QED
    BY <1>1, <2>1, <2>2, RequeueType
<1> QED
  BY <1>2, <1>3

LEMMA PutType ==
  ASSUME TypeOK, Shape, Put \/ PutLost PROVE TypeOK' /\ Shape'
<1>1. /\ pub \in Publication /\ pub # NoPub
      /\ CloudPut \/ UNCHANGED product
      /\ UNCHANGED <<outbox, host, serverRev, metaRev, conflicted, counters>>
  BY DEF Put, PutLost, TypeOK
<1>2. ProductTypeOK'
  BY <1>1, CloudPutType DEF outbox
<1>3. CASE Put
  <2>1. PICK stored \in {applied'[pub.mutation], cloud'.rev} :
          pub' = IF applied'[pub.mutation] # 0 /\ stored <= pub.rev
                 THEN [pub EXCEPT !.stage = "stored", !.stored = stored]
                 ELSE [pub EXCEPT !.stage = "conflict"]
    BY <1>3 DEF Put
  <2>2. stored \in Revs
    BY <1>1, <1>2 DEF ProductTypeOK, Publication
  <2>3. pub' \in Publication /\ pub'.mutation = pub.mutation
    BY <1>1, <2>1, <2>2 DEF Publication
  <2>4. job' = job
    BY <1>3 DEF Put
  <2> QED
    BY <1>1, <1>2, <2>3, <2>4, PubMoves
<1>4. CASE PutLost
  BY <1>1, <1>2, <1>4, RequeueType DEF PutLost
<1> QED
  BY <1>3, <1>4

LEMMA PublishStoredType ==
  ASSUME TypeOK, Shape, PublishStored PROVE TypeOK' /\ Shape'
<1>1. /\ pub \in Publication /\ journal # NoRow /\ journal \in JournalRow /\ pub' = NoPub
      /\ serverRev' = pub.stored /\ UNCHANGED <<host, job, metaRev, conflicted, product, counters>>
      /\ AcknowledgePublication(pub.snapshot, pub.stored, pub.mutation)
  BY DEF PublishStored, TypeOK, OutboxTypeOK, Shape
<1>2. WebTypeOK'
  BY <1>1 DEF TypeOK, WebTypeOK, Publication
<1>3. lastMutation \in Nat /\ 0 <= lastMutation /\ 0 \in 0..MaxMutations
  BY OutboxBounds DEF TypeOK
<1>4. CASE journal.pending = pub.mutation
  <2>1. /\ journal' = [base |-> pub.snapshot, rev |-> pub.stored, local_live |-> pub.snapshot.running,
                       pending |-> None, acknowledged |-> pub.mutation]
        /\ rows' = {s \in rows : s \in unacked \/ s > pub.snapshot.checkpoint}
        /\ replayable' = replayable \cap rows'
        /\ UNCHANGED <<unacked, lastSeq, live, content>>
    BY <1>1, <1>4 DEF AcknowledgePublication
  <2>2. /\ pub.snapshot \in Snapshot /\ pub.snapshot.running \in BOOLEAN /\ pub.stored \in Revs
        /\ pub.mutation \in 0..MaxMutations
    BY <1>1, OutboxBounds DEF Publication, Snapshot, Mutations
  <2>3. journal' \in JournalRow /\ journal'.pending = None
    BY <1>3, <2>1, <2>2 DEF JournalRow, None
  <2>4. journal' # NoRow
    BY <2>3, Sentinels
  <2>5. OutboxTypeOK'
    BY <2>1, <2>3 DEF TypeOK, OutboxTypeOK
  <2>6. TypeOK'
    BY <1>1, <1>2, <2>1, <2>5, Untouched, TypeNext
  <2>7. Shape'
    BY <1>1, <1>3, <2>1, <2>3, <2>4 DEF Shape, host, counters, None
  <2> QED
    BY <2>6, <2>7
<1>5. CASE journal.pending # pub.mutation
  <2>1. UNCHANGED outbox
    BY <1>1, <1>5 DEF AcknowledgePublication
  <2>2. TypeOK'
    BY <1>1, <1>2, <2>1, Untouched, TypeNext DEF outbox
  <2>3. Shape'
    BY <1>1, <2>1 DEF Shape, outbox, host, counters
  <2> QED
    BY <2>2, <2>3
<1> QED
  BY <1>4, <1>5

LEMMA PublishConflictType ==
  ASSUME TypeOK, Shape, PublishConflict PROVE TypeOK' /\ Shape'
<1>1. /\ replayable' = {} /\ UNCHANGED <<journal, rows, unacked, lastSeq, live, content>>
      /\ conflicted' = TRUE /\ job' = NoJob /\ pub' = NoPub /\ view' = NoView /\ session' = "none"
      /\ UNCHANGED <<client, opening, sending, serverRev, metaRev, product, clock,
                     lastMutation, crashes, lists>>
      /\ disowned' = disowned \cup {s \in replayable \cap content : s > journal.base.checkpoint}
  BY DEF PublishConflict, Quarantine
<1>2. OutboxTypeOK' /\ HostTypeOK' /\ WebTypeOK'
  BY <1>1 DEF TypeOK, OutboxTypeOK, HostTypeOK, WebTypeOK
<1>3. CountersTypeOK'
  <2>1. content \subseteq Seqs
    BY ContentType
  <2> QED
    BY <1>1, <2>1 DEF TypeOK, CountersTypeOK
<1>4. TypeOK'
  BY <1>1, <1>2, <1>3, Untouched, TypeNext
<1>5. Shape'
  BY <1>1 DEF Shape
<1> QED
  BY <1>4, <1>5

LEMMA EnvironmentType ==
  ASSUME TypeOK, Shape, ForeignEdit \/ ListConversations PROVE TypeOK' /\ Shape'
<1>0. clock \in 0..MaxClock /\ MaxClock \in Nat /\ cloud \in [rev : Revs, snapshot : Snapshot]
  BY OutboxBounds DEF TypeOK, Revs
<1>1. CASE ForeignEdit
  <2>1. PICK f \in 1..MaxForeign :
          cloud' = [rev |-> clock + 1,
                    snapshot |-> [cloud.snapshot EXCEPT !.foreign = cloud.snapshot.foreign \cup {f}]]
    BY <1>1 DEF ForeignEdit
  <2>2. /\ clock < MaxClock /\ clock' = clock + 1
        /\ UNCHANGED <<outbox, host, web, applied, trajectory, lastMutation, crashes, lists,
                       disowned>>
    BY <1>1 DEF ForeignEdit
  <2>3. clock + 1 \in Revs
    BY <1>0, <2>2 DEF Revs
  <2>4. [cloud.snapshot EXCEPT !.foreign = cloud.snapshot.foreign \cup {f}] \in Snapshot
    BY <1>0 DEF Snapshot
  <2>5. cloud' \in [rev : Revs, snapshot : Snapshot]
    BY <2>1, <2>3, <2>4
  <2>6. ProductTypeOK'
    BY <2>2, <2>5 DEF TypeOK, ProductTypeOK, outbox
  <2>7. CountersTypeOK'
    BY <2>2, <2>3 DEF TypeOK, CountersTypeOK
  <2>8. TypeOK'
    BY <2>2, <2>6, <2>7, Untouched, TypeNext DEF outbox
  <2>9. Shape'
    BY <2>2 DEF Shape, outbox, host, web
  <2> QED
    BY <2>8, <2>9
<1>2. CASE ListConversations
  <2>1. /\ lists < MaxLists /\ lists' = lists + 1 /\ metaRev' = cloud.rev /\ serverRev' = cloud.rev
        /\ UNCHANGED <<outbox, host, job, pub, conflicted, product, clock, lastMutation,
                       crashes, disowned>>
    BY <1>2 DEF ListConversations
  <2>2. WebTypeOK' /\ CountersTypeOK'
    BY <1>0, <2>1, JournalBounds DEF TypeOK, WebTypeOK, CountersTypeOK
  <2>3. TypeOK'
    BY <2>1, <2>2, Untouched, TypeNext DEF outbox
  <2>4. Shape'
    BY <2>1 DEF Shape, outbox, host
  <2> QED
    BY <2>3, <2>4
<1> QED
  BY <1>1, <1>2

LEMMA TypeStep == TypeOK /\ Shape /\ [Next]_vars => TypeOK' /\ Shape'
<1> SUFFICES ASSUME TypeOK, Shape, [Next]_vars PROVE TypeOK' /\ Shape'
  OBVIOUS
<1>1. CASE Session
  BY <1>1, NewConversationType, ConfigureType, AppendType, CloseType DEF Session
<1>2. CASE Open
  BY <1>2, ReadCloudType, RecoverType DEF Open
<1>3. CASE Publish
  BY <1>3, PersistType, CommitType, StartPublishType, PublishReadType, BarrierType, PutType,
     PublishStoredType, PublishConflictType DEF Publish
<1>4. CASE Environment
  BY <1>4, EnvironmentType, CrashType DEF Environment
<1>5. CASE UNCHANGED vars
  <2>1. TypeOK'
    BY <1>5, Untouched, TypeNext DEF vars, outbox
  <2>2. Shape'
    BY <1>5 DEF vars, Shape, outbox, host, web, counters
  <2> QED
    BY <2>1, <2>2
<1> QED
  BY <1>1, <1>2, <1>3, <1>4, <1>5, DeliveryType DEF Next

\* For every bound: every variable of the journal keeps its type, and a
\* publication, a queued job and a session exist only over a journal row.
THEOREM JournalTypeCorrect == Spec => []TypeOK
<1>1. Init => TypeOK /\ Shape
  BY JournalInit
<1>2. TypeOK /\ Shape /\ [Next]_vars => (TypeOK /\ Shape)'
  BY TypeStep
<1> QED
  BY <1>1, <1>2, PTL DEF Spec

-----------------------------------------------------------------------------
(* The log: what is owed, what is held, and what is being acknowledged     *)

LogAccepts == /\ lastSeq' = lastSeq + 1 /\ unacked' = unacked \cup {lastSeq + 1}
              /\ trajectory' = trajectory /\ sending' \in {sending, {}}
LogAside == UNCHANGED <<lastSeq, unacked, trajectory>> /\ sending' \in {sending, {}}

LEMMA RecoverLog ==
  ASSUME TypeOK, NEW c, NEW r, NEW settled, RecoverWrites(c, r, settled)
  PROVE  \/ lastSeq' = lastSeq + 1 /\ unacked' = unacked \cup {lastSeq + 1}
         \/ UNCHANGED <<lastSeq, unacked>>
  BY DEF RecoverWrites, Enqueue, outbox

LEMMA LogKinds ==
  ASSUME TypeOK, [Next]_vars
  PROVE  LogAccepts \/ Deliver \/ DeliveryAcknowledged \/ LogAside
<1>1. CASE Session
  <2>1. NewConversation \/ CloseSession => LogAside
    BY DEF NewConversation, CloseSession, LogAside, outbox, product
  <2>2. Configure \/ (\E b \in BOOLEAN : Append(b)) => LogAccepts
    BY DEF Configure, Append, Enqueue, LogAccepts, product
  <2> QED
    BY <1>1, <2>1, <2>2 DEF Session
<1>2. CASE Open
  <2>1. ReadCloud => LogAside
    BY DEF ReadCloud, LogAside, outbox, product
  <2>2. ASSUME Recover PROVE LogAccepts \/ LogAside
    BY <2>2, RecoverLog DEF Recover, LogAccepts, LogAside, product
  <2> QED
    BY <1>2, <2>1, <2>2 DEF Open
<1>3. CASE DeliveryLost
  BY <1>3 DEF DeliveryLost, LogAside, outbox, product
<1>4. CASE Publish
  <2>1. Persist \/ StartPublish \/ PublishRead \/ PassBarrier \/ BarrierTimeout => LogAside
    BY DEF Persist, StartPublish, PublishRead, PassBarrier, BarrierTimeout, LogAside,
           outbox, host, product
  <2>2. Commit => LogAside
    BY DEF Commit, CommitPending, LogAside, host, product
  <2>3. Put \/ PutLost => LogAside
    BY DEF Put, PutLost, CloudPut, LogAside, outbox, host, product
  <2>4. PublishStored => LogAside
    BY DEF PublishStored, AcknowledgePublication, LogAside, outbox, host, product
  <2>5. PublishConflict => LogAside
    BY DEF PublishConflict, Quarantine, LogAside, product
  <2> QED
    BY <1>4, <2>1, <2>2, <2>3, <2>4, <2>5 DEF Publish
<1>5. CASE Environment
  <2>1. ForeignEdit \/ ListConversations \/ Crash => LogAside
    BY DEF ForeignEdit, ListConversations, Crash, Forget, LogAside, outbox, host, product
  <2>2. ASSUME CrashInRecovery PROVE LogAccepts \/ LogAside
    BY <2>2, RecoverLog DEF CrashInRecovery, Forget, LogAccepts, LogAside, product
  <2> QED
    BY <1>5, <2>1, <2>2 DEF Environment
<1>6. CASE UNCHANGED vars
  BY <1>6 DEF vars, LogAside, outbox, host, product
<1> QED
  BY <1>1, <1>2, <1>3, <1>4, <1>5, <1>6 DEF Next, Delivery

LEMMA LogInit == Init => LogInv
  BY DEF Init, OutboxInit, LogInv

\* What is delivered reaches the beginning of the log.
LEMMA DeliverLog ==
  ASSUME LogInv, NEW s \in unacked
  PROVE  trajectory \cup {q \in unacked : q <= s} = trajectory \cup 1..s
<1>1. /\ lastSeq \in Nat /\ unacked \subseteq 1..lastSeq /\ 1..lastSeq \subseteq trajectory \cup unacked
      /\ s \in 1..lastSeq
  BY DEF LogInv
<1>2. \A q \in 1..s : q \in trajectory \/ q \in unacked
  BY <1>1
<1>3. \A q \in unacked : q <= s => q \in 1..s
  BY <1>1
<1>4. \A q \in 1..s : q <= s
  BY <1>1
<1>5. \A q : q \in {p \in unacked : p <= s} => q \in 1..s
  BY <1>3
<1>6. \A q : q \in 1..s => q \in trajectory \cup {p \in unacked : p <= s}
  BY <1>2, <1>4
<1> QED
  BY <1>5, <1>6, Zenon

\* What is acknowledged is everything owed up to a batch, and it is held.
LEMMA AcknowledgedLog ==
  ASSUME LogInv, sending # {}
  PROVE  \E s \in unacked : /\ sending = {q \in unacked : q <= s}
                            /\ unacked \ sending = unacked \ 1..s /\ 1..s \subseteq trajectory
<1>1. PICK s \in unacked : sending = {q \in unacked : q <= s}
  BY DEF LogInv
<1>2. /\ lastSeq \in Nat /\ unacked \subseteq 1..lastSeq /\ 1..lastSeq \subseteq trajectory \cup unacked
      /\ s \in 1..lastSeq /\ sending \subseteq trajectory
  BY DEF LogInv
<1>3. \A q \in 1..s : q \in trajectory \/ q \in unacked
  BY <1>2
<1>4. 1..s \subseteq trajectory
  BY <1>1, <1>2, <1>3
<1>5. unacked \ sending = unacked \ 1..s
  <2>1. \A q \in unacked : q <= s <=> q \in 1..s
    BY <1>2
  <2> QED
    BY <1>1, <2>1
<1> QED
  BY <1>1, <1>4, <1>5

LEMMA LogStep == TypeOK /\ LogInv /\ [Next]_vars => LogInv' /\ [Ordered!Next]_(Ordered!log)
<1> SUFFICES ASSUME TypeOK, LogInv, [Next]_vars PROVE LogInv' /\ [Ordered!Next]_(Ordered!log)
  OBVIOUS
<1>0. lastSeq \in Nat /\ unacked \subseteq 1..lastSeq /\ trajectory \subseteq 1..lastSeq
  BY DEF LogInv
<1>1. CASE LogAccepts
  <2>1. Ordered!Accept
    BY <1>1 DEF LogAccepts, Ordered!Accept
  <2>2. LogInv'
    <3>1. /\ lastSeq' \in Nat /\ unacked' \subseteq 1..lastSeq' /\ trajectory' \subseteq 1..lastSeq'
          /\ 1..lastSeq' = 1..lastSeq \cup {lastSeq + 1}
      BY <1>0, <1>1 DEF LogAccepts
    <3>2. 1..lastSeq' \subseteq trajectory' \cup unacked'
      BY <1>1, <3>1 DEF LogAccepts, LogInv
    <3>3. \A s \in unacked' : s..lastSeq' \subseteq unacked'
      <4> SUFFICES ASSUME NEW s \in unacked', NEW q \in s..lastSeq' PROVE q \in unacked'
        OBVIOUS
      <4>1. CASE s \in unacked
        <5>1. q = lastSeq + 1 \/ q \in s..lastSeq
          BY <1>0, <1>1, <3>1, <4>1 DEF LogAccepts
        <5> QED
          BY <1>1, <4>1, <5>1 DEF LogAccepts, LogInv
      <4>2. CASE s = lastSeq + 1
        BY <1>0, <1>1, <4>2 DEF LogAccepts
      <4> QED
        BY <1>1, <4>1, <4>2 DEF LogAccepts
    <3>4. sending' # {} => \E s \in unacked' : sending' = {q \in unacked' : q <= s}
      <4> SUFFICES ASSUME sending' # {} PROVE \E s \in unacked' : sending' = {q \in unacked' : q <= s}
        OBVIOUS
      <4>1. PICK s \in unacked : sending = {q \in unacked : q <= s}
        BY <1>1 DEF LogAccepts, LogInv
      <4>2. ~(lastSeq + 1 <= s)
        BY <1>0
      <4>3. {q \in unacked' : q <= s} = sending
        BY <1>1, <4>1, <4>2 DEF LogAccepts
      <4> QED
        BY <1>1, <4>3 DEF LogAccepts
    <3> QED
      BY <1>1, <3>1, <3>2, <3>3, <3>4 DEF LogAccepts, LogInv
  <2> QED
    BY <2>1, <2>2 DEF Ordered!Next
<1>2. CASE Deliver
  <2>1. PICK s \in unacked : /\ sending' = {q \in unacked : q <= s}
                             /\ trajectory' = trajectory \cup {q \in unacked : q <= s}
    BY <1>2 DEF Deliver
  <2>2. UNCHANGED <<lastSeq, unacked>>
    BY <1>2 DEF Deliver, outbox
  <2>3. trajectory' = trajectory \cup 1..s
    BY <2>1, DeliverLog
  <2>4. Ordered!Deliver
    BY <2>2, <2>3 DEF Ordered!Deliver
  <2>5. \A q \in trajectory' : 1..q \subseteq trajectory'
    BY <1>0, <2>3 DEF LogInv
  <2>6. LogInv'
    BY <2>1, <2>2, <2>5 DEF LogInv
  <2> QED
    BY <2>4, <2>6 DEF Ordered!Next
<1>3. CASE DeliveryAcknowledged
  <2>1. PICK s \in unacked : /\ sending = {q \in unacked : q <= s}
                             /\ unacked \ sending = unacked \ 1..s /\ 1..s \subseteq trajectory
    BY <1>3, AcknowledgedLog DEF DeliveryAcknowledged
  <2>2. /\ unacked' = unacked \ sending /\ sending' = {} /\ UNCHANGED <<lastSeq, trajectory>>
    BY <1>3 DEF DeliveryAcknowledged, Acknowledge, product
  <2>3. Ordered!Settle
    BY <2>1, <2>2 DEF Ordered!Settle
  <2>4. \A q \in unacked' : q..lastSeq' \subseteq unacked'
    <3> SUFFICES ASSUME NEW q \in unacked', NEW p \in q..lastSeq PROVE p \in unacked'
      BY <2>2
    <3>1. q \in unacked /\ q > s /\ s \in Nat /\ q \in Nat
      BY <1>0, <2>1, <2>2
    <3>2. p \in unacked /\ p > s
      BY <1>0, <3>1 DEF LogInv
    <3> QED
      BY <2>1, <2>2, <3>1, <3>2
  <2>5. 1..lastSeq \subseteq trajectory \cup (unacked \ sending)
    BY <2>1 DEF LogInv
  <2>6. LogInv'
    BY <2>2, <2>4, <2>5 DEF LogInv
  <2> QED
    BY <2>3, <2>6 DEF Ordered!Next
<1>4. CASE LogAside
  BY <1>4 DEF LogAside, LogInv, Ordered!log
<1> QED
  BY <1>1, <1>2, <1>3, <1>4, LogKinds

\* For every bound on appends, crashes and conflicts: every batch the host has
\* accepted is in the cloud trajectory or still owed to it.
THEOREM NothingUnaccounted == Spec => []TrajectoryComplete
<1>1. Init => TypeOK /\ Shape /\ LogInv
  BY JournalInit, LogInit
<1>2. TypeOK /\ Shape /\ LogInv /\ [Next]_vars => (TypeOK /\ Shape /\ LogInv)'
  BY TypeStep, LogStep
<1>3. LogInv => TrajectoryComplete
  BY DEF LogInv, TrajectoryComplete
<1> QED
  BY <1>1, <1>2, <1>3, PTL DEF Spec

\* The journal of a conversation implements the ordered log: the cloud holds a
\* prefix of what was accepted, and what is forgotten is held.
THEOREM JournalDeliversInOrder == Spec => DeliveredInOrder
<1>1. Init => TypeOK /\ Shape /\ LogInv
  BY JournalInit, LogInit
<1>2. TypeOK /\ Shape /\ LogInv /\ [Next]_vars => (TypeOK /\ Shape /\ LogInv)'
  BY TypeStep, LogStep
<1>3. Init => Ordered!Init
  BY DEF Init, OutboxInit, Ordered!Init
<1>4. TypeOK /\ LogInv /\ [Next]_vars => [Ordered!Next]_(Ordered!log)
  BY LogStep
<1> QED
  BY <1>1, <1>2, <1>3, <1>4, PTL DEF Spec, DeliveredInOrder, Ordered!Spec

-----------------------------------------------------------------------------
(* The snapshots, and the conversation head                                *)

Grows == /\ lastSeq \in Nat /\ lastSeq' \in Nat /\ lastSeq <= lastSeq'
         /\ trajectory \subseteq trajectory'

LEMMA LogGrows == TypeOK /\ LogInv /\ [Next]_vars => Grows
<1> SUFFICES ASSUME TypeOK, LogInv, [Next]_vars PROVE Grows
  OBVIOUS
<1>1. lastSeq \in Nat
  BY DEF LogInv
<1>2. CASE LogAccepts \/ LogAside
  BY <1>1, <1>2 DEF LogAccepts, LogAside, Grows
<1>3. CASE Deliver \/ DeliveryAcknowledged
  BY <1>1, <1>3 DEF Deliver, DeliveryAcknowledged, Acknowledge, outbox, product, Grows
<1> QED
  BY <1>2, <1>3, LogKinds

\* The snapshots that are behind the log after the step.
Fine == {X \in Snapshot : /\ X.checkpoint <= lastSeq'
                          /\ \A e \in X.events : e <= lastSeq'
                                                 /\ (e <= X.checkpoint \/ e \in trajectory')}

LEMMA FineBefore ==
  ASSUME NEW X \in Snapshot, Behind(X), Grows PROVE X \in Fine
<1>1. X.checkpoint \in Nat /\ \A e \in X.events : e \in Nat
  BY OutboxBounds DEF Snapshot, Seqs
<1> QED
  BY <1>1 DEF Behind, Grows, Fine

LEMMA SnapBefore ==
  ASSUME TypeOK, SnapInv, Grows
  PROVE  /\ journal # NoRow => journal.base \in Fine
         /\ view # NoView => view \in Fine
         /\ job # NoJob => job.snapshot \in Fine
         /\ pub # NoPub => pub.snapshot \in Fine
  BY FineBefore DEF TypeOK, OutboxTypeOK, JournalRow, Job, Publication, SnapInv

LEMMA SnapNext ==
  ASSUME journal' # NoRow => journal'.base \in Fine, view' # NoView => view' \in Fine,
         job' # NoJob => job'.snapshot \in Fine, pub' # NoPub => pub'.snapshot \in Fine
  PROVE  SnapInv'
  BY DEF SnapInv, Behind, Fine

LEMMA RecoveredFine ==
  ASSUME TypeOK, Shape, SnapInv, HeadInv, Grows, opening # NoOpen,
         NEW c, NEW r, c = opening.cloud, r = opening.rev,
         Interrupts(c, r) => lastSeq < MaxSeq /\ lastSeq' = lastSeq + 1
  PROVE  Recovered(c, r) \in Fine
<1>0. /\ c \in Snapshot \cup {NoCloud}
      /\ c = NoCloud => PrefersCache(c, r)
  BY OpeningType
<1>1. CASE PrefersCache(c, r)
  <2> DEFINE X == Recovered(c, r)
             base == journal.base
  <2>1. /\ journal # NoRow /\ base.checkpoint \in Nat /\ base.events \subseteq Seqs
        /\ Behind(base)
    BY <1>1, OutboxBounds DEF PrefersCache, TypeOK, OutboxTypeOK, JournalRow, Snapshot, SnapInv
  <2>2. /\ X \in Snapshot
        /\ X.events = Recoverable \cup (IF Interrupts(c, r) THEN {lastSeq + 1} ELSE {})
        /\ \A s \in replayable : s > base.checkpoint => s <= X.checkpoint
        /\ base.checkpoint <= X.checkpoint
        /\ X.checkpoint <= IF Interrupts(c, r) THEN lastSeq + 1 ELSE lastSeq
        /\ Interrupts(c, r) => X.checkpoint = lastSeq + 1
    BY <1>1, <2>1, RecoveredCache DEF Behind
  <2>3. X.checkpoint \in Nat /\ Recoverable \subseteq base.events \cup {s \in replayable : s > base.checkpoint}
    BY <2>1, <2>2, OutboxBounds DEF Snapshot, Recoverable
  <2>4. replayable \subseteq 1..lastSeq
    BY DEF TypeOK, OutboxTypeOK
  <2> HIDE DEF X
  <2>5. X.checkpoint <= lastSeq'
    BY <2>2, <2>3 DEF Grows
  <2>6. ASSUME NEW e \in base.events
        PROVE  e <= lastSeq' /\ (e <= X.checkpoint \/ e \in trajectory')
    <3>1. e \in Nat /\ e <= lastSeq /\ (e <= base.checkpoint \/ e \in trajectory)
      BY <2>1, <2>6 DEF Behind, Seqs
    <3> QED
      BY <2>1, <2>2, <2>3, <3>1 DEF Grows
  <2>7. ASSUME NEW e \in replayable, e > base.checkpoint
        PROVE  e <= lastSeq' /\ e <= X.checkpoint
    BY <2>2, <2>4, <2>7 DEF Grows
  <2>8. Interrupts(c, r) => lastSeq + 1 <= lastSeq' /\ lastSeq + 1 <= X.checkpoint
    BY <2>2, <2>3 DEF Grows
  <2>9. \A e \in X.events : e <= lastSeq' /\ (e <= X.checkpoint \/ e \in trajectory')
    BY <2>2, <2>3, <2>6, <2>7, <2>8
  <2> QED
    BY <2>2, <2>5, <2>9 DEF Fine, X
<1>2. CASE ~PrefersCache(c, r)
  <2>1. /\ c \in Snapshot /\ c # NoCloud
        /\ Recovered(c, r) \in Snapshot /\ Recovered(c, r).events = c.events
        /\ Recovered(c, r).checkpoint = 0
    BY <1>0, <1>2, RecoveredCloud, Sentinels
  <2>2. c.events \subseteq trajectory /\ trajectory \subseteq 1..lastSeq
    BY <2>1 DEF HeadInv, TypeOK
  <2>3. \A e \in c.events : e <= lastSeq' /\ e \in trajectory'
    <3> SUFFICES ASSUME NEW e \in c.events PROVE e <= lastSeq' /\ e \in trajectory'
      OBVIOUS
    <3>1. e \in trajectory
      BY <2>2
    <3>2. e \in 1..lastSeq
      BY <2>2, <3>1
    <3> QED
      BY <3>1, <3>2 DEF Grows
  <2>4. 0 <= lastSeq'
    BY DEF Grows
  <2> QED
    BY <2>1, <2>3, <2>4 DEF Fine
<1> QED
  BY <1>1, <1>2

LEMMA RecoverJournal ==
  ASSUME TypeOK, NEW c \in Snapshot \cup {NoCloud}, NEW r, NEW settled \in BOOLEAN,
         c = NoCloud => PrefersCache(c, r), RecoverWrites(c, r, settled)
  PROVE  /\ Interrupts(c, r) => lastSeq' = lastSeq + 1
         /\ \/ journal' = journal
            \/ journal # NoRow /\ journal' # NoRow /\ journal'.base = journal.base
            \/ Diverges(c, r) /\ journal' # NoRow /\ journal'.base = Recovered(c, r)
<1>1. CASE Diverges(c, r)
  <2>1. ~PrefersCache(c, r) /\ journal # NoRow /\ journal \in JournalRow /\ c # NoCloud
    BY <1>1 DEF Diverges, TypeOK, OutboxTypeOK
  <2>2. /\ ~Interrupts(c, r) /\ RecoveryBase(c, r) = Recovered(c, r)
        /\ Recovered(c, r) \in Snapshot
    BY <2>1, RecoveredCloud
  <2>3. journal' = [journal EXCEPT !.base = RecoveryBase(c, r), !.rev = r, !.local_live = FALSE,
                                   !.pending = None]
    BY <1>1, <2>2 DEF RecoverWrites
  <2>4. journal'.base = RecoveryBase(c, r) /\ "base" \in DOMAIN journal'
    BY <2>1, <2>3 DEF JournalRow
  <2>5. journal' # NoRow
    BY <2>4 DEF NoRow
  <2> QED
    BY <1>1, <2>2, <2>4, <2>5
<1>2. CASE Interrupts(c, r)
  <2>1. journal # NoRow /\ journal \in JournalRow /\ ~Diverges(c, r)
    BY <1>2 DEF Interrupts, PrefersCache, Diverges, TypeOK, OutboxTypeOK
  <2>2. /\ lastSeq' = lastSeq + 1
        /\ journal' = IF settled THEN [journal EXCEPT !.local_live = FALSE] ELSE journal
    BY <1>2, <2>1 DEF RecoverWrites, Enqueue
  <2>3. journal'.base = journal.base /\ "base" \in DOMAIN journal'
    BY <2>1, <2>2 DEF JournalRow
  <2>4. journal' # NoRow
    BY <2>3 DEF NoRow
  <2> QED
    BY <2>1, <2>2, <2>3, <2>4
<1>3. CASE ~Diverges(c, r) /\ ~Interrupts(c, r)
  BY <1>3 DEF RecoverWrites, outbox
<1> QED
  BY <1>1, <1>2, <1>3

LEMMA SessionSnap ==
  ASSUME TypeOK, Shape, SnapInv, Grows, Session PROVE SnapInv'
<1>1. CASE NewConversation
  <2>1. view' = EmptySnapshot /\ UNCHANGED <<journal, job, pub>>
    BY <1>1 DEF NewConversation, outbox, web
  <2>2. EmptySnapshot.checkpoint = 0 /\ 0 <= lastSeq'
    BY DEF EmptySnapshot, Grows
  <2>3. EmptySnapshot \in Fine
    BY <2>2, Empty DEF Fine
  <2> QED
    BY <2>1, <2>3, SnapBefore, SnapNext
<1>2. CASE Configure
  <2>1. /\ view \in Snapshot /\ metaRev \in Revs /\ view # NoView
        /\ journal' = Initialized(view, metaRev) /\ UNCHANGED <<view, job, pub>>
    BY <1>2 DEF Configure, TypeOK, web
  <2>2. \/ journal'.base = view
        \/ journal # NoRow /\ journal' = journal
    BY <2>1, InitializedRow
  <2> QED
    BY <2>1, <2>2, SnapBefore, SnapNext
<1>3. ASSUME NEW runs \in BOOLEAN, Append(runs) PROVE SnapInv'
  <2>1. /\ view \in Snapshot /\ view # NoView /\ UNCHANGED <<journal, job, pub>>
        /\ view' = [view EXCEPT !.events = view.events \cup {lastSeq'}, !.running = runs,
                                !.checkpoint = lastSeq']
    BY <1>3 DEF Append, TypeOK, Shape, web
  <2>2. lastSeq' = lastSeq + 1 /\ lastSeq < MaxSeq /\ lastSeq \in 0..MaxSeq /\ MaxSeq \in Nat
    BY <1>3, OutboxBounds DEF Append, Enqueue, TypeOK, OutboxTypeOK
  <2>3. lastSeq' \in Seqs /\ lastSeq' \in 0..MaxSeq
    BY <2>2 DEF Seqs
  <2>4. /\ view' \in Snapshot /\ view'.events = view.events \cup {lastSeq'}
        /\ view'.checkpoint = lastSeq'
    BY <2>1, <2>3 DEF Snapshot
  <2>5. \A e \in view.events : e <= lastSeq'
    BY <2>1, SnapBefore DEF Fine
  <2>6. view' \in Fine
    BY <2>3, <2>4, <2>5 DEF Fine, Grows
  <2> QED
    BY <2>1, <2>6, SnapBefore, SnapNext
<1>4. CASE CloseSession
  BY <1>4, SnapBefore, SnapNext DEF CloseSession, outbox, web
<1> QED
  BY <1>1, <1>2, <1>3, <1>4 DEF Session

LEMMA OpenSnap ==
  ASSUME TypeOK, Shape, SnapInv, HeadInv, Grows, Open \/ Crash \/ CrashInRecovery PROVE SnapInv'
<1>1. CASE ReadCloud
  BY <1>1, SnapBefore, SnapNext DEF ReadCloud, outbox, web
<1>2. CASE Crash
  BY <1>2, SnapBefore, SnapNext DEF Crash, Forget, outbox
<1>3. ASSUME opening # NoOpen, NEW settled \in BOOLEAN,
             RecoverWrites(opening.cloud, opening.rev, settled),
             Interrupts(opening.cloud, opening.rev) => lastSeq < MaxSeq
      PROVE  /\ Recovered(opening.cloud, opening.rev) \in Fine
             /\ journal' # NoRow => journal'.base \in Fine
             /\ journal = NoRow => journal' = journal
  <2>1. /\ Interrupts(opening.cloud, opening.rev) => lastSeq' = lastSeq + 1
        /\ \/ journal' = journal
           \/ journal # NoRow /\ journal' # NoRow /\ journal'.base = journal.base
           \/ Diverges(opening.cloud, opening.rev) /\ journal' # NoRow
              /\ journal'.base = Recovered(opening.cloud, opening.rev)
    BY <1>3, OpeningType, RecoverJournal
  <2>2. Recovered(opening.cloud, opening.rev) \in Fine
    BY <1>3, <2>1, RecoveredFine
  <2> QED
    BY <2>1, <2>2, SnapBefore DEF Diverges
<1>4. CASE Recover
  <2>1. /\ opening # NoOpen /\ RecoverWrites(opening.cloud, opening.rev, TRUE)
        /\ Interrupts(opening.cloud, opening.rev) => lastSeq < MaxSeq
        /\ view' = Recovered(opening.cloud, opening.rev) /\ pub' = pub
    BY <1>4 DEF Recover
  <2>2. /\ Recovered(opening.cloud, opening.rev) \in Fine
        /\ journal' # NoRow => journal'.base \in Fine
    BY <1>3, <2>1
  <2>3. job' = job \/ job'.snapshot = Recovered(opening.cloud, opening.rev)
    BY <1>4 DEF Recover, Schedule
  <2> QED
    BY <2>1, <2>2, <2>3, SnapBefore, SnapNext
<1>5. CASE CrashInRecovery
  <2>1. /\ opening # NoOpen /\ RecoverWrites(opening.cloud, opening.rev, FALSE)
        /\ lastSeq < MaxSeq /\ view' = NoView /\ job' = NoJob /\ pub' = NoPub
    BY <1>5 DEF CrashInRecovery, Forget
  <2>2. journal' # NoRow => journal'.base \in Fine
    BY <1>3, <2>1
  <2> QED
    BY <2>1, <2>2, SnapNext
<1> QED
  BY <1>1, <1>2, <1>4, <1>5 DEF Open

LEMMA PublishSnap ==
  ASSUME TypeOK, Shape, SnapInv, Grows, Publish PROVE SnapInv'
<1>1. CASE Persist
  <2>1. view # NoView /\ UNCHANGED <<journal, view, pub>> /\ job'.snapshot = view
    BY <1>1 DEF Persist, Schedule, Shape, outbox, host
  <2> QED
    BY <2>1, SnapBefore, SnapNext
<1>2. CASE Commit
  <2>1. /\ job # NoJob /\ job \in Job /\ UNCHANGED <<view, pub>>
        /\ journal'.base = job.snapshot /\ job' = [job EXCEPT !.committed = TRUE]
    BY <1>2 DEF Commit, CommitPending, TypeOK, host
  <2>2. job'.snapshot = job.snapshot
    BY <2>1 DEF Job
  <2> QED
    BY <2>1, <2>2, SnapBefore, SnapNext
<1>3. CASE StartPublish
  <2>1. job # NoJob /\ UNCHANGED <<journal, view>> /\ pub'.snapshot = job.snapshot /\ job' = NoJob
    BY <1>3 DEF StartPublish, outbox, host
  <2> QED
    BY <2>1, SnapBefore, SnapNext
<1>4. CASE PublishRead
  <2>1. /\ pub \in Publication /\ journal # NoRow /\ UNCHANGED <<journal, view, job>>
        /\ pub' = [pub EXCEPT !.snapshot = journal.base, !.stage = "barrier"] \/ pub' = NoPub
    BY <1>4 DEF PublishRead, TypeOK, Shape, outbox, host
  <2>2. pub' = NoPub \/ pub'.snapshot = journal.base
    BY <2>1 DEF Publication
  <2> QED
    BY <2>1, <2>2, SnapBefore, SnapNext
<1>5. CASE Requeue /\ pub # NoPub /\ UNCHANGED <<journal, view>>
  <2>1. pub' = NoPub /\ (job' = job \/ job'.snapshot = pub.snapshot)
    BY <1>5 DEF Requeue
  <2> QED
    BY <1>5, <2>1, SnapBefore, SnapNext
<1>6. CASE PassBarrier \/ Put
  <2>1. /\ pub \in Publication /\ pub # NoPub /\ UNCHANGED <<journal, view, job>>
        /\ \/ pub' = [pub EXCEPT !.stage = "put"] \/ pub' = [pub EXCEPT !.stage = "conflict"]
           \/ \E stored : pub' = [pub EXCEPT !.stage = "stored", !.stored = stored]
    BY <1>6 DEF PassBarrier, Put, TypeOK, outbox, host
  <2>2. pub'.snapshot = pub.snapshot
    BY <2>1 DEF Publication
  <2> QED
    BY <2>1, <2>2, SnapBefore, SnapNext
<1>7. CASE PublishStored
  <2>1. pub # NoPub /\ UNCHANGED <<view, job>> /\ pub' = NoPub
        /\ (journal' = journal \/ journal'.base = pub.snapshot)
    BY <1>7 DEF PublishStored, AcknowledgePublication, outbox, host
  <2> QED
    BY <2>1, SnapBefore, SnapNext
<1>8. CASE PublishConflict
  <2>1. journal' = journal /\ view' = NoView /\ job' = NoJob /\ pub' = NoPub
    BY <1>8 DEF PublishConflict, Quarantine
  <2> QED
    BY <2>1, SnapBefore, SnapNext
<1>9. BarrierTimeout \/ PutLost => Requeue /\ pub # NoPub /\ UNCHANGED <<journal, view>>
  BY DEF BarrierTimeout, PutLost, outbox, host
<1> QED
  BY <1>1, <1>2, <1>3, <1>4, <1>5, <1>6, <1>7, <1>8, <1>9 DEF Publish

LEMMA SnapStep ==
  ASSUME TypeOK, Shape, LogInv, SnapInv, HeadInv, [Next]_vars PROVE SnapInv'
<1>0. Grows
  BY LogGrows
<1>1. CASE Delivery
  <2>1. UNCHANGED <<journal, view, job, pub>>
    BY <1>1 DEF Delivery, Deliver, DeliveryAcknowledged, DeliveryLost, Acknowledge, outbox, web
  <2> QED
    BY <1>0, <2>1, SnapBefore, SnapNext
<1>2. CASE ForeignEdit \/ ListConversations \/ UNCHANGED vars
  <2>1. UNCHANGED <<journal, view, job, pub>>
    BY <1>2 DEF ForeignEdit, ListConversations, vars, outbox, host, web
  <2> QED
    BY <1>0, <2>1, SnapBefore, SnapNext
<1> QED
  BY <1>0, <1>1, <1>2, SessionSnap, OpenSnap, PublishSnap DEF Next, Environment

LEMMA HeadNext ==
  ASSUME HeadInv, Grows, cloud' = cloud, opening' \in {opening, NoOpen},
         pub' = pub \/ pub' = NoPub \/ pub'.stage # "put"
  PROVE  HeadInv'
  BY DEF HeadInv, Grows

\* The full-snapshot barrier: what goes to the head is in the trajectory.
LEMMA BarrierHead ==
  ASSUME TypeOK, LogInv, SnapInv, HeadInv, PassBarrier PROVE HeadInv'
<1>1. /\ pub \in Publication /\ pub # NoPub /\ pub' = [pub EXCEPT !.stage = "put"]
      /\ UNCHANGED <<cloud, opening, trajectory>> /\ ~PrefixPending
  BY DEF PassBarrier, TypeOK, host, product
<1>2. /\ pub.snapshot \in Snapshot /\ pub'.snapshot = pub.snapshot /\ Behind(pub.snapshot)
  BY <1>1 DEF Publication, SnapInv
<1>3. ASSUME NEW e \in pub.snapshot.events PROVE e \in trajectory
  <2>1. e \in Nat /\ 1 <= e /\ e <= lastSeq /\ (e <= pub.snapshot.checkpoint \/ e \in trajectory)
    BY <1>2 DEF Behind, Snapshot, Seqs
  <2>2. e \in 1..lastSeq /\ lastSeq \in Nat
    BY <2>1 DEF LogInv
  <2>3. e \in trajectory \/ e \in unacked
    BY <2>2 DEF LogInv
  <2> QED
    BY <1>1, <2>1, <2>3 DEF PrefixPending
<1> QED
  BY <1>1, <1>2, <1>3 DEF HeadInv

LEMMA CloudPutHead ==
  ASSUME TypeOK, HeadInv, Put \/ PutLost PROVE HeadInv'
<1>1. /\ pub \in Publication /\ pub # NoPub /\ pub.stage = "put" /\ opening' = opening
      /\ CloudPut \/ UNCHANGED product
  BY DEF Put, PutLost, TypeOK, host
<1>2. pub.snapshot \in Snapshot /\ pub.snapshot.events \subseteq trajectory
  BY <1>1 DEF Publication, HeadInv
<1>3. trajectory' = trajectory /\ cloud'.snapshot.events \subseteq trajectory
  <2>1. CASE CloudPut /\ Accepts
    <3>1. /\ cloud' = [rev |-> pub.rev, snapshot |-> [pub.snapshot EXCEPT !.checkpoint = 0]]
          /\ trajectory' = trajectory
      BY <2>1 DEF CloudPut
    <3>2. [pub.snapshot EXCEPT !.checkpoint = 0].events = pub.snapshot.events
      BY <1>2 DEF Snapshot
    <3> QED
      BY <1>2, <3>1, <3>2
  <2>2. CASE UNCHANGED <<cloud, trajectory>>
    BY <2>2 DEF HeadInv
  <2> QED
    BY <1>1, <2>1, <2>2 DEF CloudPut, product
<1>4. pub' = NoPub \/ pub'.stage # "put"
  <2>1. CASE Put
    <3>1. PICK stored : pub' = IF applied'[pub.mutation] # 0 /\ stored <= pub.rev
                               THEN [pub EXCEPT !.stage = "stored", !.stored = stored]
                               ELSE [pub EXCEPT !.stage = "conflict"]
      BY <2>1 DEF Put
    <3> QED
      BY <1>1, <3>1 DEF Publication
  <2>2. CASE PutLost
    BY <2>2 DEF PutLost, Requeue
  <2> QED
    BY <2>1, <2>2
<1> QED
  BY <1>1, <1>3, <1>4 DEF HeadInv

LEMMA HeadStep ==
  ASSUME TypeOK, Shape, LogInv, SnapInv, HeadInv, [Next]_vars PROVE HeadInv'
<1>0. Grows
  BY LogGrows
<1>1. CASE Session
  <2>1. UNCHANGED <<cloud, opening, pub>>
    BY <1>1 DEF Session, NewConversation, Configure, Append, CloseSession, web, product
  <2> QED
    BY <1>0, <2>1, HeadNext
<1>2. CASE ReadCloud
  <2>1. /\ UNCHANGED <<cloud, trajectory, pub>>
        /\ \/ opening' = [cloud |-> cloud.snapshot, rev |-> cloud.rev]
           \/ opening' = [cloud |-> NoCloud, rev |-> journal.rev]
    BY <1>2 DEF ReadCloud, web, product
  <2> QED
    BY <2>1 DEF HeadInv
<1>3. CASE Recover
  BY <1>0, <1>3, HeadNext DEF Recover, product
<1>4. CASE Delivery
  <2>1. UNCHANGED <<cloud, opening, pub>>
    BY <1>4 DEF Delivery, Deliver, DeliveryAcknowledged, DeliveryLost, web, product
  <2> QED
    BY <1>0, <2>1, HeadNext
<1>5. CASE Persist \/ Commit \/ StartPublish \/ PublishRead \/ BarrierTimeout
           \/ PublishStored \/ PublishConflict
  <2>1. UNCHANGED <<cloud, opening>>
    BY <1>5 DEF Persist, Commit, StartPublish, PublishRead, BarrierTimeout, PublishStored,
                PublishConflict, host, product
  <2>2. CASE PublishRead /\ pub' # NoPub
    <3>1. pub \in Publication /\ pub' = [pub EXCEPT !.snapshot = journal.base, !.stage = "barrier"]
      BY <2>2 DEF PublishRead, TypeOK
    <3>2. pub'.stage = "barrier"
      BY <3>1 DEF Publication
    <3> QED
      BY <1>0, <2>1, <3>2, HeadNext
  <2>3. CASE StartPublish
    <3>1. pub'.stage = "read"
      BY <2>3 DEF StartPublish
    <3> QED
      BY <1>0, <2>1, <3>1, HeadNext
  <2>4. CASE pub' \in {pub, NoPub}
    BY <1>0, <2>1, <2>4, HeadNext
  <2> QED
    BY <1>5, <2>2, <2>3, <2>4 DEF Persist, Commit, BarrierTimeout, Requeue, PublishStored,
                                  PublishConflict
<1>6. CASE ForeignEdit
  <2>1. /\ UNCHANGED <<opening, pub, trajectory>> /\ cloud.snapshot \in Snapshot
        /\ \E f : cloud' = [rev |-> clock + 1, snapshot |->
                              [cloud.snapshot EXCEPT !.foreign = cloud.snapshot.foreign \cup {f}]]
    BY <1>6 DEF ForeignEdit, TypeOK, host, web
  <2>2. cloud'.snapshot.events = cloud.snapshot.events
    BY <2>1 DEF Snapshot
  <2> QED
    BY <2>1, <2>2 DEF HeadInv
<1>7. CASE ListConversations \/ Crash \/ CrashInRecovery
  BY <1>0, <1>7, HeadNext DEF ListConversations, Crash, CrashInRecovery, Forget, host, product
<1>8. CASE UNCHANGED vars
  BY <1>0, <1>8, HeadNext DEF vars, host, web, product
<1> QED
  BY <1>1, <1>2, <1>3, <1>4, <1>5, <1>6, <1>7, <1>8, BarrierHead, CloudPutHead
  DEF Next, Open, Publish, Environment

LEMMA HeadInit == Init => SnapInv /\ HeadInv
<1> SUFFICES ASSUME Init PROVE SnapInv /\ HeadInv
  OBVIOUS
<1> QED
  BY Empty DEF Init, OutboxInit, SnapInv, HeadInv

JournalInv == TypeOK /\ Shape /\ LogInv /\ SnapInv /\ HeadInv

LEMMA JournalInvariant == Spec => []JournalInv
<1>1. Init => JournalInv
  BY JournalInit, LogInit, HeadInit DEF JournalInv
<1>2. JournalInv /\ [Next]_vars => JournalInv'
  BY TypeStep, LogStep, SnapStep, HeadStep DEF JournalInv
<1> QED
  BY <1>1, <1>2, PTL DEF Spec

\* For every bound: other readers never see in the conversation head an event
\* whose batch the cloud trajectory does not hold (wait_for_acknowledged_prefix
\* before conversation.put, also after crashes, conflicts and lost answers).
THEOREM HeadFollowsTrajectory == Spec => []HeadBehindTrajectory
<1>1. JournalInv => HeadBehindTrajectory
  BY DEF JournalInv, HeadInv, HeadBehindTrajectory
<1> QED
  BY <1>1, JournalInvariant, PTL

-----------------------------------------------------------------------------
(* The pending mutation                                                    *)

LEMMA ReleaseStep == TypeOK /\ Shape /\ ReleaseInv /\ [Next]_vars => ReleaseInv'
<1> SUFFICES ASSUME TypeOK, Shape, ReleaseInv, [Next]_vars PROVE ReleaseInv'
  OBVIOUS
<1>0. pub # NoPub => pub \in Publication
  BY DEF TypeOK
<1>1. CASE Put
  <2>1. PICK stored : pub' = IF applied'[pub.mutation] # 0 /\ stored <= pub.rev
                             THEN [pub EXCEPT !.stage = "stored", !.stored = stored]
                             ELSE [pub EXCEPT !.stage = "conflict"]
    BY <1>1 DEF Put
  <2> QED
    BY <1>0, <1>1, <2>1 DEF Put, Publication, ReleaseInv
<1>2. CASE pub' = NoPub
  BY <1>2 DEF ReleaseInv
<1>3. CASE UNCHANGED <<pub, applied>>
  BY <1>3 DEF ReleaseInv
<1>4. CASE StartPublish \/ PublishRead \/ PassBarrier
  <2>1. pub' = NoPub \/ pub'.stage \in {"read", "barrier", "put"}
    <3>1. StartPublish => pub'.stage = "read"
      BY DEF StartPublish
    <3>2. pub \in Publication => [pub EXCEPT !.stage = "put"].stage = "put"
      BY DEF Publication
    <3>3. PassBarrier => pub'.stage = "put"
      BY <1>0, <3>2 DEF PassBarrier
    <3>4. pub \in Publication =>
            [pub EXCEPT !.snapshot = journal.base, !.stage = "barrier"].stage = "barrier"
      BY DEF Publication
    <3>5. PublishRead => pub' = NoPub \/ pub'.stage = "barrier"
      BY <1>0, <3>4 DEF PublishRead
    <3> QED
      BY <1>4, <3>1, <3>3, <3>5
  <2> QED
    BY <2>1 DEF ReleaseInv
<1>5. CASE Session
  BY <1>3, <1>5 DEF Session, NewConversation, Configure, Append, CloseSession, web, product
<1>6. CASE Open
  BY <1>3, <1>6 DEF Open, ReadCloud, Recover, web, product
<1>7. CASE Delivery
  BY <1>3, <1>7 DEF Delivery, Deliver, DeliveryAcknowledged, DeliveryLost, web, product
<1>8. CASE Publish
  BY <1>1, <1>2, <1>3, <1>4, <1>8
  DEF Publish, Persist, Commit, BarrierTimeout, PutLost, Requeue, PublishStored, PublishConflict,
      product
<1>9. CASE Environment
  BY <1>2, <1>3, <1>9
  DEF Environment, ForeignEdit, ListConversations, Crash, CrashInRecovery, Forget, web, product
<1> QED
  BY <1>3, <1>5, <1>6, <1>7, <1>8, <1>9 DEF Next, vars, web, product

Released == \A m \in Mutations :
              (journal # NoRow /\ journal.pending = m /\ journal'.pending = None) => applied[m] # 0

LEMMA ReleasedStep == TypeOK /\ Shape /\ ReleaseInv /\ [Next]_vars => Released
<1> SUFFICES ASSUME TypeOK, Shape, ReleaseInv, [Next]_vars,
                    NEW m \in Mutations, journal # NoRow, journal.pending = m, journal'.pending = None
             PROVE  applied[m] # 0
  BY DEF Released
<1>0. m # None
  BY DEF Mutations, None
<1>1. journal' # journal
  BY <1>0
<1>2. CASE Configure
  <2>1. view \in Snapshot /\ metaRev \in Revs /\ journal' = Initialized(view, metaRev)
    BY <1>2 DEF Configure, TypeOK
  <2> QED
    BY <1>0, <2>1, InitializedRow
<1>3. ASSUME opening # NoOpen, NEW settled \in BOOLEAN,
             RecoverWrites(opening.cloud, opening.rev, settled)
      PROVE  FALSE
  <2>1. PrefersCache(opening.cloud, opening.rev) /\ ~Diverges(opening.cloud, opening.rev)
    BY <1>0 DEF PrefersCache, Diverges
  <2>2. journal' = journal \/ journal' = [journal EXCEPT !.local_live = FALSE]
    BY <1>3, <2>1 DEF RecoverWrites, outbox
  <2>3. journal'.pending = journal.pending
    BY <2>2 DEF TypeOK, OutboxTypeOK, JournalRow
  <2> QED
    BY <1>0, <2>3
<1>4. CASE Recover \/ CrashInRecovery
  BY <1>3, <1>4 DEF Recover, CrashInRecovery
<1>5. CASE Commit
  <2>1. job \in Job /\ journal'.pending = job.mutation
    BY <1>5 DEF Commit, CommitPending, TypeOK
  <2> QED
    BY <2>1 DEF Job, Mutations, None
<1>6. CASE PublishStored
  BY <1>1, <1>6 DEF PublishStored, AcknowledgePublication, outbox, ReleaseInv
<1>7. Session => Configure
  BY <1>1 DEF Session, NewConversation, Append, CloseSession, outbox
<1>8. Open => Recover
  BY <1>1 DEF Open, ReadCloud, outbox
<1>9. ~Delivery
  BY <1>1 DEF Delivery, Deliver, DeliveryAcknowledged, DeliveryLost, Acknowledge, outbox
<1>10. Publish => Commit \/ PublishStored
  BY <1>1 DEF Publish, Persist, StartPublish, PublishRead, PassBarrier, BarrierTimeout, Put,
              PutLost, PublishConflict, Quarantine, outbox
<1>11. Environment => CrashInRecovery
  BY <1>1 DEF Environment, ForeignEdit, ListConversations, Crash, outbox
<1> QED
  BY <1>1, <1>2, <1>4, <1>5, <1>6, <1>7, <1>8, <1>9, <1>10, <1>11 DEF Next, vars, outbox

\* For every bound: a pending mutation is released only when the cloud has
\* taken it (acknowledge_snapshot_publication and recover_sync).
THEOREM PendingUntilTaken == Spec => PendingReleased
<1>1. Init => TypeOK /\ Shape /\ ReleaseInv
  BY JournalInit DEF Init, ReleaseInv
<1>2. TypeOK /\ Shape /\ ReleaseInv /\ [Next]_vars => (TypeOK /\ Shape /\ ReleaseInv)'
  BY TypeStep, ReleaseStep
<1>3. TypeOK /\ Shape /\ ReleaseInv /\ [Next]_vars
        => [\A m \in Mutations :
              (journal # NoRow /\ journal.pending = m /\ journal'.pending = None)
                => applied[m] # 0]_vars
  BY ReleasedStep DEF Released
<1> QED
  BY <1>1, <1>2, <1>3, PTL DEF Spec, PendingReleased

-----------------------------------------------------------------------------
(* The branch of this device                                               *)

KeptNext(snapshot) ==
    \A s \in Branch' : \/ s \in snapshot.events
                       \/ s \in replayable' /\ s > snapshot.checkpoint
                          /\ s > journal'.base.checkpoint

LEMMA LossNext ==
  ASSUME journal' # NoRow => KeptNext(journal'.base),
         view' # NoView => Branch' \subseteq view'.events,
         job' # NoJob /\ ~job'.committed => KeptNext(job'.snapshot),
         Current' => /\ KeptNext(pub'.snapshot)
                     /\ \A s \in replayable' :
                          s > journal'.base.checkpoint => s > pub'.snapshot.checkpoint
  PROVE  LossInv'
  BY DEF LossInv, Kept, KeptNext

\* Batches are appended, or acknowledged behind the checkpoint: what every
\* snapshot lacks of the branch can still be replayed over it.
LEMMA BatchesKept ==
  ASSUME TypeOK, Shape, SnapInv, LossInv, lastSeq \in Nat, journal # NoRow,
         journal'.base = journal.base,
         \A s \in replayable : s > journal.base.checkpoint => s \in replayable',
         replayable' \subseteq replayable \cup {lastSeq + 1},
         \A s \in Branch' : s \in Branch \/ (s = lastSeq + 1 /\ s \in replayable')
  PROVE  /\ KeptNext(journal.base)
         /\ job # NoJob /\ ~job.committed => KeptNext(job.snapshot)
         /\ Current => /\ KeptNext(pub.snapshot)
                       /\ \A s \in replayable' :
                            s > journal'.base.checkpoint => s > pub.snapshot.checkpoint
<1>1. /\ journal.base.checkpoint \in Nat /\ journal.base.checkpoint <= lastSeq
      /\ job # NoJob => job.snapshot.checkpoint \in Nat /\ job.snapshot.checkpoint <= lastSeq
      /\ pub # NoPub => pub.snapshot.checkpoint \in Nat /\ pub.snapshot.checkpoint <= lastSeq
  BY OutboxBounds
  DEF TypeOK, OutboxTypeOK, JournalRow, Job, Publication, Snapshot, SnapInv, Behind
<1>2. ASSUME NEW X, X.checkpoint \in Nat, X.checkpoint <= lastSeq, Kept(X)
      PROVE  KeptNext(X)
  <2>1. lastSeq + 1 > X.checkpoint /\ lastSeq + 1 > journal.base.checkpoint
    BY <1>1, <1>2
  <2> QED
    BY <1>2, <2>1 DEF Kept, KeptNext
<1>3. Current => \A s \in replayable' :
                   s > journal'.base.checkpoint => s > pub.snapshot.checkpoint
  <2> SUFFICES ASSUME Current, NEW s \in replayable', s > journal'.base.checkpoint
               PROVE  s > pub.snapshot.checkpoint
    OBVIOUS
  <2>1. CASE s = lastSeq + 1
    BY <1>1, <2>1 DEF Current
  <2>2. CASE s \in replayable
    BY <2>2 DEF LossInv
  <2> QED
    BY <2>1, <2>2
<1> QED
  BY <1>1, <1>2, <1>3 DEF LossInv, Current

LEMMA EnqueueKept ==
  ASSUME TypeOK, NEW visible \in BOOLEAN, NEW runs, Enqueue(visible, runs), disowned' = disowned
  PROVE  /\ \A s \in replayable : s \in replayable'
         /\ replayable' \subseteq replayable \cup {lastSeq + 1}
         /\ \A s \in Branch' : s \in Branch \/ (s = lastSeq + 1 /\ s \in replayable')
         /\ ~visible => Branch' = Branch
<1>1. replayable' = replayable \cup {lastSeq + 1}
  BY DEF Enqueue
<1>2. content' = content \/ content' = content \cup {lastSeq + 1}
  BY DEF Enqueue
<1>3. ~visible => content' = content
  BY DEF Enqueue
<1>4. \A s \in Branch' : s \in Branch \/ s = lastSeq + 1
  BY <1>2 DEF Branch
<1>5. ASSUME ~visible PROVE Branch' = Branch
  <2>1. content' = content
    BY <1>3, <1>5
  <2> QED
    BY <2>1 DEF Branch
<1>6. /\ \A s \in replayable : s \in replayable'
      /\ replayable' \subseteq replayable \cup {lastSeq + 1}
      /\ \A s \in Branch' : s \in Branch \/ (s = lastSeq + 1 /\ s \in replayable')
  BY <1>1, <1>4
<1> QED
  BY <1>5, <1>6, Zenon

\* Nothing is done to the branch.
LEMMA LossAside ==
  ASSUME LossInv, UNCHANGED <<journal, replayable, content, disowned>>,
         view' \in {view, NoView}, job' = job \/ job' = NoJob \/ job'.committed = TRUE,
         \/ pub' = NoPub \/ pub'.stage = "read"
         \/ pub' # NoPub /\ pub # NoPub /\ pub.stage # "read" /\ pub'.snapshot = pub.snapshot
            /\ pub'.mutation = pub.mutation
         \/ pub' = pub
  PROVE  LossInv'
<1>1. \A X : Kept(X) => KeptNext(X)
  BY DEF Kept, KeptNext, Branch
<1>2. Branch' = Branch
  BY DEF Branch
<1>3. Current' => Current /\ pub'.snapshot = pub.snapshot
  BY DEF Current
<1>4. CASE job' = job
  BY <1>1, <1>2, <1>3, <1>4, LossNext DEF LossInv
<1>5. CASE job' = NoJob \/ job'.committed = TRUE
  BY <1>1, <1>2, <1>3, <1>5, LossNext DEF LossInv
<1> QED
  BY <1>4, <1>5

LEMMA NoBranch == TypeOK /\ Shape /\ journal = NoRow => content = {}
<1> SUFFICES ASSUME TypeOK, Shape, journal = NoRow PROVE content = {}
  OBVIOUS
<1>1. lastSeq = 0 /\ content \subseteq 1..0
  BY DEF Shape, TypeOK, OutboxTypeOK
<1> QED
  BY <1>1

LEMMA SessionLoss ==
  ASSUME TypeOK, Shape, SnapInv, LossInv, lastSeq \in Nat, Session PROVE LossInv'
<1>1. CASE NewConversation
  <2>1. /\ journal = NoRow /\ view = NoView /\ UNCHANGED <<outbox, job, pub, disowned>>
    BY <1>1 DEF NewConversation, web, counters
  <2>2. Branch' = {} /\ job' = NoJob /\ pub' = NoPub
    BY <2>1, NoBranch DEF Branch, outbox, Shape
  <2> QED
    BY <2>2, LossNext DEF KeptNext, Current
<1>2. CASE CloseSession
  BY <1>2, LossAside DEF CloseSession, outbox, web, counters
<1>3. CASE Configure
  <2>1. /\ view # NoView /\ view \in Snapshot /\ metaRev \in Revs
        /\ Enqueue(FALSE, view.running) /\ journal' = Initialized(view, metaRev)
        /\ UNCHANGED <<view, job, pub, disowned>>
    BY <1>3 DEF Configure, TypeOK, web, counters
  <2>2. /\ \A s \in replayable : s \in replayable'
        /\ replayable' \subseteq replayable \cup {lastSeq + 1} /\ Branch' = Branch
        /\ \A s \in Branch' : s \in Branch \/ (s = lastSeq + 1 /\ s \in replayable')
    BY <2>1, EnqueueKept
  <2>3. Branch \subseteq view.events
    BY <2>1 DEF LossInv
  <2>4. CASE journal = NoRow
    <3>1. Branch' = {} /\ job' = NoJob /\ pub' = NoPub
      BY <2>1, <2>2, <2>4, NoBranch DEF Branch, Shape
    <3> QED
      BY <3>1, LossNext DEF KeptNext, Current
  <2>5. CASE journal # NoRow /\ rows = {}
    <3>1. journal'.base = view /\ journal'.pending = journal.pending /\ replayable = {}
      BY <2>1, <2>5, InitializedRow DEF TypeOK, OutboxTypeOK
    <3>2. \A X : Kept(X) => KeptNext(X)
      BY <2>2, <3>1 DEF Kept, KeptNext
    <3>3. KeptNext(view)
      BY <2>2, <2>3 DEF KeptNext
    <3>4. Current' => Current
      BY <2>1, <3>1 DEF Current
    <3>5. Current => lastSeq + 1 > pub.snapshot.checkpoint
      BY OutboxBounds DEF Current, TypeOK, Publication, Snapshot, SnapInv, Behind
    <3>6. Current => \A s \in replayable' : s > pub.snapshot.checkpoint
      BY <2>2, <3>1, <3>5
    <3> QED
      BY <2>1, <2>2, <2>3, <3>1, <3>2, <3>3, <3>4, <3>6, LossNext DEF LossInv
  <2>6. CASE journal # NoRow /\ rows # {}
    <3>1. journal' = journal
      BY <2>1, <2>6, InitializedRow
    <3>2. Current' => Current
      BY <2>1, <3>1 DEF Current
    <3> QED
      BY <2>1, <2>2, <2>3, <2>6, <3>1, <3>2, BatchesKept, LossNext
  <2> QED
    BY <2>4, <2>5, <2>6
<1>4. ASSUME NEW runs \in BOOLEAN, Append(runs) PROVE LossInv'
  <2>1. /\ view # NoView /\ view \in Snapshot /\ journal # NoRow /\ Enqueue(TRUE, runs)
        /\ UNCHANGED <<journal, job, pub, disowned>>
        /\ view' = [view EXCEPT !.events = view.events \cup {lastSeq + 1}, !.running = runs,
                                !.checkpoint = lastSeq']
    BY <1>4 DEF Append, Enqueue, TypeOK, Shape, web, counters
  <2>2. /\ \A s \in replayable : s \in replayable'
        /\ replayable' \subseteq replayable \cup {lastSeq + 1}
        /\ \A s \in Branch' : s \in Branch \/ (s = lastSeq + 1 /\ s \in replayable')
    BY <2>1, EnqueueKept
  <2>3. view'.events = view.events \cup {lastSeq + 1}
    BY <2>1 DEF Snapshot
  <2>4. Branch' \subseteq view'.events
    BY <2>1, <2>2, <2>3 DEF LossInv
  <2>5. Current' => Current
    BY <2>1 DEF Current
  <2> QED
    BY <2>1, <2>2, <2>4, <2>5, BatchesKept, LossNext
<1> QED
  BY <1>1, <1>2, <1>3, <1>4 DEF Session

LEMMA OpenLoss ==
  ASSUME TypeOK, Shape, SnapInv, LossInv, lastSeq \in Nat, Open \/ Crash \/ CrashInRecovery
  PROVE  LossInv'
<1>1. CASE ReadCloud
  BY <1>1, LossAside DEF ReadCloud, outbox, web, counters
<1>2. CASE Crash
  BY <1>2, LossAside DEF Crash, Forget, outbox
<1> DEFINE c == opening.cloud
           r == opening.rev
<1>3. ASSUME opening # NoOpen, Diverges(c, r), NEW settled \in BOOLEAN, RecoverWrites(c, r, settled),
             disowned' = disowned \cup (Recoverable \ c.events)
      PROVE  Branch' \subseteq Recovered(c, r).events /\ Branch' \subseteq journal'.base.events
  <2>1. /\ journal # NoRow /\ ~PrefersCache(c, r) /\ journal \in JournalRow
        /\ c \in Snapshot \cup {NoCloud} /\ c # NoCloud
    BY <1>3, OpeningType DEF Diverges, TypeOK, OutboxTypeOK
  <2>2. /\ ~Interrupts(c, r) /\ RecoveryBase(c, r) = Recovered(c, r)
        /\ Recovered(c, r).events = c.events
    BY <2>1, RecoveredCloud
  <2>3. /\ journal' = [journal EXCEPT !.base = RecoveryBase(c, r), !.rev = r, !.local_live = FALSE,
                                      !.pending = None]
        /\ content' = content
    BY <1>3, <2>2 DEF RecoverWrites
  <2>4. journal'.base = RecoveryBase(c, r)
    BY <2>1, <2>3 DEF JournalRow
  <2>5. Branch \subseteq Recoverable
    BY <2>1 DEF LossInv, Kept, Recoverable, Branch
  <2>6. Branch' \subseteq c.events
    BY <1>3, <2>3, <2>5 DEF Branch
  <2> QED
    BY <2>2, <2>4, <2>6
<1>4. ASSUME opening # NoOpen, PrefersCache(c, r), NEW settled \in BOOLEAN,
             RecoverWrites(c, r, settled), disowned' = disowned,
             Interrupts(c, r) => lastSeq < MaxSeq
      PROVE  Branch' \subseteq Recovered(c, r).events /\ KeptNext(journal'.base)
  <2>1. journal # NoRow /\ journal \in JournalRow /\ ~Diverges(c, r)
    BY <1>4 DEF PrefersCache, Diverges, TypeOK, OutboxTypeOK
  <2>2. Recovered(c, r).events = Recoverable \cup (IF Interrupts(c, r) THEN {lastSeq + 1} ELSE {})
    BY <1>4, RecoveredCache
  <2>3. Branch \subseteq Recoverable
    BY <2>1 DEF LossInv, Kept, Recoverable, Branch
  <2>4. CASE Interrupts(c, r)
    <3>1. /\ Enqueue(TRUE, FALSE)
          /\ journal' = IF settled THEN [journal EXCEPT !.local_live = FALSE] ELSE journal
      BY <1>4, <2>1, <2>4 DEF RecoverWrites
    <3>2. journal'.base = journal.base
      BY <2>1, <3>1 DEF JournalRow
    <3>3. /\ \A s \in replayable : s \in replayable'
          /\ replayable' \subseteq replayable \cup {lastSeq + 1}
          /\ \A s \in Branch' : s \in Branch \/ (s = lastSeq + 1 /\ s \in replayable')
      BY <1>4, <3>1, EnqueueKept
    <3>4. KeptNext(journal.base)
      BY <2>1, <3>2, <3>3, BatchesKept
    <3> QED
      BY <2>2, <2>3, <2>4, <3>2, <3>3, <3>4
  <2>5. CASE ~Interrupts(c, r)
    <3>1. UNCHANGED <<journal, replayable, content, disowned>>
      BY <1>4, <2>1, <2>5 DEF RecoverWrites, outbox
    <3>2. Branch' = Branch /\ KeptNext(journal.base)
      BY <2>1, <3>1 DEF Branch, LossInv, Kept, KeptNext
    <3> QED
      BY <2>2, <2>3, <3>1, <3>2
  <2> QED
    BY <2>4, <2>5
<1>5. ASSUME opening # NoOpen, ~PrefersCache(c, r), ~Diverges(c, r), NEW settled \in BOOLEAN,
             RecoverWrites(c, r, settled), disowned' = disowned
      PROVE  Branch' = {}
  <2>1. journal = NoRow /\ ~Interrupts(c, r)
    BY <1>5 DEF Diverges, Interrupts
  <2> QED
    BY <1>5, <2>1, NoBranch DEF RecoverWrites, outbox, Branch
<1>6. CASE Recover
  <2>1. /\ opening # NoOpen /\ RecoverWrites(c, r, TRUE) /\ view' = Recovered(c, r) /\ pub' = pub
        /\ disowned' = IF Diverges(c, r) THEN disowned \cup (Recoverable \ c.events) ELSE disowned
        /\ Interrupts(c, r) => lastSeq < MaxSeq
    BY <1>6 DEF Recover
  <2>2. job' = job \/ job'.snapshot = Recovered(c, r)
    <3>1. CASE NeedsPublication(c, r)
      BY <1>6, <3>1 DEF Recover, Schedule
    <3>2. CASE ~NeedsPublication(c, r)
      BY <1>6, <3>2 DEF Recover
    <3> QED
      BY <3>1, <3>2
  <2>3. job = NoJob /\ pub = NoPub
    BY <2>1, OpeningType
  <2>4. Branch' \subseteq Recovered(c, r).events
    BY <1>3, <1>4, <1>5, <2>1 DEF Diverges
  <2>5. journal' # NoRow => KeptNext(journal'.base)
    BY <1>3, <1>4, <1>5, <2>1 DEF Diverges, KeptNext
  <2>6. KeptNext(Recovered(c, r))
    BY <2>4 DEF KeptNext
  <2> QED
    BY <2>1, <2>2, <2>3, <2>4, <2>5, <2>6, LossNext DEF Current
<1>7. CASE CrashInRecovery
  <2>1. /\ opening # NoOpen /\ RecoverWrites(c, r, FALSE) /\ PrefersCache(c, r)
        /\ disowned' = disowned /\ lastSeq < MaxSeq /\ view' = NoView /\ job' = NoJob /\ pub' = NoPub
    BY <1>7 DEF CrashInRecovery, Forget, Interrupts
  <2>2. KeptNext(journal'.base)
    BY <1>4, <2>1
  <2> QED
    BY <2>1, <2>2, LossNext DEF Current
<1> QED
  BY <1>1, <1>2, <1>6, <1>7 DEF Open

LEMMA DeliveryLoss ==
  ASSUME TypeOK, Shape, SnapInv, LossInv, lastSeq \in Nat, Delivery PROVE LossInv'
<1>1. CASE Deliver \/ DeliveryLost
  BY <1>1, LossAside DEF Deliver, DeliveryLost, outbox, web, counters
<1>2. CASE DeliveryAcknowledged
  <2>1. /\ rows' = rows \ {s \in sending : s <= journal.base.checkpoint}
        /\ replayable' = replayable \cap rows'
        /\ UNCHANGED <<journal, content, disowned, view, job, pub>>
    BY <1>2 DEF DeliveryAcknowledged, Acknowledge, web, counters
  <2>2. Branch' = Branch /\ (Current' => Current)
    BY <2>1 DEF Branch, Current
  <2>3. journal # NoRow => \A s \in replayable : s > journal.base.checkpoint => s \in replayable'
    <3> SUFFICES ASSUME journal # NoRow, NEW s \in replayable, s > journal.base.checkpoint
                 PROVE  s \in rows'
      BY <2>1
    <3>1. s \in rows /\ s \in Nat /\ journal.base.checkpoint \in Nat
      BY OutboxBounds DEF TypeOK, OutboxTypeOK, JournalRow, Snapshot
    <3>2. ~(s <= journal.base.checkpoint)
      BY <3>1
    <3> QED
      BY <2>1, <3>1, <3>2
  <2>4. CASE journal # NoRow
    <3>1. \A X : Kept(X) => KeptNext(X)
      BY <2>1, <2>2, <2>3, <2>4 DEF Kept, KeptNext
    <3> QED
      BY <2>1, <2>2, <2>4, <3>1, LossNext DEF LossInv
  <2>5. CASE journal = NoRow
    <3>1. Branch' = {} /\ job' = NoJob /\ pub' = NoPub
      BY <2>1, <2>2, <2>5, NoBranch DEF Branch, Shape
    <3> QED
      BY <3>1, LossNext DEF KeptNext, Current
  <2> QED
    BY <2>4, <2>5
<1> QED
  BY <1>1, <1>2 DEF Delivery

LEMMA PublishLoss ==
  ASSUME TypeOK, Shape, SnapInv, LossInv, lastSeq \in Nat, Publish PROVE LossInv'
<1>0. /\ job # NoJob => job \in Job
      /\ pub # NoPub => pub \in Publication
  BY DEF TypeOK
<1>1. CASE Persist
  <2>1. /\ view # NoView /\ UNCHANGED <<journal, replayable, content, disowned, view, pub>>
        /\ job'.snapshot = view
    BY <1>1 DEF Persist, Schedule, Shape, outbox, host
  <2>2. Branch' = Branch /\ Branch \subseteq view.events /\ (Current' => Current)
    BY <2>1 DEF Branch, LossInv, Current
  <2>3. KeptNext(view) /\ \A X : Kept(X) => KeptNext(X)
    BY <2>1, <2>2 DEF Kept, KeptNext
  <2> QED
    BY <2>1, <2>2, <2>3, LossNext DEF LossInv
<1>2. CASE Commit
  <2>1. /\ job # NoJob /\ ~job.committed /\ journal'.base = job.snapshot
        /\ journal'.pending = job.mutation /\ job' = [job EXCEPT !.committed = TRUE]
        /\ UNCHANGED <<replayable, content, disowned, view, pub>>
    BY <1>2 DEF Commit, CommitPending, host, counters
  <2>2. job'.committed = TRUE
    BY <1>0, <2>1 DEF Job
  <2>3. ~Current'
    BY <2>1 DEF Current, Shape
  <2>4. KeptNext(job.snapshot) /\ Branch' = Branch
    BY <2>1 DEF LossInv, Kept, KeptNext, Branch
  <2> QED
    BY <2>1, <2>2, <2>3, <2>4, LossNext DEF LossInv
<1>3. CASE StartPublish
  <2>1. UNCHANGED <<journal, replayable, content, disowned, view>> /\ job' = NoJob
        /\ pub'.stage = "read"
    BY <1>3 DEF StartPublish, outbox, host, counters
  <2> QED
    BY <2>1, LossAside
<1>4. CASE PublishRead
  <2>1. pub # NoPub /\ UNCHANGED <<journal, replayable, content, disowned, view, job>>
    BY <1>4 DEF PublishRead, outbox, host, counters
  <2>2. CASE journal.pending = pub.mutation
    <3>1. pub' = [pub EXCEPT !.snapshot = journal.base, !.stage = "barrier"]
      BY <1>4, <2>2 DEF PublishRead
    <3>2. pub'.snapshot = journal.base
      BY <1>0, <2>1, <3>1 DEF Publication
    <3>3. Branch' = Branch /\ \A X : Kept(X) => KeptNext(X)
      BY <2>1 DEF Branch, Kept, KeptNext
    <3>4. journal # NoRow
      BY <2>1 DEF Shape
    <3> QED
      BY <2>1, <3>2, <3>3, <3>4, LossNext DEF LossInv
  <2>3. CASE journal.pending # pub.mutation
    <3>1. pub' = NoPub
      BY <1>4, <2>3 DEF PublishRead
    <3> QED
      BY <2>1, <3>1, LossAside
  <2> QED
    BY <2>2, <2>3
<1>5. CASE BarrierTimeout \/ PutLost
  <2>1. /\ UNCHANGED <<journal, replayable, content, disowned, view>> /\ pub' = NoPub
        /\ job' = job \/ job'.committed = TRUE
    BY <1>5 DEF BarrierTimeout, PutLost, Requeue, outbox, host, counters
  <2> QED
    BY <2>1, LossAside
<1>6. CASE PassBarrier \/ Put
  <2>1. /\ pub # NoPub /\ pub.stage \in {"barrier", "put"}
        /\ UNCHANGED <<journal, replayable, content, disowned, view, job>>
        /\ \/ pub' = [pub EXCEPT !.stage = "put"] \/ pub' = [pub EXCEPT !.stage = "conflict"]
           \/ \E stored : pub' = [pub EXCEPT !.stage = "stored", !.stored = stored]
    BY <1>6 DEF PassBarrier, Put, outbox, host, counters
  <2>2. pub'.snapshot = pub.snapshot /\ pub'.mutation = pub.mutation /\ pub' # NoPub
    <3>1. /\ pub'.snapshot = pub.snapshot /\ pub'.mutation = pub.mutation
          /\ "stage" \in DOMAIN pub'
      BY <1>0, <2>1 DEF Publication
    <3> QED
      BY <3>1 DEF NoPub
  <2> QED
    BY <2>1, <2>2, LossAside
<1>7. CASE PublishStored
  <2>1. /\ pub # NoPub /\ pub.stage = "stored" /\ pub' = NoPub /\ UNCHANGED <<view, job, disowned>>
        /\ AcknowledgePublication(pub.snapshot, pub.stored, pub.mutation) /\ journal # NoRow
    BY <1>7 DEF PublishStored, Shape, host, counters
  <2>2. CASE journal.pending # pub.mutation
    <3>1. UNCHANGED outbox
      BY <2>1, <2>2 DEF AcknowledgePublication
    <3> QED
      BY <2>1, <3>1, LossAside DEF outbox
  <2>3. CASE journal.pending = pub.mutation
    <3>1. /\ journal'.base = pub.snapshot
          /\ rows' = {s \in rows : s \in unacked \/ s > pub.snapshot.checkpoint}
          /\ replayable' = replayable \cap rows' /\ content' = content
      BY <2>1, <2>3 DEF AcknowledgePublication
    <3>2. /\ Current /\ Branch' = Branch /\ Kept(pub.snapshot)
          /\ \A s \in replayable : s > journal.base.checkpoint => s > pub.snapshot.checkpoint
      BY <2>1, <2>3, <3>1 DEF Current, Branch, LossInv
    <3>3. \A s \in replayable : s > pub.snapshot.checkpoint => s \in replayable'
      BY <3>1 DEF TypeOK, OutboxTypeOK
    <3>4. KeptNext(pub.snapshot)
      BY <3>1, <3>2, <3>3 DEF Kept, KeptNext
    <3>5. \A X : Kept(X) => KeptNext(X)
      BY <3>1, <3>2, <3>3 DEF Kept, KeptNext
    <3>6. ~Current'
      BY <2>1 DEF Current
    <3> QED
      BY <2>1, <3>1, <3>2, <3>4, <3>5, <3>6, LossNext DEF LossInv
  <2> QED
    BY <2>2, <2>3
<1>8. CASE PublishConflict
  <2>1. /\ UNCHANGED <<journal, content>> /\ view' = NoView /\ job' = NoJob /\ pub' = NoPub
        /\ disowned' = disowned \cup {s \in replayable \cap content : s > journal.base.checkpoint}
        /\ journal # NoRow
    BY <1>8 DEF PublishConflict, Quarantine, Shape
  <2>2. KeptNext(journal.base)
    BY <2>1 DEF LossInv, Kept, KeptNext, Branch
  <2> QED
    BY <2>1, <2>2, LossNext DEF Current
<1> QED
  BY <1>1, <1>2, <1>3, <1>4, <1>5, <1>6, <1>7, <1>8 DEF Publish

LEMMA LossStep == JournalInv /\ LossInv /\ [Next]_vars => LossInv'
<1> SUFFICES ASSUME JournalInv, LossInv, [Next]_vars PROVE LossInv'
  OBVIOUS
<1>1. TypeOK /\ Shape /\ SnapInv /\ lastSeq \in Nat
  BY DEF JournalInv, LogInv
<1>2. CASE ForeignEdit \/ ListConversations
  BY <1>2, LossAside DEF ForeignEdit, ListConversations, outbox, host, web
<1>3. CASE UNCHANGED vars
  BY <1>3, LossAside DEF vars, outbox, host, web, counters
<1> QED
  BY <1>1, <1>2, <1>3, SessionLoss, OpenLoss, DeliveryLoss, PublishLoss DEF Next, Environment

\* For every bound on appends, mutations, edits of another device, crashes and
\* refreshes: recovery shows every visible batch that was accepted, unless this
\* device gave up its branch at a conflict (recover_sync, commit_pending_snapshot,
\* acknowledge_many_sync, acknowledge_snapshot_publication).
THEOREM BranchSurvives == Spec => []NoLocalLoss
<1>1. Init => JournalInv /\ LossInv
  BY JournalInit, LogInit, HeadInit DEF JournalInv, Init, OutboxInit, LossInv, Current
<1>2. JournalInv /\ LossInv /\ [Next]_vars => (JournalInv /\ LossInv)'
  BY TypeStep, LogStep, SnapStep, HeadStep, LossStep DEF JournalInv
<1>3. JournalInv /\ LossInv => NoLocalLoss
  <2> SUFFICES ASSUME JournalInv, LossInv PROVE NoLocalLoss
    OBVIOUS
  <2>1. CASE journal = NoRow
    BY <2>1, NoBranch DEF JournalInv, NoLocalLoss
  <2>2. CASE journal # NoRow
    BY <2>2 DEF LossInv, Kept, Branch, Recoverable, NoLocalLoss
  <2> QED
    BY <2>1, <2>2
<1> QED
  BY <1>1, <1>2, <1>3, PTL DEF Spec
=============================================================================
