---------------------- MODULE MultiRepoCoordinator_proofs ----------------------
(***************************************************************************)
(* A writer works on what its dependencies delivered, what passed is what  *)
(* was reviewed and integrated, the budget holds the reservations of the   *)
(* tasks that run, and a run is applied whole or not at all, for any       *)
(* finite plan, any patches, any budget and any repositories.              *)
(*                                                                         *)
(* The invariants say which tasks may be busy in which phase and which     *)
(* packages are there, what is reserved, and how far an application or a   *)
(* rollback has come.  Held is a fold over a set: that a task adds its     *)
(* reservation to it, in whatever order the elements are chosen, is shown  *)
(* by induction over the subsets of a finite set.                          *)
(***************************************************************************)
EXTENDS CodingResolution, FiniteSetTheorems, WellFoundedInduction, TLAPS

\* Which tasks are busy in which phase, and which of them are kept in `retry`.
InPhase ==
    /\ phase \in {"planning", "done"} => Busy = {}
    /\ phase = "planning" => retry = <<>>
    /\ phase \in {"reading", "rereading"} => Busy \cup ToSet(retry) \subseteq Readers
    /\ phase \in {"writing", "rewriting"} => Busy \cup ToSet(retry) \subseteq begun
    /\ phase = "rework" => Busy \cup ToSet(retry) \subseteq Writers
    /\ phase = "review" => Busy \subseteq {Reviewer}
    /\ phase = "integration" => Busy \subseteq {Integrator}

\* What is repeated is repeated alone, and is the first of `retry`.
OneByOne ==
    phase \in {"rereading", "rewriting", "rework"} =>
        Busy = {} \/ (retry # <<>> /\ Busy \subseteq {Head(retry)})

\* No reader is forgotten.
Gathered ==
    /\ phase \in {"planning", "reading", "rereading"} => begun = {}
    /\ phase \in {"reading", "rereading"} => Readers \subseteq reports \cup Busy \cup ToSet(retry)
    /\ phase \in {"writing", "rewriting", "review", "rework", "integration"} => reports = Readers

\* No writer that has begun is forgotten, and none has begun too early.
Packed ==
    /\ \A w \in begun : \A d \in deps[w] : packages[d] # NoPatch
    /\ phase \in {"writing", "rewriting"} =>
          \A w \in begun : packages[w] = NoPatch => w \in Busy \cup ToSet(retry)
    /\ phase \in {"review", "rework", "integration"} =>
          begun = Writers /\ \A w \in Writers : packages[w] # NoPatch

Judged == phase = "integration" /\ reviewed => verdict = packages

InParallel == Cardinality(Writers \cap Busy) <= MaxParallel

IInv == /\ TypeOK /\ ValidPlan /\ InPhase /\ OneByOne /\ Gathered /\ Packed /\ Judged
        /\ InParallel /\ IntegratedAsReviewed
-----------------------------------------------------------------------------
(* Sequences and sets                                                      *)

LEMMA TailElements ==
    ASSUME NEW S, NEW s \in Seq(S), s # <<>>
    PROVE  /\ Head(s) \in S /\ Tail(s) \in Seq(S)
           /\ ToSet(s) = {Head(s)} \cup ToSet(Tail(s))
<1>1. Head(s) \in S /\ Tail(s) \in Seq(S)
    OBVIOUS
<1>2. ToSet(Tail(s)) \subseteq ToSet(s) /\ Head(s) \in ToSet(s)
    BY DEF ToSet
<1>3. ASSUME NEW i \in DOMAIN s, i # 1
      PROVE  s[i] \in ToSet(Tail(s))
    <2>1. i - 1 \in DOMAIN Tail(s) /\ Tail(s)[i - 1] = s[i]
        BY <1>3
    <2> QED  BY <2>1 DEF ToSet
<1>4. ToSet(s) \subseteq {Head(s)} \cup ToSet(Tail(s))
    BY <1>3 DEF ToSet
<1> QED  BY <1>1, <1>2, <1>4

LEMMA AppendElements ==
    ASSUME NEW S, NEW s \in Seq(S), NEW e \in S
    PROVE  /\ Append(s, e) \in Seq(S) /\ Append(s, e) # <<>>
           /\ ToSet(Append(s, e)) = ToSet(s) \cup {e}
<1>1. Append(s, e) \in Seq(S) /\ DOMAIN Append(s, e) = 1..(Len(s) + 1)
    OBVIOUS
<1>2. \A i \in 1..Len(s) : Append(s, e)[i] = s[i]
    OBVIOUS
<1>3. Append(s, e)[Len(s) + 1] = e /\ Len(s) \in Nat /\ DOMAIN s = 1..Len(s)
    OBVIOUS
<1>4. ToSet(Append(s, e)) \subseteq ToSet(s) \cup {e}
    BY <1>1, <1>2, <1>3 DEF ToSet
<1>5. ToSet(s) \cup {e} \subseteq ToSet(Append(s, e))
    BY <1>1, <1>2, <1>3 DEF ToSet
<1> QED  BY <1>1, <1>4, <1>5

LEMMA NoElements == ToSet(<<>>) = {}
    BY DEF ToSet

\* A set that is put in an order is a sequence of its elements.
LEMMA OrderedTyped ==
    ASSUME NEW S, IsFiniteSet(S)
    PROVE  SetToSeq(S) \in Seq(S)
<1>1. Cardinality(S) \in Nat /\ ExistsBijection(1..Cardinality(S), S)
    BY FS_CardinalityType
<1>2. PICK f \in [1..Cardinality(S) -> S] : IsInjective(f)
    <2>1. PICK g \in Bijection(1..Cardinality(S), S) : TRUE
        BY <1>1 DEF ExistsBijection
    <2>2. g \in [1..Cardinality(S) -> S] /\ IsInjective(g)
        BY <2>1 DEF Bijection, Injection, Surjection, IsInjective
    <2> QED  BY <2>2
<1>3. SetToSeq(S) \in [1..Cardinality(S) -> S]
    BY <1>2 DEF SetToSeq
<1> QED  BY <1>1, <1>3

LEMMA FewerInParallel ==
    ASSUME NEW A \in SUBSET Writers, NEW B \in SUBSET A, Cardinality(A) <= MaxParallel
    PROVE  Cardinality(B) <= MaxParallel
<1>1. IsFiniteSet(A)
    BY FS_Subset, CoordinatorAssumption
<1>2. IsFiniteSet(B) /\ Cardinality(B) <= Cardinality(A)
    BY <1>1, FS_Subset
<1> QED  BY <1>1, <1>2, FS_CardinalityType, CoordinatorAssumption

LEMMA OneInParallel ==
    ASSUME NEW t, NEW B \in SUBSET {t}
    PROVE  Cardinality(B) <= MaxParallel
<1>1. B = {} \/ B = {t}
    OBVIOUS
<1>2. Cardinality(B) \in {0, 1}
    BY <1>1, FS_EmptySet, FS_Singleton
<1> QED  BY <1>2, CoordinatorAssumption

-----------------------------------------------------------------------------
(* Sums of reservations                                                    *)

\* Induction over the subsets of a finite set; what holds of them is given as a set.
LEMMA SubsetInduction ==
    ASSUME NEW A, IsFiniteSet(A), NEW Good,
           \A s \in SUBSET A : (\A z \in (SUBSET s) \ {s} : z \in Good) => s \in Good
    PROVE  SUBSET A \subseteq Good
<1> DEFINE Smaller == StrictSubsetOrdering(A)
           Bad == (SUBSET A) \ Good
<1>1. IsWellFoundedOn(Smaller, SUBSET A)
    <2>1. IsWellFoundedOn(Smaller, FiniteSubsetsOf(A))
        BY FS_StrictSubsetOrderingWellFounded
    <2>2. FiniteSubsetsOf(A) = SUBSET A
        BY FS_FiniteSubsetsOfFinite
    <2> QED  BY <2>1, <2>2
<1>2. Bad \subseteq SUBSET A
    OBVIOUS
<1>3. CASE Bad # {}
    <2>1. \E s \in Bad : \A z \in Bad : <<z, s>> \notin Smaller
        <3> HIDE DEF Bad, Smaller
        <3> QED  BY <1>1, <1>2, <1>3, WFMin
    <2>2. PICK s \in Bad : \A z \in Bad : <<z, s>> \notin Smaller
        BY <2>1
    <2>3. \A z \in (SUBSET s) \ {s} : z \in Good
        BY <2>2 DEF StrictSubsetOrdering
    <2> QED  BY <2>2, <2>3
<1> QED  BY <1>3

\* The function that a sum of reservations is taken from: in TLA+ a recursive
\* function is any that solves its equation, if there is one.
IsSum(f, A) ==
    f = [s \in SUBSET A |-> IF s = {} THEN 0
            ELSE Reservation[CHOOSE x \in s : TRUE] + f[s \ {CHOOSE x \in s : TRUE}]]

First(s) == CHOOSE x \in s : TRUE

LEMMA HeldDef == ASSUME NEW A PROVE Held(A) = (CHOOSE f : IsSum(f, A))[A]
    BY DEF Held, MapThenSumSet, MapThenFoldSet, IsSum

LEMMA SumStep ==
    ASSUME NEW A, NEW f, IsSum(f, A), NEW s \in SUBSET A
    PROVE  /\ s = {} => f[s] = 0
           /\ s # {} => f[s] = Reservation[First(s)] + f[s \ {First(s)}]
    BY DEF IsSum, First

LEMMA FirstIn == ASSUME NEW s, s # {} PROVE First(s) \in s
    BY DEF First

\* Two sums agree where both are defined.
LEMMA SumsAgree ==
    ASSUME NEW A, IsFiniteSet(A), NEW B, A \subseteq B, NEW f, IsSum(f, A), NEW g, IsSum(g, B)
    PROVE  \A s \in SUBSET A : f[s] = g[s]
<1> DEFINE Good == {s \in SUBSET A : f[s] = g[s]}
<1>1. ASSUME NEW s \in SUBSET A, \A z \in (SUBSET s) \ {s} : z \in Good
      PROVE  f[s] = g[s]
    <2>1. s \in SUBSET B
        OBVIOUS
    <2>2. CASE s = {}
        BY <2>1, <2>2, SumStep
    <2>3. CASE s # {}
        <3>1. s \ {First(s)} \in (SUBSET s) \ {s}
            BY <2>3, FirstIn
        <3>2. f[s \ {First(s)}] = g[s \ {First(s)}]
            BY <3>1, <1>1
        <3> QED  BY <2>1, <2>3, <3>2, SumStep
    <2> QED  BY <2>2, <2>3
<1>2. \A s \in SUBSET A : (\A z \in (SUBSET s) \ {s} : z \in Good) => s \in Good
    BY <1>1
<1> HIDE DEF Good
<1>3. SUBSET A \subseteq Good
    BY <1>2, SubsetInduction
<1> QED  BY <1>3 DEF Good

\* There is one: for a set it is put together from those of its subsets.
LEMMA SumExists ==
    ASSUME NEW A, IsFiniteSet(A)
    PROVE  \E f : IsSum(f, A)
<1> DEFINE Good == {s \in SUBSET A : \E f : IsSum(f, s)}
<1>1. ASSUME NEW s \in SUBSET A, \A z \in (SUBSET s) \ {s} : z \in Good
      PROVE  \E f : IsSum(f, s)
    <2> DEFINE H(z) == (CHOOSE f : IsSum(f, z))[z]
               Val(z) == IF z = {} THEN 0 ELSE Reservation[First(z)] + H(z \ {First(z)})
               g == [z \in SUBSET s |-> Val(z)]
    <2>1. ASSUME NEW z \in (SUBSET s) \ {s} PROVE H(z) = Val(z)
        <3> DEFINE F == CHOOSE f : IsSum(f, z)
        <3>1. IsSum(F, z)
            BY <2>1, <1>1
        <3>2. CASE z = {}
            BY <3>1, <3>2, SumStep
        <3>3. CASE z # {}
            <4> DEFINE y == z \ {First(z)}
                       G == CHOOSE f : IsSum(f, y)
            <4>1. y \subseteq z /\ y \in (SUBSET s) \ {s}
                BY <3>3, FirstIn, <2>1
            <4>2. IsSum(G, y)
                BY <4>1, <1>1
            <4>3. IsFiniteSet(y)
                BY <4>1, FS_Subset
            <4> HIDE DEF F, G
            <4>4. F[y] = G[y]
                BY <4>1, <4>2, <4>3, <3>1, SumsAgree
            <4>5. F[z] = Reservation[First(z)] + F[y]
                BY <3>1, <3>3, SumStep
            <4> QED  BY <4>4, <4>5, <3>3 DEF F, G
        <3> QED  BY <3>2, <3>3
    <2>2. ASSUME NEW z \in SUBSET s, z # {}
          PROVE  g[z] = Reservation[First(z)] + g[z \ {First(z)}]
        <3>1. z \ {First(z)} \in (SUBSET s) \ {s}
            BY <2>2, FirstIn
        <3>2. g[z \ {First(z)}] = H(z \ {First(z)})
            BY <3>1, <2>1
        <3> QED  BY <2>2, <3>2
    <2>3. g[{}] = 0
        OBVIOUS
    <2>4. IsSum(g, s)
        <3> DEFINE k == [z \in SUBSET s |-> IF z = {} THEN 0
                            ELSE Reservation[First(z)] + g[z \ {First(z)}]]
        <3>1. \A z \in SUBSET s : g[z] = k[z]
            BY <2>2, <2>3
        <3>2. g = k
            <4>1. g = [z \in SUBSET s |-> g[z]]
                OBVIOUS
            <4>2. k = [z \in SUBSET s |-> k[z]]
                OBVIOUS
            <4> HIDE DEF g, k
            <4> QED  BY <3>1, <4>1, <4>2
        <3> HIDE DEF g
        <3> QED  BY <3>2 DEF IsSum, First
    <2> HIDE DEF g
    <2> QED  BY <2>4
<1>2. \A s \in SUBSET A : (\A z \in (SUBSET s) \ {s} : z \in Good) => s \in Good
    BY <1>1
<1> HIDE DEF Good
<1>3. SUBSET A \subseteq Good
    BY <1>2, SubsetInduction
<1> QED  BY <1>3 DEF Good

LEMMA HeldNone == Held({}) = 0
<1> DEFINE F == CHOOSE f : IsSum(f, {})
<1>1. IsSum(F, {})
    BY FS_EmptySet, SumExists
<1>2. F[{}] = 0
    BY <1>1, SumStep
<1> QED  BY <1>2, HeldDef

LEMMA HeldFirst ==
    ASSUME NEW A, IsFiniteSet(A), A # {}
    PROVE  Held(A) = Reservation[First(A)] + Held(A \ {First(A)})
<1> DEFINE B == A \ {First(A)}
           F == CHOOSE f : IsSum(f, A)
           G == CHOOSE f : IsSum(f, B)
<1>1. B \subseteq A /\ IsFiniteSet(B)
    BY FS_Subset
<1>2. IsSum(F, A) /\ IsSum(G, B)
    BY <1>1, SumExists
<1>3. Held(A) = F[A] /\ Held(B) = G[B]
    BY HeldDef
<1> HIDE DEF F, G
<1>4. F[B] = G[B]
    BY <1>1, <1>2, SumsAgree
<1>5. F[A] = Reservation[First(A)] + F[B]
    BY <1>2, SumStep
<1> QED  BY <1>3, <1>4, <1>5

LEMMA HeldTyped ==
    ASSUME NEW A \in SUBSET Tasks, IsFiniteSet(A)
    PROVE  Held(A) \in Nat
<1> DEFINE Good == {s \in SUBSET A : Held(s) \in Nat}
<1>1. ASSUME NEW s \in SUBSET A, \A z \in (SUBSET s) \ {s} : z \in Good
      PROVE  Held(s) \in Nat
    <2>1. CASE s = {}
        BY <2>1, HeldNone
    <2>2. CASE s # {}
        <3>1. First(s) \in s /\ IsFiniteSet(s)
            BY <2>2, FirstIn, FS_Subset
        <3>2. Held(s) = Reservation[First(s)] + Held(s \ {First(s)})
            BY <2>2, <3>1, HeldFirst
        <3>3. Held(s \ {First(s)}) \in Nat
            BY <3>1, <1>1
        <3>4. Reservation[First(s)] \in Nat
            BY <3>1, CoordinatorAssumption
        <3> QED  BY <3>2, <3>3, <3>4
    <2> QED  BY <2>1, <2>2
<1>2. \A s \in SUBSET A : (\A z \in (SUBSET s) \ {s} : z \in Good) => s \in Good
    BY <1>1
<1> HIDE DEF Good
<1>3. SUBSET A \subseteq Good
    BY <1>2, SubsetInduction
<1> QED  BY <1>3 DEF Good

\* Whatever the order the sum is taken in, a task adds its reservation to it.
LEMMA HeldWithout ==
    ASSUME NEW A \in SUBSET Tasks, IsFiniteSet(A), NEW t \in A
    PROVE  Held(A) = Reservation[t] + Held(A \ {t})
<1> DEFINE Good == {s \in SUBSET A : \A x \in s : Held(s) = Reservation[x] + Held(s \ {x})}
<1>1. ASSUME NEW s \in SUBSET A, \A z \in (SUBSET s) \ {s} : z \in Good, NEW x \in s
      PROVE  Held(s) = Reservation[x] + Held(s \ {x})
    <2> DEFINE c == First(s)
    <2>1. c \in s /\ IsFiniteSet(s)
        BY FirstIn, FS_Subset
    <2>2. Held(s) = Reservation[c] + Held(s \ {c})
        BY <2>1, HeldFirst
    <2> HIDE DEF c
    <2>3. CASE x # c
        <3>1. s \ {c} \in Good /\ s \ {x} \in Good
            BY <2>1, <1>1
        <3>2. (s \ {c}) \ {x} = (s \ {x}) \ {c} /\ x \in s \ {c} /\ c \in s \ {x}
            BY <2>3, <2>1
        <3>3. Held(s \ {c}) = Reservation[x] + Held((s \ {x}) \ {c})
            BY <3>1, <3>2
        <3>4. Held(s \ {x}) = Reservation[c] + Held((s \ {x}) \ {c})
            BY <3>1, <3>2
        <3>5. IsFiniteSet((s \ {x}) \ {c})
            BY <2>1, FS_Subset
        <3>6. Held((s \ {x}) \ {c}) \in Nat
            BY <3>5, HeldTyped
        <3>7. Reservation[x] \in Nat /\ Reservation[c] \in Nat
            BY <2>1, CoordinatorAssumption
        <3> QED  BY <2>2, <3>3, <3>4, <3>6, <3>7
    <2> QED  BY <2>2, <2>3
<1>2. \A s \in SUBSET A : (\A z \in (SUBSET s) \ {s} : z \in Good) => s \in Good
    BY <1>1
<1> HIDE DEF Good
<1>3. SUBSET A \subseteq Good
    BY <1>2, SubsetInduction
<1> QED  BY <1>3 DEF Good

-----------------------------------------------------------------------------
(* The invariant                                                           *)

LEMMA Distinct ==
    /\ Readers \cap Writers = {}
    /\ \A t \in Readers \cup Writers : t # Reviewer /\ t # Integrator
    /\ Reviewer # Integrator
    BY CoordinatorAssumption DEF Reviewer, Integrator

LEMMA InvInit == Init => IInv
<1> SUFFICES ASSUME Init PROVE IInv
    OBVIOUS
<1>1. Busy = {}
    BY DEF Init, Busy
<1>2. TypeOK
    <2>1. Nothing \in [Writers -> Patches \cup {NoPatch}]
        BY DEF Nothing
    <2>2. work \in [Tasks -> {"idle", "queued", "running"}]
        BY DEF Init
    <2>3. retry \in Seq(Readers \cup Writers)
        BY DEF Init
    <2> QED  BY <2>1, <2>2, <2>3 DEF Init, TypeOK
<1>3. InParallel
    BY <1>1, OneInParallel DEF InParallel
<1>4. IntegratedAsReviewed
    BY DEF Init, IntegratedAsReviewed
<1> QED
    BY <1>1, <1>2, <1>3, <1>4
    DEF Init, IInv, InPhase, OneByOne, Gathered, Packed, Judged

\* run() returns: nothing is busy, and only what passed has to be shown.
LEMMA ReturnKeeps ==
    ASSUME IInv, NEW how \in {"declined", "failed", "error", "passed"}, Return(how),
           UNCHANGED <<plan, reports, packages, verdict>>,
           applied' \in [Writers -> Patches \cup {NoPatch}], cancelled' \in BOOLEAN,
           IntegratedAsReviewed'
    PROVE  IInv'
<1> USE DEF plan
<1>1. Busy' = {}
    BY DEF Return, Busy
<1>2. TypeOK'
    BY DEF IInv, TypeOK, Return
<1>3. ValidPlan'
    BY DEF IInv, ValidPlan, Before
<1>4. InParallel'
    BY <1>1, OneInParallel DEF InParallel
<1>5. phase' = "done" /\ begun' = begun
    BY DEF Return
<1>6. Packed'
    BY <1>5 DEF IInv, Packed
<1> QED
    BY <1>1, <1>2, <1>3, <1>4, <1>5, <1>6
    DEF IInv, InPhase, OneByOne, Gathered, Judged

\* Where a task that is busy can be.
LEMMA BusyPlace ==
    ASSUME IInv, NEW t \in Busy
    PROVE  /\ t \in Readers => phase \in {"reading", "rereading"}
           /\ t \in Writers => phase \in {"writing", "rewriting", "rework"}
           /\ t = Reviewer => phase = "review"
           /\ t = Integrator => phase = "integration"
           /\ t \in Tasks
    BY Distinct DEF IInv, InPhase, TypeOK, Busy, Tasks

\* A task that fails is kept for another attempt, or the run has failed.
LEMMA FailedKeeps ==
    ASSUME IInv, NEW t \in Busy, Failed(t), UNCHANGED <<plan, output, cancelled>>
    PROVE  IInv'
<1> USE DEF plan, output
<1>1. CASE Return("failed")
    <2>1. result' = "failed"
        BY <1>1 DEF Return
    <2>2. IntegratedAsReviewed'
        BY <2>1 DEF IntegratedAsReviewed
    <2> QED  BY <1>1, <2>2, ReturnKeeps DEF IInv, TypeOK
<1>2. CASE /\ phase \in {"reading", "writing"} /\ Idle(t)
           /\ retry' = Append(retry, t) /\ UNCHANGED <<phase, begun, result>>
    <2>1. t \in Readers \cup Writers
        BY <1>2 DEF IInv, InPhase, TypeOK
    <2>2. retry' \in Seq(Readers \cup Writers) /\ ToSet(retry') = ToSet(retry) \cup {t}
        BY <1>2, <2>1, AppendElements DEF IInv, TypeOK
    <2>3. Busy' = Busy \ {t}
        BY <1>2 DEF Busy, Idle, IInv, TypeOK
    <2>4. TypeOK' /\ ValidPlan'
        <3>1. TypeOK'
            BY <1>2, <2>2 DEF IInv, TypeOK, Idle
        <3>2. ValidPlan'
            BY DEF IInv, ValidPlan, Before
        <3> QED  BY <3>1, <3>2
    <2>5. InPhase' /\ OneByOne' /\ Gathered'
        BY <1>2, <2>2, <2>3 DEF IInv, InPhase, OneByOne, Gathered
    <2>6. Packed' /\ Judged' /\ IntegratedAsReviewed'
        BY <1>2, <2>2, <2>3 DEF IInv, Packed, Judged, IntegratedAsReviewed
    <2>7. InParallel'
        BY <2>3, FewerInParallel DEF IInv, InParallel
    <2> QED  BY <2>4, <2>5, <2>6, <2>7 DEF IInv
<1>3. CASE /\ phase \in {"rereading", "rewriting"} /\ Idle(t)
           /\ UNCHANGED <<phase, retry, begun, result>>
    <2>1. Busy' = Busy \ {t}
        BY <1>3 DEF Busy, Idle, IInv, TypeOK
    <2>2. retry # <<>> /\ t = Head(retry) /\ t \in ToSet(retry)
        BY <1>3, TailElements DEF IInv, OneByOne, TypeOK
    <2>3. TypeOK' /\ ValidPlan'
        <3>1. TypeOK'
            BY <1>3 DEF IInv, TypeOK, Idle
        <3>2. ValidPlan'
            BY DEF IInv, ValidPlan, Before
        <3> QED  BY <3>1, <3>2
    <2>4. InPhase' /\ OneByOne' /\ Gathered'
        BY <1>3, <2>1, <2>2 DEF IInv, InPhase, OneByOne, Gathered
    <2>5. Packed' /\ Judged' /\ IntegratedAsReviewed'
        BY <1>3, <2>1, <2>2 DEF IInv, Packed, Judged, IntegratedAsReviewed
    <2>6. InParallel'
        BY <2>1, FewerInParallel DEF IInv, InParallel
    <2> QED  BY <2>3, <2>4, <2>5, <2>6 DEF IInv
<1> QED  BY <1>1, <1>2, <1>3 DEF Failed

LEMMA BeginKeeps ==
    ASSUME IInv, NEW t \in Tasks, Begin(t)
    PROVE  IInv'
<1>1. t \in Busy
    BY DEF Begin, Busy
<1>2. CASE Failed(t)
    BY <1>1, <1>2, FailedKeeps DEF Begin
<1>3. CASE work' = [work EXCEPT ![t] = "running"] /\ UNCHANGED <<phase, retry, begun, result>>
    <2>1. Busy' = Busy
        BY <1>1, <1>3 DEF Busy, IInv, TypeOK
    <2>2. UNCHANGED <<plan, output, cancelled>>
        BY DEF Begin
    <2>3. TypeOK' /\ ValidPlan'
        BY <1>3, <2>2 DEF IInv, TypeOK, ValidPlan, Before, plan, output
    <2> QED
        BY <1>3, <2>1, <2>2, <2>3
        DEF IInv, InPhase, OneByOne, Gathered, Packed, Judged, InParallel,
            IntegratedAsReviewed, plan, output
<1> QED  BY <1>2, <1>3 DEF Begin

-----------------------------------------------------------------------------
(* The phases                                                              *)

LEMMA PlanKeeps == ASSUME IInv, Plan PROVE IInv'
<1> USE DEF plan, output
<1>1. CASE Return("declined")
    <2>1. IntegratedAsReviewed'
        BY <1>1 DEF Return, IntegratedAsReviewed
    <2> QED  BY <1>1, <2>1, ReturnKeeps DEF Plan, IInv, TypeOK
<1>2. CASE phase' = "reading" /\ Queue(Readers) /\ UNCHANGED <<retry, begun, result>>
    <2>1. Busy' = Readers
        BY <1>2 DEF Plan, IInv, InPhase, Busy, Queue, Tasks
    <2>2. TypeOK'
        BY <1>2 DEF Plan, IInv, TypeOK, Queue
    <2>3. ValidPlan'
        BY DEF Plan, IInv, ValidPlan, Before
    <2>4. ToSet(retry) \subseteq Readers
        BY NoElements DEF Plan, IInv, InPhase
    <2>5. Writers \cap Busy' = {}
        BY <2>1, Distinct
    <2>6. InParallel'
        BY <2>5, OneInParallel DEF InParallel
    <2> QED
        BY <1>2, <2>1, <2>2, <2>3, <2>4, <2>6
        DEF Plan, IInv, InPhase, OneByOne, Gathered, Packed, Judged, IntegratedAsReviewed
<1> QED  BY <1>1, <1>2 DEF Plan

LEMMA CollectedKeeps == ASSUME IInv, Collected PROVE IInv'
<1> USE DEF plan, output
<1>1. Busy' = Busy
    BY DEF Collected, Busy
<1>2. TypeOK'
    BY DEF Collected, IInv, TypeOK
<1>3. ValidPlan'
    BY DEF Collected, IInv, ValidPlan, Before
<1>4. phase' \in {"rereading", "rewriting"} /\ (phase = "reading") = (phase' = "rereading")
    BY DEF Collected
<1> QED
    BY <1>1, <1>2, <1>3, <1>4
    DEF Collected, IInv, InPhase, OneByOne, Gathered, Packed, Judged, InParallel,
        IntegratedAsReviewed

\* The first of `retry` is queued while nothing else is busy.
LEMMA RepeatKeeps ==
    ASSUME IInv, phase \in {"rereading", "rewriting", "rework"}, Busy = {}, retry # <<>>,
           Queue({Head(retry)}), UNCHANGED <<phase, retry, begun, result, plan, output, cancelled>>
    PROVE  IInv'
<1> USE DEF plan, output
<1>1. Head(retry) \in Readers \cup Writers /\ Head(retry) \in ToSet(retry)
    BY TailElements DEF IInv, TypeOK
<1>2. Busy' = {Head(retry)}
    BY <1>1 DEF Busy, Queue, Tasks
<1>3. TypeOK'
    BY DEF IInv, TypeOK, Queue
<1>4. ValidPlan'
    BY DEF IInv, ValidPlan, Before
<1>5. InParallel'
    BY <1>2, OneInParallel DEF InParallel
<1> QED
    BY <1>1, <1>2, <1>3, <1>4, <1>5
    DEF IInv, InPhase, OneByOne, Gathered, Packed, Judged, IntegratedAsReviewed

LEMMA RecoverKeeps == ASSUME IInv, Recover PROVE IInv'
<1>1. CASE Return("failed")
    <2>1. IntegratedAsReviewed'
        BY <1>1 DEF Return, IntegratedAsReviewed
    <2> QED  BY <1>1, <2>1, ReturnKeeps DEF Recover, IInv, TypeOK, output
<1>2. CASE Queue({Head(retry)}) /\ UNCHANGED <<phase, retry, begun, result>>
    BY <1>2, RepeatKeeps DEF Recover
<1> QED  BY <1>1, <1>2 DEF Recover

\* When nothing is left to recover, every writer that has begun has delivered.
LEMMA AllDelivered ==
    ASSUME IInv, Recovered
    PROVE  reports = Readers /\ \A w \in begun : packages[w] # NoPatch
<1>1. ToSet(retry) = {} /\ Busy = {}
    BY NoElements DEF Recovered
<1> QED  BY <1>1 DEF IInv, Recovered, Gathered, Packed, TypeOK

LEMMA NextBatchKeeps == ASSUME IInv, NextBatch PROVE IInv'
<1> USE DEF plan, output
<1>1. PICK i \in Layers, batch \in SUBSET (Writers \ begun) :
          /\ OpenLayer(i) /\ batch \subseteq layers[i]
          /\ Cardinality(batch) = IF Cardinality(layers[i] \ begun) < MaxParallel
                                  THEN Cardinality(layers[i] \ begun) ELSE MaxParallel
          /\ begun' = begun \cup batch /\ Queue(batch)
    BY DEF NextBatch
<1>2. Busy' = batch
    BY <1>1 DEF NextBatch, Recovered, Busy, Queue, Tasks
<1>3. Cardinality(batch) <= MaxParallel
    <2>1. IsFiniteSet(layers[i] \ begun)
        BY FS_Subset, CoordinatorAssumption DEF IInv, TypeOK
    <2> QED  BY <1>1, <2>1, FS_CardinalityType, CoordinatorAssumption
<1>4. InParallel'
    <2>1. Writers \cap Busy' = batch
        BY <1>2
    <2> QED  BY <1>3, <2>1 DEF InParallel
<1>5. \A w \in batch : deps[w] \subseteq begun
    <2>1. Before(i) \subseteq begun
        BY <1>1 DEF OpenLayer, Before
    <2>2. \A w \in batch : deps[w] \subseteq Before(i)
        BY <1>1 DEF IInv, ValidPlan
    <2> QED  BY <2>1, <2>2
<1>6. ToSet(retry) = {} /\ retry' = retry /\ phase' = "writing"
    BY NoElements DEF NextBatch, Recovered
<1>7. TypeOK'
    BY <1>1, <1>6 DEF NextBatch, Recovered, IInv, TypeOK, Queue
<1>8. ValidPlan'
    BY DEF NextBatch, IInv, ValidPlan, Before
<1>9. Packed'
    <2>1. \A w \in begun : packages[w] # NoPatch
        BY AllDelivered DEF NextBatch
    <2>2. \A w \in begun : \A d \in deps[w] : packages[d] # NoPatch
        BY DEF IInv, Packed
    <2>3. packages' = packages /\ deps' = deps
        BY DEF NextBatch
    <2> QED  BY <1>1, <1>2, <1>5, <1>6, <2>1, <2>2, <2>3 DEF Packed
<1>10. Gathered' /\ Judged' /\ OneByOne' /\ IntegratedAsReviewed'
    BY <1>6, AllDelivered
    DEF NextBatch, IInv, Gathered, Judged, OneByOne, IntegratedAsReviewed, TypeOK
<1>11. InPhase'
    BY <1>1, <1>2, <1>6 DEF InPhase
<1> QED  BY <1>4, <1>7, <1>8, <1>9, <1>10, <1>11 DEF IInv

\* The reviewer or the integrator is queued while nothing else is busy.
LEMMA GateKeeps ==
    ASSUME IInv, Busy = {}, UNCHANGED <<plan, begun, output, result, cancelled>>,
           retry' = retry, result = "none",
           begun = Writers, reports = Readers, \A w \in Writers : packages[w] # NoPatch,
           \/ phase' = "review" /\ Queue({Reviewer})
           \/ phase' = "integration" /\ Queue({Integrator}) /\ ~reviewed
    PROVE  IInv'
<1> USE DEF plan, output
<1>1. (phase' = "review" /\ Busy' = {Reviewer}) \/ (phase' = "integration" /\ Busy' = {Integrator})
    BY DEF Busy, Queue, Tasks
<1>2. TypeOK'
    BY DEF IInv, TypeOK, Queue
<1>3. ValidPlan'
    BY DEF IInv, ValidPlan, Before
<1>4. Writers \cap Busy' = {}
    BY <1>1, Distinct
<1>5. InParallel'
    BY <1>4, OneInParallel DEF InParallel
<1> QED
    BY <1>1, <1>2, <1>3, <1>5
    DEF IInv, InPhase, OneByOne, Gathered, Packed, Judged, IntegratedAsReviewed

LEMMA WritersDoneKeeps == ASSUME IInv, WritersDone PROVE IInv'
<1>1. result = "none" /\ Busy = {} /\ begun = Writers
    BY DEF WritersDone, Recovered, IInv, TypeOK
<1>2. reports = Readers /\ \A w \in Writers : packages[w] # NoPatch
    BY <1>1, AllDelivered DEF WritersDone
<1> QED  BY <1>1, <1>2, GateKeeps DEF WritersDone

LEMMA ReworkKeeps == ASSUME IInv, Rework PROVE IInv'
<1>1. result = "none" /\ Busy = {} /\ begun = Writers /\ reports = Readers
      /\ \A w \in Writers : packages[w] # NoPatch
    BY DEF Rework, IInv, TypeOK, Gathered, Packed
<1>2. CASE retry # <<>> /\ Queue({Head(retry)}) /\ UNCHANGED phase
    BY <1>1, <1>2, RepeatKeeps DEF Rework
<1>3. CASE retry = <<>> /\ phase' = "review" /\ Queue({Reviewer})
    BY <1>1, <1>3, GateKeeps DEF Rework
<1> QED  BY <1>2, <1>3 DEF Rework

-----------------------------------------------------------------------------
(* The answers                                                             *)

\* A task that succeeds is no longer busy, and nothing else has changed but
\* what it delivered.
LEMMA SucceededPlace ==
    ASSUME IInv, NEW t \in Busy, t \in Readers \cup Writers, Succeeded(t), UNCHANGED plan
    PROVE  /\ Busy' = Busy \ {t} /\ retry' \in Seq(Readers \cup Writers)
           /\ ToSet(retry') \subseteq ToSet(retry)
           /\ ToSet(retry) \subseteq ToSet(retry') \cup {t}
           /\ work' \in [Tasks -> {"idle", "queued", "running"}]
           /\ phase \in {"rereading", "rewriting", "rework"} => Busy' = {}
           /\ ValidPlan' /\ InParallel'
<1> USE DEF plan
<1>1. Busy' = Busy \ {t} /\ work' \in [Tasks -> {"idle", "queued", "running"}]
    BY DEF Succeeded, Busy, Idle, IInv, TypeOK
<1>2. ValidPlan'
    BY DEF IInv, ValidPlan, Before
<1>3. InParallel'
    BY <1>1, FewerInParallel DEF IInv, InParallel
<1>4. CASE phase \in {"rereading", "rewriting", "rework"}
    <2>1. retry # <<>> /\ Busy = {t} /\ t = Head(retry) /\ retry' = Tail(retry)
        BY <1>4 DEF IInv, OneByOne, Succeeded
    <2>2. retry' \in Seq(Readers \cup Writers) /\ ToSet(retry) = {t} \cup ToSet(retry')
        BY <2>1, TailElements DEF IInv, TypeOK
    <2> QED  BY <1>1, <2>1, <2>2, <1>2, <1>3
<1>5. CASE phase \notin {"rereading", "rewriting", "rework"}
    BY <1>1, <1>2, <1>3, <1>5 DEF Succeeded, IInv, TypeOK
<1> QED  BY <1>4, <1>5

LEMMA ReportedKeeps == ASSUME IInv, NEW r \in Readers, Reported(r) PROVE IInv'
<1> USE DEF plan
<1>1. r \in Busy /\ phase \in {"reading", "rereading"}
    BY BusyPlace DEF Reported, Busy, Tasks
<1>2. /\ Busy' = Busy \ {r} /\ retry' \in Seq(Readers \cup Writers)
      /\ ToSet(retry') \subseteq ToSet(retry) /\ ToSet(retry) \subseteq ToSet(retry') \cup {r}
      /\ work' \in [Tasks -> {"idle", "queued", "running"}]
      /\ phase \in {"rereading", "rewriting", "rework"} => Busy' = {}
      /\ ValidPlan' /\ InParallel'
    BY <1>1, SucceededPlace DEF Reported
<1>3. TypeOK'
    BY <1>2 DEF Reported, Succeeded, IInv, TypeOK
<1>4. InPhase' /\ OneByOne' /\ Gathered'
    BY <1>1, <1>2 DEF Reported, Succeeded, IInv, InPhase, OneByOne, Gathered
<1>5. Packed' /\ Judged' /\ IntegratedAsReviewed'
    BY <1>1 DEF Reported, Succeeded, IInv, TypeOK, Gathered, Packed, Judged, IntegratedAsReviewed
<1> QED  BY <1>2, <1>3, <1>4, <1>5 DEF IInv

LEMMA DeliveredKeeps == ASSUME IInv, NEW w \in Writers, Delivered(w) PROVE IInv'
<1> USE DEF plan
<1>1. w \in Busy /\ phase \in {"writing", "rewriting", "rework"}
    BY BusyPlace DEF Delivered, Busy, Tasks
<1>2. /\ Busy' = Busy \ {w} /\ retry' \in Seq(Readers \cup Writers)
      /\ ToSet(retry') \subseteq ToSet(retry) /\ ToSet(retry) \subseteq ToSet(retry') \cup {w}
      /\ work' \in [Tasks -> {"idle", "queued", "running"}]
      /\ phase \in {"rereading", "rewriting", "rework"} => Busy' = {}
      /\ ValidPlan' /\ InParallel'
    BY <1>1, SucceededPlace DEF Delivered
<1>3. PICK p \in Patches : packages' = [packages EXCEPT ![w] = p]
    BY DEF Delivered
<1>4. packages \in [Writers -> Patches \cup {NoPatch}]
    BY DEF IInv, TypeOK
<1>5. /\ packages' \in [Writers -> Patches \cup {NoPatch}]
      /\ packages'[w] # NoPatch /\ \A v \in Writers \ {w} : packages'[v] = packages[v]
    BY <1>3, <1>4, CoordinatorAssumption
<1>6. TypeOK'
    BY <1>2, <1>5 DEF Delivered, Succeeded, IInv, TypeOK
<1>7. InPhase' /\ OneByOne' /\ Gathered'
    BY <1>1, <1>2 DEF Delivered, Succeeded, IInv, InPhase, OneByOne, Gathered
<1>8. Packed'
    <2>1. \A v \in begun : \A d \in deps[v] : d \in Writers /\ packages'[d] # NoPatch
        BY <1>5 DEF IInv, TypeOK, Packed
    <2>2. \A v \in begun : packages'[v] = NoPatch => packages[v] = NoPatch /\ v # w
        BY <1>5 DEF IInv, TypeOK
    <2> QED  BY <1>1, <1>2, <1>5, <2>1, <2>2 DEF Delivered, Succeeded, IInv, Packed
<1>9. Judged' /\ IntegratedAsReviewed'
    BY <1>1 DEF Delivered, Succeeded, IInv, TypeOK, Judged, IntegratedAsReviewed
<1> QED  BY <1>2, <1>6, <1>7, <1>8, <1>9 DEF IInv

LEMMA AcceptedKeeps == ASSUME IInv, Accepted PROVE IInv'
<1> USE DEF plan
<1>1. phase = "review" /\ Busy = {Reviewer}
    <2>1. Reviewer \in Busy
        BY DEF Accepted, Busy, Tasks
    <2> QED  BY <2>1, BusyPlace DEF IInv, InPhase
<1>2. Busy' = {Integrator}
    BY <1>1, Distinct DEF Accepted, Busy, Tasks, IInv, TypeOK
<1>3. TypeOK'
    BY <1>1 DEF Accepted, IInv, TypeOK
<1>4. ValidPlan'
    BY DEF Accepted, IInv, ValidPlan, Before
<1>5. Writers \cap Busy' = {}
    BY <1>2, Distinct
<1>6. InParallel'
    BY <1>5, OneInParallel DEF InParallel
<1>7. InPhase' /\ OneByOne' /\ Gathered'
    BY <1>1, <1>2 DEF Accepted, IInv, InPhase, OneByOne, Gathered
<1>8. Packed' /\ Judged' /\ IntegratedAsReviewed'
    BY <1>1 DEF Accepted, IInv, TypeOK, Packed, Judged, IntegratedAsReviewed
<1> QED  BY <1>3, <1>4, <1>6, <1>7, <1>8 DEF IInv

LEMMA ReworkAskedKeeps == ASSUME IInv, ReworkAsked PROVE IInv'
<1> USE DEF plan, output
<1>1. phase = "review" /\ Busy = {Reviewer}
    <2>1. Reviewer \in Busy
        BY DEF ReworkAsked, Busy, Tasks
    <2> QED  BY <2>1, BusyPlace DEF IInv, InPhase
<1>2. CASE Return("failed")
    <2>1. IntegratedAsReviewed'
        BY <1>2 DEF Return, IntegratedAsReviewed
    <2> QED  BY <1>2, <2>1, ReturnKeeps DEF ReworkAsked, IInv, TypeOK
<1>3. CASE /\ phase' = "rework" /\ Idle(Reviewer)
           /\ \E tasks \in (SUBSET Writers) \ {{}} : retry' = SetToSeq(tasks)
           /\ UNCHANGED <<begun, result>>
    <2>1. PICK tasks \in SUBSET Writers : retry' = SetToSeq(tasks)
        BY <1>3
    <2>2. IsFiniteSet(tasks)
        BY FS_Subset, CoordinatorAssumption
    <2>3. retry' \in Seq(tasks)
        BY <2>1, <2>2, OrderedTyped
    <2>4. retry' \in Seq(Readers \cup Writers) /\ ToSet(retry') \subseteq Writers
        BY <2>3 DEF ToSet
    <2>5. Busy' = {}
        BY <1>1, <1>3 DEF Busy, Idle, IInv, TypeOK
    <2>6. TypeOK'
        BY <1>1, <1>3, <2>4 DEF ReworkAsked, IInv, TypeOK, Idle
    <2>7. ValidPlan'
        BY DEF ReworkAsked, IInv, ValidPlan, Before
    <2>8. InParallel'
        BY <2>5, OneInParallel DEF InParallel
    <2>9. InPhase' /\ OneByOne' /\ Gathered'
        BY <1>1, <1>3, <2>4, <2>5 DEF ReworkAsked, IInv, InPhase, OneByOne, Gathered
    <2>10. Packed' /\ Judged' /\ IntegratedAsReviewed'
        BY <1>1, <1>3 DEF ReworkAsked, IInv, TypeOK, Packed, Judged, IntegratedAsReviewed
    <2> QED  BY <2>6, <2>7, <2>8, <2>9, <2>10 DEF IInv
<1> QED  BY <1>2, <1>3 DEF ReworkAsked

LEMMA IntegratedKeeps == ASSUME IInv, Integrated PROVE IInv'
<1> USE DEF plan
<1>1. phase = "integration"
    <2>1. Integrator \in Busy
        BY DEF Integrated, Busy, Tasks
    <2> QED  BY <2>1, BusyPlace
<1>2. PICK replayed \in [Writers -> Patches \cup {NoPatch}], passed \in BOOLEAN :
          /\ applied' = replayed
          /\ Return(IF passed /\ Exact(replayed) THEN "passed" ELSE "failed")
    BY DEF Integrated
<1>3. CASE passed /\ Exact(replayed)
    <2>1. Return("passed") /\ applied' = packages
        BY <1>2, <1>3 DEF Exact
    <2>2. IntegratedAsReviewed'
        BY <1>1, <2>1 DEF Integrated, IInv, Gathered, Packed, Judged, IntegratedAsReviewed
    <2> QED  BY <1>2, <2>1, <2>2, ReturnKeeps DEF Integrated, IInv, TypeOK
<1>4. CASE ~(passed /\ Exact(replayed))
    <2>1. Return("failed")
        BY <1>2, <1>4
    <2>2. IntegratedAsReviewed'
        BY <2>1 DEF Return, IntegratedAsReviewed
    <2> QED  BY <1>2, <2>1, <2>2, ReturnKeeps DEF Integrated, IInv, TypeOK
<1> QED  BY <1>3, <1>4

LEMMA AnswerKeeps == ASSUME IInv, NEW t \in Tasks, Answer(t) PROVE IInv'
<1>1. CASE HarnessFails(t)
    <2>1. t \in Busy
        BY <1>1 DEF HarnessFails, Busy
    <2> QED  BY <1>1, <2>1, FailedKeeps DEF HarnessFails
<1>2. CASE AnswerRefused(t)
    <2>1. IntegratedAsReviewed'
        BY <1>2 DEF AnswerRefused, Return, IntegratedAsReviewed
    <2> QED  BY <1>2, <2>1, ReturnKeeps DEF AnswerRefused, IInv, TypeOK, output
<1> QED
    BY <1>1, <1>2, ReportedKeeps, DeliveredKeeps, AcceptedKeeps, ReworkAskedKeeps, IntegratedKeeps
    DEF Answer

LEMMA CancelKeeps == ASSUME IInv, Cancel \/ UNCHANGED vars PROVE IInv'
<1>1. UNCHANGED <<plan, phase, work, retry, begun, output, result>> /\ cancelled' \in BOOLEAN
    BY DEF Cancel, vars, IInv, TypeOK
<1>2. TypeOK'
    BY <1>1 DEF IInv, TypeOK, plan, output
<1>3. ValidPlan'
    BY <1>1 DEF IInv, ValidPlan, Before, plan
<1> QED
    BY <1>1, <1>2, <1>3
    DEF IInv, InPhase, OneByOne, Gathered, Packed, Judged, InParallel, IntegratedAsReviewed,
        Busy, plan, output

LEMMA InvStep == IInv /\ [Next]_vars => IInv'
<1> SUFFICES ASSUME IInv, [Next]_vars PROVE IInv'
    OBVIOUS
<1> QED
    BY PlanKeeps, CollectedKeeps, RecoverKeeps, NextBatchKeeps, WritersDoneKeeps, ReworkKeeps,
       BeginKeeps, AnswerKeeps, CancelKeeps
    DEF Next, Coordinate

-----------------------------------------------------------------------------
(* The budget                                                              *)

\* What is charged is a number, and what is reserved is what the running hold.
Charged == used \in Nat /\ overrun \in BOOLEAN /\ BudgetKept

LEMMA RunningFinite == Running \in SUBSET Tasks /\ IsFiniteSet(Running)
<1>1. IsFiniteSet((Readers \cup Writers) \cup {Reviewer} \cup {Integrator})
    <2>1. IsFiniteSet(Readers \cup Writers)
        BY CoordinatorAssumption, FS_Union
    <2> QED  BY <2>1, FS_AddElement
<1>2. IsFiniteSet(Tasks)
    <2>1. Tasks = (Readers \cup Writers) \cup {Reviewer} \cup {Integrator}
        BY DEF Tasks
    <2> QED  BY <1>1, <2>1
<1>3. Running \in SUBSET Tasks
    BY DEF Running
<1> QED  BY <1>2, <1>3, FS_Subset

LEMMA ChargedInit == Init => Charged
<1> SUFFICES ASSUME Init PROVE Charged
    OBVIOUS
<1>1. Running = {}
    BY DEF Init, Running
<1>2. Held(Running) = 0
    BY <1>1, HeldNone
<1>3. used \in Nat /\ used + reserved <= Limit
    BY LimitAssumption DEF Init, EmptyBudget
<1>4. overrun \in BOOLEAN /\ reserved = Held(Running)
    BY <1>2 DEF Init, EmptyBudget
<1> QED  BY <1>3, <1>4, Zenon DEF Charged, BudgetKept

\* A step that neither starts nor ends a task leaves the budget alone.
LEMMA SameCharge ==
    ASSUME Charged, UNCHANGED <<budget, overrun>>, Running' = Running
    PROVE  Charged'
    BY DEF Charged, BudgetKept, budget

\* Between two phases nothing runs.
LEMMA CoordinateCharge == ASSUME IInv, Charged, Coordinate PROVE Charged'
<1>1. Busy = {} /\ UNCHANGED <<budget, overrun>>
    BY DEF Coordinate, Plan, Collected, Recover, NextBatch, WritersDone, Rework, Recovered,
           IInv, InPhase
<1>2. Running = {}
    BY <1>1 DEF Busy, Running
<1>3. Running' = {}
    <2>1. work \in [Tasks -> {"idle", "queued", "running"}]
        BY DEF IInv, TypeOK
    <2>2. \A t \in Tasks : work'[t] # "running"
        BY <1>1, <2>1 DEF Coordinate, Plan, Collected, Recover, NextBatch, WritersDone, Rework,
                          Return, Queue, Busy
    <2> QED  BY <2>2 DEF Running
<1> QED  BY <1>1, <1>2, <1>3, SameCharge

LEMMA BeginCharge == ASSUME IInv, Charged, NEW t \in Tasks, Begin(t) PROVE Charged'
<1>1. t \in Busy /\ t \notin Running /\ work \in [Tasks -> {"idle", "queued", "running"}]
    BY DEF Begin, Busy, Running, IInv, TypeOK
<1>2. CASE Reserve(Reservation[t]) /\ work' = [work EXCEPT ![t] = "running"]
    <2>1. Running' = Running \cup {t} /\ overrun' = overrun
        BY <1>1, <1>2 DEF Running, Begin
    <2>2. Running' \in SUBSET Tasks /\ IsFiniteSet(Running') /\ Running' \ {t} = Running
        BY <1>1, <2>1, RunningFinite, FS_AddElement DEF Running
    <2>3. Held(Running') = Reservation[t] + Held(Running)
        BY <2>1, <2>2, HeldWithout
    <2>4. Held(Running) \in Nat /\ Reservation[t] \in Nat
        BY RunningFinite, HeldTyped, CoordinatorAssumption
    <2>5. used' = used /\ reserved' = reserved + Reservation[t]
          /\ used + reserved + Reservation[t] <= Limit
        BY <1>2 DEF Reserve, Fits
    <2>6. reserved' = Held(Running')
        BY <2>3, <2>4, <2>5 DEF Charged, BudgetKept
    <2>7. reserved \in Nat /\ used \in Nat /\ used' + reserved' <= Limit
        BY <2>4, <2>5 DEF Charged, BudgetKept
    <2> QED  BY <2>1, <2>5, <2>6, <2>7 DEF Charged, BudgetKept
<1>3. CASE Failed(t) /\ UNCHANGED budget
    <2>1. Running' = Running
        <3>1. CASE Idle(t)
            BY <1>1, <3>1 DEF Begin, Idle, Running
        <3>2. CASE phase \in {"rework", "review", "integration"} /\ Return("failed")
            <4>1. Busy \subseteq {t}
                BY <1>1, <3>2 DEF IInv, InPhase, OneByOne
            <4>2. Running = {}
                BY <1>1, <4>1 DEF Busy, Running
            <4>3. Running' = {}
                BY <3>2 DEF Return, Running
            <4> QED  BY <4>2, <4>3
        <3> QED  BY <1>3, <3>1, <3>2 DEF Failed
    <2> QED  BY <1>3, <2>1, SameCharge DEF Begin
<1> QED  BY <1>2, <1>3 DEF Begin

\* A task ends alone, or run() returns with it and everything is given back.
LEMMA SettledCharge ==
    ASSUME Charged, NEW t \in Running, NEW u \in Usages, Settled(t, u),
           \/ phase' = "done" /\ Running' = {}
           \/ phase' # "done" /\ Running' = Running \ {t}
    PROVE  Charged'
<1> DEFINE rest == Held(Running \ {t})
           res == Reservation[t]
<1>1. Held(Running) = res + rest
    BY RunningFinite, HeldWithout
<1>2. rest \in Nat /\ res \in Nat /\ u \in Nat /\ Limit \in Nat
    <2>1. Running \ {t} \in SUBSET Tasks /\ IsFiniteSet(Running \ {t})
        BY RunningFinite, FS_Subset
    <2> QED  BY <2>1, HeldTyped, RunningFinite, CoordinatorAssumption, LimitAssumption
<1>3. reserved = res + rest /\ used \in Nat /\ overrun \in BOOLEAN
    BY <1>1 DEF Charged, BudgetKept
<1>4. ~overrun => used + reserved <= Limit
    BY DEF Charged, BudgetKept
<1>5. used' = Capped(used + u) /\ overrun' = (overrun \/ u > res)
    BY DEF Settled, Settle
<1>6. reserved' = IF phase' = "done" THEN 0 ELSE rest
    <2>1. CASE phase' = "done"
        <3>1. reserved' = Less(reserved, Held(Running))
            BY <2>1 DEF Settled, Settle
        <3> QED  BY <2>1, <3>1, <1>1, <1>2, <1>3 DEF Less
    <2>2. CASE phase' # "done"
        <3>1. reserved' = Less(reserved, res)
            BY <2>2 DEF Settled, Settle
        <3> QED  BY <2>2, <3>1, <1>2, <1>3 DEF Less
    <2> QED  BY <2>1, <2>2
<1>7. reserved' = Held(Running')
    BY <1>6, HeldNone
<1> HIDE DEF rest, res
<1>8. used' \in Nat /\ overrun' \in BOOLEAN
    BY <1>2, <1>3, <1>5 DEF Capped
<1>9. ~overrun' => used' + reserved' <= Limit
    <2>1. ASSUME ~overrun'
          PROVE  ~overrun /\ ~(u > res)
        BY <1>5, <2>1, Zenon
    <2>2. ASSUME u <= res, used + reserved <= Limit
          PROVE  used' + reserved' <= Limit
        BY <1>2, <1>3, <1>5, <1>6, <2>2 DEF Capped
    <2> QED  BY <1>2, <1>4, <2>1, <2>2
<1> QED  BY <1>7, <1>8, <1>9 DEF Charged, BudgetKept

LEMMA AnswerCharge == ASSUME IInv, Charged, NEW t \in Tasks, Answer(t) PROVE Charged'
<1>1. t \in Running /\ t \in Busy
    BY DEF Answer, HarnessFails, AnswerRefused, Reported, Delivered, Accepted, ReworkAsked,
           Integrated, Running, Busy
<1>2. work \in [Tasks -> {"idle", "queued", "running"}] /\ phase # "done"
    BY <1>1 DEF IInv, TypeOK, InPhase
<1>3. \E u \in Usages : Settled(t, u)
    BY DEF Answer, HarnessFails, AnswerRefused, Reported, Delivered, Accepted, ReworkAsked,
           Integrated
<1>4. ASSUME NEW how, Return(how)
      PROVE  phase' = "done" /\ Running' = {}
    BY <1>4 DEF Return, Running
<1>5. ASSUME Idle(t)
      PROVE  Running' = Running \ {t}
    BY <1>5, <1>2 DEF Idle, Running
<1>6. \/ phase' = "done" /\ Running' = {}
      \/ phase' # "done" /\ Running' = Running \ {t}
    <2>1. CASE HarnessFails(t)
        BY <1>2, <1>4, <1>5, <2>1 DEF HarnessFails, Failed
    <2>2. CASE AnswerRefused(t) \/ Integrated
        BY <1>4, <2>2 DEF AnswerRefused, Integrated
    <2>3. CASE Reported(t) \/ Delivered(t)
        BY <1>2, <1>5, <2>3 DEF Reported, Delivered, Succeeded
    <2>4. CASE t = Reviewer /\ Accepted
        <3>1. Integrator \notin Running
            BY <1>1, <2>4, BusyPlace, Distinct DEF IInv, InPhase, Busy, Running
        <3>2. t # Integrator /\ phase' = "integration"
            BY <2>4, Distinct DEF Accepted
        <3>3. \A x \in Tasks : work'[x] = IF x = t THEN "idle"
                                          ELSE IF x = Integrator THEN "queued" ELSE work[x]
            BY <1>2, <2>4, Distinct DEF Accepted
        <3> QED  BY <3>1, <3>2, <3>3 DEF Running
    <2>5. CASE t = Reviewer /\ ReworkAsked
        BY <1>4, <1>5, <2>5 DEF ReworkAsked
    <2> QED  BY <2>1, <2>2, <2>3, <2>4, <2>5 DEF Answer
<1> QED  BY <1>1, <1>3, <1>6, SettledCharge

LEMMA ChargedStep == IInv /\ Charged /\ [Next]_vars => Charged'
<1> SUFFICES ASSUME IInv, Charged, [Next]_vars PROVE Charged'
    OBVIOUS
<1>1. CASE Cancel \/ UNCHANGED vars
    <2>1. UNCHANGED <<budget, overrun>> /\ Running' = Running
        BY <1>1 DEF Cancel, vars, Running
    <2> QED  BY <2>1, SameCharge
<1> QED  BY <1>1, CoordinateCharge, BeginCharge, AnswerCharge DEF Next

-----------------------------------------------------------------------------
(* What becomes of the run                                                 *)

\* How many repositories are no longer to be applied, or are still to be rolled back.
Place == Len(Repositories) - Len(todo)

\* The repositories are applied in their order: those before Place have their share
\* of the packages, those from there on are as they were.
Forward ==
    stage = "applying" =>
        /\ Len(todo) <= Len(Repositories)
        /\ \A i \in 1..Len(todo) : todo[i] = Repositories[Place + i]
        /\ \A j \in Steps : primary[Repositories[j]] =
                                IF j <= Place THEN Share(Repositories[j]) ELSE Nothing

\* They are rolled back from the last one: only those in `todo` may have their share.
Backward ==
    stage = "rolling_back" =>
        /\ Len(todo) <= Len(Repositories)
        /\ \A i \in 1..Len(todo) : todo[i] = Repositories[Len(todo) + 1 - i]
        /\ \A j \in Steps : j > Len(todo) => primary[Repositories[j]] = Nothing

Resolved ==
    /\ primary \in [Repos -> [Writers -> Patches \cup {NoPatch}]] /\ torn \in BOOLEAN
    /\ todo \in Seq(Repos)
    /\ stage \in {"none", "pending", "preflighted", "applying", "applied", "rolling_back",
                  "discarded"}
    /\ stage # "none" => result = "passed"
    /\ stage = "none" => primary = Untouched
    /\ stage \in {"pending", "preflighted", "discarded"} /\ ~torn => primary = Untouched
    /\ stage = "applied" => \A r \in Repos : primary[r] = Share(r)

RInv == IInv /\ Resolved /\ Forward /\ Backward

\* A repository has one place in the order.
LEMMA Places ==
    /\ Repositories \in Seq(Repos) /\ Len(Repositories) \in Nat /\ Steps = DOMAIN Repositories
    /\ \A r \in Repos : \E j \in Steps : Repositories[j] = r
    /\ \A i, j \in Steps : Repositories[i] = Repositories[j] => i = j
<1>1. Repositories \in Seq(Repos)
    BY ResolutionAssumption DEF Repos
<1>2. Len(Repositories) \in Nat /\ Steps = DOMAIN Repositories
    BY <1>1 DEF Steps
<1> QED  BY <1>1, <1>2, ResolutionAssumption DEF Repos, ToSet, IsInjective

LEMMA RInit == ResolutionInit => RInv
<1> SUFFICES ASSUME ResolutionInit PROVE RInv
    OBVIOUS
<1>1. IInv
    BY InvInit DEF ResolutionInit
<1>2. Nothing \in [Writers -> Patches \cup {NoPatch}] /\ todo \in Seq(Repos)
    BY DEF Nothing, ResolutionInit
<1> QED  BY <1>1, <1>2 DEF ResolutionInit, RInv, Resolved, Forward, Backward, Untouched

\* After run() has returned the coordinator takes no step.
LEMMA NothingLeft == ASSUME IInv, phase = "done" PROVE ~Next
<1>1. \A t \in Tasks : work[t] = "idle"
    BY DEF IInv, InPhase, Busy
<1> QED
    BY <1>1
    DEF Next, Coordinate, Plan, Collected, Recover, NextBatch, WritersDone, Rework, Recovered,
        Cancel, Begin, Answer, HarnessFails, AnswerRefused, Reported, Delivered, Accepted,
        ReworkAsked, Integrated, Tasks

\* A share is what the coordinator applied, and stays so.
LEMMA ShareStays ==
    ASSUME IInv, UNCHANGED vars
    PROVE  /\ IInv' /\ result' = result
           /\ \A r \in Repos : Share(r)' = Share(r)
           /\ \A r \in Repos : Share(r) \in [Writers -> Patches \cup {NoPatch}]
<1>1. IInv'
    BY InvStep
<1>2. applied' = applied /\ result' = result
    BY DEF vars, output
<1>3. applied \in [Writers -> Patches \cup {NoPatch}]
    BY DEF IInv, TypeOK
<1> QED  BY <1>1, <1>2, <1>3 DEF Share

\* A step of the coordinator changes no share once the run is kept.
LEMMA RunKeeps == ASSUME RInv, Next /\ UNCHANGED resolution PROVE RInv'
<1>1. IInv' /\ stage = "none"
    <2>1. IInv /\ (stage # "none" => result = "passed")
        BY DEF RInv, Resolved
    <2>2. result = "passed" => phase = "done"
        BY <2>1 DEF IInv, TypeOK
    <2> QED  BY <2>1, <2>2, NothingLeft, InvStep
<1>2. UNCHANGED <<stage, primary, edits, todo, torn>>
    BY DEF resolution
<1> QED  BY <1>1, <1>2 DEF RInv, Resolved, Forward, Backward, Untouched

\* Until git is called no checkout changes.
LEMMA WaitKeeps ==
    ASSUME RInv,
           \/ Keep \/ Preflight \/ Discard \/ (\E r \in Repos : Edit(r))
           \/ UNCHANGED <<vars, resolution>>
    PROVE  RInv'
<1>1. UNCHANGED <<vars, primary, todo, torn>>
    BY DEF Keep, Preflight, Discard, Edit, resolution
<1>2. IInv' /\ result' = result /\ \A r \in Repos : Share(r)' = Share(r)
    BY <1>1, ShareStays DEF RInv
<1>3. \/ stage' = stage
      \/ stage = "none" /\ result = "passed" /\ stage' = "pending"
      \/ stage = "pending" /\ stage' \in {"preflighted", "discarded"}
    BY DEF Keep, Preflight, Discard, Edit, resolution
<1>4. Resolved'
    BY <1>1, <1>2, <1>3 DEF RInv, Resolved, Untouched
<1>5. Forward' /\ Backward'
    <2>1. stage' \in {"applying", "rolling_back"} => stage' = stage
        BY <1>3
    <2>2. \A j \in Steps : Repositories[j] \in Repos
        BY Places
    <2>3. Place' = Place
        BY <1>1 DEF Place
    <2> QED  BY <1>1, <1>2, <2>1, <2>2, <2>3 DEF RInv, Forward, Backward
<1> QED  BY <1>2, <1>4, <1>5 DEF RInv

LEMMA AdmitKeeps == ASSUME RInv, Admit PROVE RInv'
<1>1. UNCHANGED <<vars, primary, torn>>
    BY DEF Admit
<1>2. IInv' /\ result' = result /\ result = "passed"
    BY <1>1, ShareStays DEF RInv, Resolved, Admit
<1>3. CASE stage' = "pending" /\ UNCHANGED todo
    BY <1>1, <1>2, <1>3 DEF RInv, Resolved, Forward, Backward, Admit, Untouched
<1>4. CASE Unchanged /\ stage' = "applying" /\ todo' = Repositories
    <2>1. primary' = Untouched /\ todo' \in Seq(Repos)
        BY <1>1, <1>4, Places DEF Unchanged
    <2>2. Place' = 0
        BY <1>4, Places DEF Place
    <2>3. \A j \in Steps : Repositories[j] \in Repos /\ ~(j <= Place')
        BY <2>2, Places DEF Steps
    <2>4. Forward'
        BY <1>4, <2>1, <2>2, <2>3, Places DEF Forward, Untouched
    <2> QED  BY <1>1, <1>2, <1>4, <2>1, <2>4 DEF RInv, Resolved, Backward
<1> QED  BY <1>3, <1>4 DEF Admit

\* What has been tried so far are the first places.
LEMMA TriedAre ==
    ASSUME todo \in Seq(Repos), Len(todo) <= Len(Repositories)
    PROVE  /\ Place \in 0..Len(Repositories) /\ Cardinality(Tried) = Place
<1>1. Len(todo) \in Nat /\ Len(Repositories) \in Nat
    BY Places
<1>2. Place \in 0..Len(Repositories)
    BY <1>1 DEF Place
<1>3. Tried = 1..Place
    BY <1>1 DEF Tried, Steps, Place
<1>4. Cardinality(1..Place) = Place
    <2>1. Cardinality(1..Place) = IF 1 > Place THEN 0 ELSE Place - 1 + 1
        BY <1>2, FS_Interval
    <2> QED  BY <1>2, <2>1
<1> QED  BY <1>2, <1>3, <1>4

\* A rollback begins with the last repository that was applied.
LEMMA RollBackStarts ==
    ASSUME RInv, stage = "applying", RollBack, UNCHANGED <<vars, primary, torn>>
    PROVE  RInv'
<1> DEFINE n == Place
           back == SubSeq(Repositories, 1, n)
<1>1. n \in 0..Len(Repositories) /\ todo' = Reverse(back)
    BY TriedAre DEF RInv, Resolved, Forward, RollBack
<1>2. /\ back \in Seq(Repos) /\ Len(back) = n
      /\ \A i \in 1..n : back[i] = Repositories[i]
    BY <1>1, Places
<1> HIDE DEF back, n
<1>3. Len(todo') = n /\ n \in Nat /\ todo' \in Seq(Repos)
      /\ \A i \in 1..n : todo'[i] = Repositories[n + 1 - i]
    <2>1. n \in Nat
        BY <1>1, Places
    <2>2. todo' = [i \in 1..n |-> back[(n - i) + 1]]
        BY <1>1, <1>2 DEF Reverse
    <2>3. \A i \in 1..n : (n - i) + 1 \in 1..n /\ (n - i) + 1 = n + 1 - i
        BY <2>1
    <2>4. \A i \in 1..n : back[(n - i) + 1] = Repositories[n + 1 - i] /\ back[(n - i) + 1] \in Repos
        BY <1>2, <2>1, <2>3
    <2>5. todo' \in [1..n -> Repos]
        BY <2>2, <2>4
    <2> QED  BY <2>1, <2>2, <2>4, <2>5
<1>4. \A j \in Steps : j > n => primary'[Repositories[j]] = Nothing
    BY <1>1 DEF RInv, Forward, n, Steps
<1>5. IInv' /\ result' = result /\ result = "passed" /\ stage' = "rolling_back"
    BY ShareStays DEF RInv, Resolved, RollBack
<1>6. Backward'
    BY <1>1, <1>3, <1>4, Places DEF Backward
<1> QED  BY <1>3, <1>5, <1>6 DEF RInv, Resolved, Forward

\* A repository is done with, and the one after it is next.
LEMMA NextPlace ==
    ASSUME todo \in Seq(Repos), todo # <<>>
    PROVE  /\ Head(todo) = todo[1] /\ Head(todo) \in Repos /\ Tail(todo) \in Seq(Repos)
           /\ Len(todo) \in Nat \ {0} /\ Len(Tail(todo)) = Len(todo) - 1
           /\ \A i \in 1..Len(Tail(todo)) : Tail(todo)[i] = todo[i + 1]
    OBVIOUS

LEMMA ApplyKeeps == ASSUME RInv, Apply PROVE RInv'
<1> DEFINE r == Head(todo)
<1>1. UNCHANGED <<vars, torn>> /\ stage = "applying" /\ todo # <<>> /\ todo \in Seq(Repos)
    BY DEF Apply, RInv, Resolved
<1>2. CASE UNCHANGED primary /\ RollBack
    BY <1>1, <1>2, RollBackStarts
<1>3. CASE /\ primary' = [primary EXCEPT ![r] = Share(r)]
           /\ todo' = Tail(todo) /\ UNCHANGED stage
    <2> DEFINE n == Place
    <2>1. /\ n \in Nat /\ Len(todo) \in Nat \ {0} /\ Len(todo) <= Len(Repositories)
          /\ n + Len(todo) = Len(Repositories) /\ Len(Repositories) \in Nat
        BY <1>1, NextPlace, Places DEF Place, RInv, Forward
    <2>2. r = Repositories[n + 1] /\ n + 1 \in Steps /\ r \in Repos
        BY <1>1, <2>1, NextPlace DEF RInv, Forward, Steps
    <2>3. Len(todo') = Len(todo) - 1 /\ todo' \in Seq(Repos) /\ Place' = n + 1
        BY <1>1, <1>3, <2>1, NextPlace DEF Place
    <2>4. /\ IInv' /\ result' = result
          /\ \A x \in Repos : Share(x)' = Share(x)
          /\ \A x \in Repos : Share(x) \in [Writers -> Patches \cup {NoPatch}]
        BY <1>1, ShareStays DEF RInv
    <2>5. primary' \in [Repos -> [Writers -> Patches \cup {NoPatch}]]
        BY <1>3, <2>2, <2>4 DEF RInv, Resolved
    <2>6. \A x \in Repos : primary'[x] = IF x = r THEN Share(x) ELSE primary[x]
        BY <1>3, <2>2 DEF RInv, Resolved
    <2>7. ASSUME NEW j \in Steps
          PROVE  primary'[Repositories[j]] =
                     IF j <= n + 1 THEN Share(Repositories[j])' ELSE Nothing
        <3>1. primary[Repositories[j]] = IF j <= n THEN Share(Repositories[j]) ELSE Nothing
            BY <1>1 DEF RInv, Forward
        <3>2. Repositories[j] \in Repos /\ (Repositories[j] = r) = (j = n + 1)
            BY <2>2, Places
        <3>3. Share(Repositories[j])' = Share(Repositories[j])
            BY <2>4, <3>2
        <3>4. j \in Nat
            BY DEF Steps
        <3> HIDE DEF n, r
        <3> QED  BY <2>1, <2>6, <3>1, <3>2, <3>3, <3>4
    <2>8. ASSUME NEW i \in 1..Len(todo')
          PROVE  todo'[i] = Repositories[(n + 1) + i]
        <3>1. todo'[i] = todo[i + 1] /\ i + 1 \in 1..Len(todo)
            BY <1>1, <1>3, <2>1, <2>3, NextPlace
        <3>2. todo[i + 1] = Repositories[n + (i + 1)]
            BY <1>1, <3>1 DEF RInv, Forward
        <3> HIDE DEF n, r
        <3>3. n + (i + 1) = (n + 1) + i
            BY <2>1
        <3> QED  BY <3>1, <3>2, <3>3
    <2>9. Forward'
        <3>1. Len(todo') <= Len(Repositories)
            BY <2>1, <2>3
        <3> QED  BY <2>3, <2>7, <2>8, <3>1 DEF Forward
    <2> QED  BY <1>1, <1>3, <2>3, <2>4, <2>5, <2>9 DEF RInv, Resolved, Backward
<1> QED  BY <1>2, <1>3 DEF Apply

LEMMA ReceiptKeeps == ASSUME RInv, Receipt PROVE RInv'
<1>1. UNCHANGED <<vars, primary, torn>> /\ stage = "applying" /\ todo = <<>>
    BY DEF Receipt
<1>2. CASE RollBack
    BY <1>1, <1>2, RollBackStarts
<1>3. CASE stage' = "applied" /\ UNCHANGED todo
    <2>1. Place = Len(Repositories)
        BY <1>1, Places DEF Place
    <2>2. \A x \in Repos : primary[x] = Share(x)
        BY <1>1, <2>1, Places DEF RInv, Forward, Steps
    <2>3. IInv' /\ result' = result /\ \A x \in Repos : Share(x)' = Share(x)
        BY <1>1, ShareStays DEF RInv
    <2> QED  BY <1>1, <1>3, <2>2, <2>3 DEF RInv, Resolved, Forward, Backward
<1> QED  BY <1>2, <1>3 DEF Receipt

LEMMA RevertedKeeps == ASSUME RInv, Reverted PROVE RInv'
<1> DEFINE n == Len(todo)
<1>1. UNCHANGED vars /\ stage = "rolling_back" /\ todo \in Seq(Repos) /\ result = "passed"
    BY DEF Reverted, RInv, Resolved
<1>2. IInv' /\ result' = result
    BY <1>1, ShareStays DEF RInv
<1>3. CASE todo = <<>> /\ stage' = "pending" /\ UNCHANGED <<primary, todo, torn>>
    <2>1. \A j \in Steps : primary[Repositories[j]] = Nothing
        BY <1>1, <1>3 DEF RInv, Backward, Steps
    <2>2. \A x \in Repos : primary[x] = Nothing
        BY <2>1, Places
    <2>3. primary = Untouched
        BY <2>2 DEF RInv, Resolved, Untouched
    <2> QED  BY <1>1, <1>2, <1>3, <2>3 DEF RInv, Resolved, Forward, Backward, Untouched
<1>4. CASE /\ todo # <<>>
           /\ primary' = [primary EXCEPT ![Head(todo)] = Nothing]
           /\ todo' = Tail(todo) /\ UNCHANGED <<stage, torn>>
    <2>1. n \in Nat \ {0} /\ n <= Len(Repositories) /\ Len(Repositories) \in Nat
        BY <1>1, <1>4, NextPlace, Places DEF RInv, Backward
    <2>2. Head(todo) = Repositories[n] /\ Head(todo) \in Repos /\ n \in Steps
        BY <1>1, <1>4, <2>1, NextPlace DEF RInv, Backward, Steps
    <2>3. Len(todo') = n - 1 /\ todo' \in Seq(Repos)
        BY <1>1, <1>4, NextPlace
    <2>4. primary' \in [Repos -> [Writers -> Patches \cup {NoPatch}]]
        <3>1. Nothing \in [Writers -> Patches \cup {NoPatch}]
            BY DEF Nothing
        <3> QED  BY <1>4, <3>1 DEF RInv, Resolved
    <2>5. \A x \in Repos : primary'[x] = IF x = Head(todo) THEN Nothing ELSE primary[x]
        BY <1>4 DEF RInv, Resolved
    <2>6. ASSUME NEW j \in Steps, j > n - 1
          PROVE  primary'[Repositories[j]] = Nothing
        <3>1. Repositories[j] \in Repos /\ j \in Nat
            BY Places DEF Steps
        <3>2. j > n => primary[Repositories[j]] = Nothing
            BY <1>1 DEF RInv, Backward
        <3>3. j = n \/ j > n
            BY <2>1, <2>6, <3>1
        <3> QED  BY <2>2, <2>5, <3>1, <3>2, <3>3
    <2>7. ASSUME NEW i \in 1..Len(todo')
          PROVE  todo'[i] = Repositories[Len(todo') + 1 - i]
        <3>1. todo'[i] = todo[i + 1] /\ i + 1 \in 1..n
            BY <1>1, <1>4, <2>1, <2>3, NextPlace
        <3>2. todo[i + 1] = Repositories[n + 1 - (i + 1)]
            BY <1>1, <3>1 DEF RInv, Backward
        <3>3. n + 1 - (i + 1) = Len(todo') + 1 - i
            BY <2>1, <2>3
        <3> QED  BY <3>1, <3>2, <3>3
    <2>8. Backward'
        <3>1. Len(todo') <= Len(Repositories)
            BY <2>1, <2>3
        <3> QED  BY <2>3, <2>6, <2>7, <3>1 DEF Backward
    <2> QED  BY <1>1, <1>2, <1>4, <2>3, <2>4, <2>8 DEF RInv, Resolved, Forward
<1>5. CASE /\ todo # <<>> /\ torn' = TRUE
           /\ stage' = "pending" /\ todo' = <<>> /\ UNCHANGED primary
    BY <1>1, <1>2, <1>5 DEF RInv, Resolved, Forward, Backward
<1> QED  BY <1>3, <1>4, <1>5 DEF Reverted

LEMMA RStep == RInv /\ [ResolutionNext]_<<vars, resolution>> => RInv'
<1> SUFFICES ASSUME RInv, [ResolutionNext]_<<vars, resolution>> PROVE RInv'
    OBVIOUS
<1> QED
    BY RunKeeps, WaitKeeps, AdmitKeeps, ApplyKeeps, ReceiptKeeps, RevertedKeeps
    DEF ResolutionNext

-----------------------------------------------------------------------------
(* The theorems                                                            *)

LEMMA Invariant == Spec => []IInv
    BY InvInit, InvStep, PTL DEF Spec

LEMMA ChargedAlways == Spec => []Charged
    BY Invariant, ChargedInit, ChargedStep, PTL DEF Spec

\* The state of the coordinator keeps its types in every run.
THEOREM TypeCorrect == Spec => []TypeOK
<1>1. IInv => TypeOK
    BY DEF IInv
<1> QED  BY <1>1, Invariant, PTL

\* A writer never works before what it depends on has been delivered, and never
\* more of them than the plan allows (topological_layers and the batches of run()).
THEOREM OrderKept == Spec => []DependenciesFirst
<1>1. IInv => DependenciesFirst
    <2> SUFFICES ASSUME IInv PROVE DependenciesFirst
        OBVIOUS
    <2>1. ASSUME NEW w \in Writers \cap Busy
          PROVE  reports = Readers /\ \A d \in deps[w] : packages[d] # NoPatch
        <3>1. phase \in {"writing", "rewriting", "rework"}
            BY <2>1, BusyPlace
        <3>2. w \in begun
            BY <3>1 DEF IInv, InPhase, Packed
        <3> QED  BY <3>1, <3>2 DEF IInv, Gathered, Packed
    <2> QED  BY <2>1 DEF DependenciesFirst, IInv, InParallel
<1> QED  BY <1>1, Invariant, PTL

\* A run passes only with the packages that were reviewed and replayed.
THEOREM ResultExact == Spec => []IntegratedAsReviewed
<1>1. IInv => IntegratedAsReviewed
    BY DEF IInv
<1> QED  BY <1>1, Invariant, PTL

\* The reservations are those of the running tasks, dropped futures included, and
\* tasks that keep to theirs never take the budget over its limit (budget.rs).
THEOREM BudgetExact == Spec => []BudgetKept
<1>1. Charged => BudgetKept
    BY DEF Charged
<1> QED  BY <1>1, ChargedAlways, PTL

\* Keeping, applying and discarding its packages is no step of a coordinator: all
\* that is proved of its run holds of a run whose packages are applied.
THEOREM RunUndisturbed == ResolutionSpec => Spec
<1>1. ResolutionInit => Init
    BY DEF ResolutionInit
<1>2. [ResolutionNext]_<<vars, resolution>> => [Next]_vars
    <2>1. ASSUME ResolutionNext, ~Next
          PROVE  UNCHANGED vars
        BY <2>1 DEF ResolutionNext, Keep, Preflight, Admit, Apply, Receipt, Reverted, Discard, Edit
    <2> QED  BY <2>1
<1> QED  BY <1>1, <1>2, PTL DEF ResolutionSpec, Spec

\* Whatever the user edits and wherever git fails, an applied run is in the checkouts
\* with every package, and any other in none, short of a torn rollback (application.rs).
THEOREM ApplyIsWhole == ResolutionSpec => []AppliedWhole
<1>1. RInv => AppliedWhole
    <2> SUFFICES ASSUME RInv PROVE AppliedWhole
        OBVIOUS
    <2>1. ASSUME stage = "applied", NEW w \in Writers
          PROVE  primary[Home[w]][w] = packages[w]
        <3>1. Home[w] \in Repos
            BY ResolutionAssumption DEF Repos
        <3>2. primary[Home[w]] = Share(Home[w])
            BY <2>1, <3>1 DEF RInv, Resolved
        <3>3. applied = packages
            BY <2>1 DEF RInv, Resolved, IInv, IntegratedAsReviewed
        <3> QED  BY <3>2, <3>3 DEF Share
    <2> QED  BY <2>1 DEF RInv, Resolved, AppliedWhole
<1> QED  BY <1>1, RInit, RStep, PTL DEF ResolutionSpec
=============================================================================
