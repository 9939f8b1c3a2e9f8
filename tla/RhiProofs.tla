----------------------------- MODULE RhiProofs -----------------------------
(***************************************************************************)
(* Proofs about Rhi for any number of calls, any surface and any names:    *)
(* the images of a swap chain are those of the native chain it holds, the  *)
(* references of a pass hit the attachments that were meant, and a context *)
(* gives each kind of work the queue that serves it best.                  *)
(***************************************************************************)
EXTENDS Rhi, FiniteSetTheorems, NaturalsInduction, WellFoundedInduction, TLAPS

-----------------------------------------------------------------------------
(* The swap chain.                                                         *)

\* Native chains are numbered as they are made; one whose handle was lost has been
\* counted as left behind.
ChainInv ==
    /\ made \in Nat /\ slips \in Nat /\ current \in Nat
    /\ live \subseteq 1..made
    /\ chain # made => Cardinality(live) <= slips
    /\ state \in {"made", "begun", "alive", "aborted"}
    /\ ImagesMatchChain

\* A surface that has room gets an image at least.
LEMMA CountPositive ==
    ASSUME NEW c \in Capabilities, c.min > 0
    PROVE  ChooseCount(c) \in Nat /\ ChooseCount(c) > 0
BY ChainAssumption DEF ChooseCount

LEMMA LeftAreFinite ==
    ASSUME ChainInv, NEW x
    PROVE  /\ IsFiniteSet(live) /\ Cardinality(live) \in Nat
           /\ IsFiniteSet(live \ {x}) /\ Cardinality(live \ {x}) \in Nat
           /\ Cardinality(live) <= Cardinality(live \ {x}) + 1
           /\ Cardinality(live \ {x}) <= Cardinality(live)
<1>1. IsFiniteSet(1..made) /\ live \subseteq 1..made
  BY FS_Interval DEF ChainInv
<1>2. IsFiniteSet(live)
  BY <1>1, FS_Subset
<1>3. IsFiniteSet(live \ {x}) /\ Cardinality(live) \in Nat
  BY <1>2, FS_RemoveElement, FS_CardinalityType
<1>4. Cardinality(live \ {x}) \in Nat
  BY <1>3, FS_CardinalityType
<1>5. /\ Cardinality(live) <= Cardinality(live \ {x}) + 1
      /\ Cardinality(live \ {x}) <= Cardinality(live)
  <2>1. Cardinality(live \ {x}) = IF x \in live THEN Cardinality(live) - 1 ELSE Cardinality(live)
    BY <1>2, FS_RemoveElement
  <2> QED
    BY <1>3, <2>1
<1> QED
  BY <1>2, <1>3, <1>4, <1>5

\* What every Fill leaves in images and views.
LEMMA FillFacts ==
    ASSUME ChainInv, NEW c \in Capabilities, c.min > 0,
           NEW k \in 0..ChooseCount(c), NEW old, Fill(c, k, old)
    PROVE  /\ made' = made + 1 /\ chain' = made + 1
           /\ live' = (live \cup {made + 1}) \ old
           /\ images' # <<>> /\ Len(images') \in Nat /\ Len(images') > 0
           /\ \A i \in 1..Len(images') : images'[i] = made + 1
           /\ \A i \in 1..Len(views') : views'[i] = made + 1
           /\ Len(images') - Len(views') \in 0..1
<1>1. PICK count \in ChooseCount(c)..ChooseCount(c) + 1 :
         LET done == IF k = 0 THEN count ELSE k - 1 IN
         /\ k <= count
         /\ images' = [i \in 1..(IF k = 0 THEN count ELSE k) |-> made']
         /\ views' = [i \in 1..done |-> made']
  BY DEF Fill
<1> DEFINE n == IF k = 0 THEN count ELSE k
           m == IF k = 0 THEN count ELSE k - 1
<1>2. n \in Nat /\ n > 0 /\ m \in Nat /\ n - m \in 0..1
  BY <1>1, CountPositive
<1>3. made' = made + 1 /\ chain' = made + 1 /\ live' = (live \cup {made + 1}) \ old
  BY DEF Fill
<1>4. images' = [i \in 1..n |-> made + 1] /\ views' = [i \in 1..m |-> made + 1]
  BY <1>1, <1>3
<1> HIDE DEF n, m
<1>5. Len(images') = n /\ Len(views') = m
  BY <1>2, <1>4
<1>6. images' # <<>>
  BY <1>2, <1>5
<1> QED
  BY <1>2, <1>3, <1>4, <1>5, <1>6

LEMMA ModRange ==
    ASSUME NEW a \in Nat, NEW n \in Nat, n > 0
    PROVE  a % n \in 0..n - 1
BY SMT

\* How many chains are left behind by a Create that fills images: old is what it
\* destroys of the chains before.
LEMMA LeftBehind ==
    ASSUME ChainInv, NEW old, old = {} \/ old = {chain}, Wild \notin old
    PROVE  LET now == (live \cup {made + 1}) \ old IN
           /\ now \subseteq 1..made + 1 /\ made + 1 \in now
           /\ IsFiniteSet(now \ {made + 1}) /\ Cardinality(now \ {made + 1}) \in Nat
           /\ Cardinality(now \ {made + 1}) <= slips + 1
           /\ (old = {chain} \/ made = 0 => Cardinality(now \ {made + 1}) <= slips)
<1>1. /\ made \in Nat /\ slips \in Nat /\ live \subseteq 1..made /\ chain \in {made, 0, Wild}
      /\ Cardinality(live \ {made}) <= slips /\ (chain # made => Cardinality(live) <= slips)
  BY DEF ChainInv, ImagesMatchChain
<1> DEFINE now == (live \cup {made + 1}) \ old
<1>2. made + 1 \notin live /\ made + 1 \in 1..made + 1 /\ live \subseteq 1..made + 1 /\ 0 \notin live
  BY <1>1
<1>3. made + 1 \notin old
  BY <1>1 DEF Wild
<1>4. now \subseteq 1..made + 1 /\ made + 1 \in now /\ now \ {made + 1} = live \ old
  BY <1>2, <1>3
<1> HIDE DEF now
<1>5. /\ IsFiniteSet(live) /\ IsFiniteSet(live \ {made}) /\ Cardinality(live) \in Nat
      /\ Cardinality(live \ {made}) \in Nat
      /\ Cardinality(live) <= Cardinality(live \ {made}) + 1
  BY LeftAreFinite
<1>6. CASE old = {chain} /\ chain = made
  BY <1>1, <1>4, <1>5, <1>6 DEF now
<1>7. CASE old = {chain} /\ chain # made
  <2>1. chain = 0
    BY <1>1, <1>7
  <2>2. live \ old = live
    BY <1>2, <1>7, <2>1
  <2> QED
    BY <1>1, <1>4, <1>5, <1>7, <2>2 DEF now
<1>8. CASE old = {}
  <2>1. live \ old = live
    BY <1>8
  <2>2. Cardinality(live) <= slips + 1
    BY <1>1, <1>5
  <2>3. made = 0 => Cardinality(live) <= slips
    <3> SUFFICES ASSUME made = 0 PROVE Cardinality(live) <= slips
      OBVIOUS
    <3>1. live = {}
      BY <1>1
    <3> QED
      BY <1>1, <3>1, FS_EmptySet
  <2> QED
    BY <1>4, <1>5, <1>8, <2>1, <2>2, <2>3 DEF now
<1> QED
  BY <1>6, <1>7, <1>8

\* What the images and views of a Fill are is the same wherever it ends.
LEMMA FillKeeps ==
    ASSUME ChainInv, NEW c \in Capabilities, c.min > 0, NEW k \in 0..ChooseCount(c), NEW old,
           old = {} \/ old = {chain}, Wild \notin old, Fill(c, k, old), current' = current,
           state' \in {"begun", "alive"}, slips' \in Nat,
           slips' = slips + 1 \/ (slips' = slips /\ (old = {chain} \/ made = 0))
    PROVE  ChainInv'
<1>1. /\ made' = made + 1 /\ chain' = made + 1 /\ live' = (live \cup {made + 1}) \ old
      /\ images' # <<>> /\ Len(images') \in Nat /\ Len(images') > 0
      /\ \A i \in 1..Len(images') : images'[i] = made + 1
      /\ \A i \in 1..Len(views') : views'[i] = made + 1
      /\ Len(images') - Len(views') \in 0..1
  BY FillFacts
<1>2. made \in Nat /\ slips \in Nat /\ current \in Nat
  BY DEF ChainInv
<1>3. /\ live' \subseteq 1..made' /\ made' \in live' /\ Cardinality(live' \ {made'}) \in Nat
      /\ Cardinality(live' \ {made'}) <= slips'
  BY <1>1, <1>2, LeftBehind
<1>4. CurrentImageIndex' \in 0..Len(images') - 1
  BY <1>1, <1>2, ModRange DEF CurrentImageIndex
<1>5. ImagesMatchChain'
  BY <1>1, <1>3, <1>4 DEF ImagesMatchChain
<1> QED
  BY <1>1, <1>2, <1>3, <1>5 DEF ChainInv

\* A creation that is refused: the handle may be lost, and then its chain is.
LEMMA NotCreatedKeeps ==
    ASSUME ChainInv, NotCreated, current' = current
    PROVE  ChainInv'
<1>1. /\ made \in Nat /\ slips \in Nat /\ current \in Nat /\ live \subseteq 1..made
      /\ chain \in {made, 0, Wild} /\ (chain # made => Cardinality(live) <= slips)
      /\ Cardinality(live \ {made}) <= slips /\ state \in {"made", "begun", "alive", "aborted"}
  BY DEF ChainInv, ImagesMatchChain
<1>2. /\ chain' \in {chain, 0, Wild} /\ UNCHANGED <<live, made, images, views, current>>
      /\ slips' = slips + (IF chain' = chain THEN 0 ELSE 1) /\ state' = Begun
  BY DEF NotCreated
<1>3. state' \in {"begun", "alive", "aborted"} /\ (state' = "alive" => state = "alive")
  BY <1>1, <1>2 DEF Begun
<1>4. Cardinality(live) \in Nat /\ Cardinality(live \ {made}) \in Nat
      /\ Cardinality(live) <= Cardinality(live \ {made}) + 1
  BY LeftAreFinite
<1>5. slips' \in Nat /\ slips <= slips' /\ (chain' # chain => slips' = slips + 1)
  BY <1>1, <1>2
<1>6. chain' # made => Cardinality(live) <= slips'
  BY <1>1, <1>4, <1>5
<1>7. Cardinality(live \ {made}) <= slips'
  BY <1>1, <1>4, <1>5
<1>8. CurrentImageIndex' = CurrentImageIndex
  BY <1>2 DEF CurrentImageIndex
<1>9. ImagesMatchChain'
  BY <1>1, <1>2, <1>3, <1>7, <1>8 DEF ImagesMatchChain, ChainInv
<1> QED
  BY <1>1, <1>2, <1>3, <1>5, <1>6, <1>9 DEF ChainInv

\* What leaves all but the state as it was, and does not make it alive.
LEMMA OnlyState ==
    ASSUME ChainInv, UNCHANGED <<chain, live, made, images, views, slips, current>>,
           state' \in {"made", "begun", "alive", "aborted"}, state' = "alive" => state = "alive"
    PROVE  ChainInv'
BY DEF ChainInv, ImagesMatchChain, CurrentImageIndex

LEMMA ChainKeeps ==
    ASSUME ChainInv, ChainNext, state # "aborted"
    PROVE  ChainInv'
<1>1. ASSUME NEW old, old = {} \/ old = {chain}, Create(old), current' = current
      PROVE  ChainInv'
  <2>1. /\ slips \in Nat /\ Begun \in {"begun", "alive", "aborted"}
        /\ (Begun = "alive" => state = "alive")
    BY DEF ChainInv, Begun
  <2>2. CASE Aborts
    BY <1>1, <2>2, OnlyState DEF Aborts
  <2>3. ASSUME NEW c \in Capabilities, Refused(c) PROVE ChainInv'
    BY <1>1, <2>1, <2>3, OnlyState DEF Refused
  <2>4. CASE NotCreated
    BY <1>1, <2>4, NotCreatedKeeps
  <2>5. ASSUME NEW c \in Capabilities, c.min > 0, CreateFilled(c, old) PROVE ChainInv'
    <3>1. 0 \in 0..ChooseCount(c) /\ Fill(c, 0, old) /\ Wild \notin old /\ state' = "alive"
      BY <2>5, CountPositive DEF CreateFilled
    <3>2. /\ slips' = slips + (IF old = {} /\ made > 0 THEN 1 ELSE 0) /\ made \in Nat
      BY <2>5 DEF CreateFilled, ChainInv
    <3>3. slips' \in Nat /\ (slips' = slips + 1 \/ (slips' = slips /\ (old = {chain} \/ made = 0)))
      BY <1>1, <2>1, <3>2
    <3> QED
      BY <1>1, <2>5, <3>1, <3>3, FillKeeps
  <2>6. ASSUME NEW c \in Capabilities, c.min > 0, CreateHalf(c) PROVE ChainInv'
    <3>1. PICK k \in 1..ChooseCount(c) : Fill(c, k, {})
      BY <2>6 DEF CreateHalf
    <3>2. k \in 0..ChooseCount(c)
      BY <2>6, <3>1, CountPositive
    <3>3. slips' = slips + 1 /\ slips' \in Nat /\ state' \in {"begun", "alive"}
      BY <2>1, <2>6 DEF CreateHalf, Begun, ChainInv
    <3> QED
      BY <1>1, <2>6, <3>1, <3>2, <3>3, FillKeeps
  <2> QED
    BY <1>1, <2>2, <2>3, <2>4, <2>5, <2>6 DEF Create
<1>2. CASE Present
  <2>1. /\ current' = (current + 1) % IndexLimit
        /\ UNCHANGED <<state, chain, live, made, images, views, slips>>
    BY <1>2 DEF Present
  <2>2. current' \in Nat
    <3>1. (current + 1) % IndexLimit \in 0..IndexLimit - 1
      BY ModRange, ChainAssumption DEF ChainInv
    <3> QED
      BY <2>1, <3>1, ChainAssumption
  <2>3. state = "alive" => CurrentImageIndex' \in 0..Len(images') - 1
    <3> SUFFICES ASSUME state = "alive" PROVE current' % Len(images) \in 0..Len(images) - 1
      BY <2>1 DEF CurrentImageIndex
    <3>1. Len(images) \in Nat /\ Len(images) > 0
      BY DEF ChainInv, ImagesMatchChain
    <3> QED
      BY <2>2, <3>1, ModRange
  <2> QED
    BY <2>1, <2>2, <2>3 DEF ChainInv, ImagesMatchChain
<1>3. CASE InitializeChain
  BY <1>1, <1>3 DEF InitializeChain
<1>4. CASE Resize
  <2>1. CASE state = "made"
    BY <1>4, <2>1, OnlyState DEF Resize, Aborts
  <2>2. CASE state # "made"
    BY <1>1, <1>4, <2>2 DEF Resize
  <2> QED
    BY <2>1, <2>2
<1> QED
  BY <1>2, <1>3, <1>4 DEF ChainNext

(***************************************************************************)
(* Whatever the driver refuses, whatever it leaves in the handle then, and *)
(* in whatever order the calls come: a swap chain that was ever created    *)
(* has images, all of the native chain that was made last, which is alive; *)
(* and no more chains are left behind than calls that lose one.            *)
(***************************************************************************)
THEOREM RhiImages == Spec => []ImagesMatchChain
<1>1. Init => ChainInv
  BY FS_EmptySet DEF Init, ChainInit, ChainInv, ImagesMatchChain
<1>2. ChainInv /\ [Next]_rhiVars => ChainInv'
  <2> SUFFICES ASSUME ChainInv, [Next]_rhiVars PROVE ChainInv'
    OBVIOUS
  <2>1. CASE UNCHANGED chainVars
    BY <2>1 DEF chainVars, ChainInv, ImagesMatchChain, CurrentImageIndex
  <2>2. CASE UseChain
    BY <2>2, ChainKeeps DEF UseChain, Call
  <2> QED
    BY <2>1, <2>2 DEF Next, UseContext, UseBuilder, rhiVars
<1>3. ChainInv => ImagesMatchChain
  BY DEF ChainInv
<1> QED
  BY <1>1, <1>2, <1>3, PTL DEF Spec

-----------------------------------------------------------------------------
(* The builder.                                                            *)

Ref == [index : Int, meant : Nat]
Sub == [color : Seq(Ref), input : Seq(Ref), resolve : Seq(Ref), depth : Ref]
Dep == [src : Int, dst : Int]

\* r leads to the attachment that was meant, in a list of attachments.
Hit(r, list) == r.index \in 0..Len(list) - 1 /\ list[r.index + 1] = r.meant

\* So do the references of a subpass, unless its depth is not used.
SubHits(s, list) ==
    /\ \A r \in ToSet(s.color) \cup ToSet(s.input) \cup ToSet(s.resolve) : Hit(r, list)
    /\ s.depth.index # UNUSED_ATTACHMENT => Hit(s.depth, list)

\* A dependency leads from an earlier of n subpasses to a later one, or outside.
DepFits(d, n) ==
    /\ {d.src, d.dst} \subseteq {EXTERNAL_SUBPASS} \cup 0..n - 1
    /\ d.src = EXTERNAL_SUBPASS \/ d.dst = EXTERNAL_SUBPASS \/ d.src < d.dst

BuilderTypes ==
    /\ attachments \in Seq(Nat) /\ added \in Nat
    /\ active = <<>> \/ \E s \in Sub : active = <<s>>
    /\ subpasses \in Seq(Sub)
    /\ dependencies \in Seq(Dep)

\* The names since the last Build lead to the attachments that were given them.
NamesInv ==
    /\ DOMAIN given = DOMAIN nameToIndex
    /\ \A n \in DOMAIN nameToIndex :
          /\ nameToIndex[n] \in 0..Len(attachments) - 1
          /\ attachments[nameToIndex[n] + 1] = given[n]

SubsInv ==
    /\ active # <<>> => SubHits(active[1], attachments)
    /\ \A i \in 1..Len(subpasses) : SubHits(subpasses[i], attachments)

DepsInv == \A i \in 1..Len(dependencies) : DepFits(dependencies[i], Len(subpasses))

BuilderInv == BuilderTypes /\ NamesInv /\ SubsInv /\ DepsInv /\ RefsHit

-----------------------------------------------------------------------------
(* Sequences.                                                              *)

LEMMA AppendFacts ==
    ASSUME NEW S, NEW q \in Seq(S), NEW e \in S
    PROVE  /\ Append(q, e) \in Seq(S) /\ Len(q) \in Nat /\ Len(Append(q, e)) = Len(q) + 1
           /\ \A i \in 1..Len(q) : Append(q, e)[i] = q[i]
           /\ Append(q, e)[Len(q) + 1] = e
           /\ DOMAIN q = 1..Len(q)
OBVIOUS

LEMMA ToSetAppend ==
    ASSUME NEW S, NEW q \in Seq(S), NEW e \in S
    PROVE  \A x \in ToSet(Append(q, e)) : x \in ToSet(q) \/ x = e
<1>1. DOMAIN Append(q, e) = 1..Len(q) + 1
  BY AppendFacts
<1>2. \A i \in 1..Len(q) + 1 : i \in 1..Len(q) \/ i = Len(q) + 1
  BY AppendFacts
<1> QED
  BY <1>1, <1>2, AppendFacts DEF ToSet

\* A list of attachments that grows keeps what was hit.
LEMMA HitGrows ==
    ASSUME NEW list \in Seq(Nat), NEW k \in Nat, NEW r, Hit(r, list)
    PROVE  Hit(r, Append(list, k))
<1>1. r.index + 1 \in 1..Len(list) /\ r.index \in 0..Len(list)
  BY AppendFacts DEF Hit
<1> QED
  BY <1>1, AppendFacts DEF Hit

LEMMA SubGrows ==
    ASSUME NEW list \in Seq(Nat), NEW k \in Nat, NEW s, SubHits(s, list)
    PROVE  SubHits(s, Append(list, k))
BY HitGrows DEF SubHits

\* What a caller may refer to is hit.
LEMMA RefsAreHit ==
    ASSUME BuilderInv, NEW r \in Refs
    PROVE  r \in Ref /\ Hit(r, attachments)
<1>1. attachments \in Seq(Nat) /\ Len(attachments) \in Nat
      /\ DOMAIN attachments = 1..Len(attachments)
      /\ \A i \in 1..Len(attachments) : attachments[i] \in Nat
  BY DEF BuilderInv, BuilderTypes
<1>2. CASE r \in ByIndex
  <2>1. PICK i \in 1..Len(attachments) : r = [index |-> i - 1, meant |-> attachments[i]]
    BY <1>1, <1>2 DEF ByIndex
  <2>2. r.index = i - 1 /\ r.meant = attachments[i] /\ i - 1 + 1 = i /\ i - 1 \in Int
        /\ i - 1 \in 0..Len(attachments) - 1
    BY <1>1, <2>1
  <2>3. r \in Ref
    BY <1>1, <2>1, <2>2 DEF Ref
  <2> QED
    BY <2>2, <2>3 DEF Hit
<1>3. CASE r \in ByName
  <2>1. PICK n \in DOMAIN nameToIndex :
           r = [index |-> nameToIndex[n],
                meant |-> IF n \in DOMAIN given THEN given[n] ELSE 0]
    BY <1>3 DEF ByName
  <2>2. /\ nameToIndex[n] \in 0..Len(attachments) - 1 /\ n \in DOMAIN given
        /\ attachments[nameToIndex[n] + 1] = given[n]
    BY <2>1 DEF BuilderInv, NamesInv
  <2>3. r.index = nameToIndex[n] /\ r.meant = given[n] /\ nameToIndex[n] \in Int
        /\ nameToIndex[n] + 1 \in 1..Len(attachments)
    BY <1>1, <2>1, <2>2
  <2>4. r \in Ref
    BY <1>1, <2>1, <2>2, <2>3 DEF Ref
  <2> QED
    BY <2>2, <2>3, <2>4 DEF Hit
<1> QED
  BY <1>2, <1>3 DEF Refs

-----------------------------------------------------------------------------
(* The steps of the builder.                                               *)

LEMMA PushKeeps ==
    ASSUME BuilderInv, Push
    PROVE  /\ attachments' \in Seq(Nat) /\ added' \in Nat
           /\ Len(attachments) \in Nat /\ Len(attachments') = Len(attachments) + 1
           /\ \A i \in 1..Len(attachments) : attachments'[i] = attachments[i]
           /\ attachments'[Len(attachments) + 1] = added'
           /\ SubsInv' /\ DepsInv' /\ RefsHit'
           /\ UNCHANGED <<active, subpasses, dependencies>>
<1>1. /\ added' \in Nat /\ attachments' = Append(attachments, added')
      /\ attachments \in Seq(Nat)
      /\ UNCHANGED <<active, subpasses, dependencies, pass>>
  BY DEF Push, BuilderInv, BuilderTypes
<1>2. SubsInv'
  <2>1. active # <<>> => SubHits(active[1], attachments')
    BY <1>1, SubGrows DEF BuilderInv, SubsInv
  <2>2. \A i \in 1..Len(subpasses) : SubHits(subpasses[i], attachments')
    BY <1>1, SubGrows DEF BuilderInv, SubsInv
  <2> QED
    BY <1>1, <2>1, <2>2 DEF SubsInv
<1>3. DepsInv' /\ RefsHit'
  BY <1>1 DEF BuilderInv, DepsInv, RefsHit, Hits
<1> QED
  BY <1>1, <1>2, <1>3, AppendFacts

LEMMA AddKeeps ==
    ASSUME BuilderInv, AddUnnamed \/ \E n \in Names : AddNamed(n)
    PROVE  BuilderInv'
<1>1. Push
  BY DEF AddUnnamed, AddNamed
<1>2. /\ attachments' \in Seq(Nat) /\ added' \in Nat
      /\ Len(attachments) \in Nat /\ Len(attachments') = Len(attachments) + 1
      /\ \A i \in 1..Len(attachments) : attachments'[i] = attachments[i]
      /\ attachments'[Len(attachments) + 1] = added'
      /\ SubsInv' /\ DepsInv' /\ RefsHit'
      /\ UNCHANGED <<active, subpasses, dependencies>>
  BY <1>1, PushKeeps
<1>3. BuilderTypes'
  BY <1>2 DEF BuilderInv, BuilderTypes
<1>4. \A m \in DOMAIN nameToIndex :
         /\ nameToIndex[m] \in 0..Len(attachments') - 1
         /\ nameToIndex[m] + 1 \in 1..Len(attachments)
         /\ attachments'[nameToIndex[m] + 1] = given[m]
  BY <1>2 DEF BuilderInv, NamesInv
<1>5. NamesInv'
  <2>1. CASE AddUnnamed
    BY <1>4, <2>1 DEF AddUnnamed, NamesInv, BuilderInv
  <2>2. ASSUME NEW n \in Names, AddNamed(n) PROVE NamesInv'
    <3>1. /\ nameToIndex' = With(nameToIndex, n, Len(attachments))
          /\ given' = With(given, n, added')
          /\ DOMAIN given = DOMAIN nameToIndex
      BY <2>2 DEF AddNamed, BuilderInv, NamesInv
    <3>2. /\ DOMAIN nameToIndex' = DOMAIN nameToIndex \cup {n}
          /\ DOMAIN given' = DOMAIN nameToIndex \cup {n}
          /\ nameToIndex'[n] = Len(attachments) /\ given'[n] = added'
          /\ \A m \in DOMAIN nameToIndex \ {n} :
                nameToIndex'[m] = nameToIndex[m] /\ given'[m] = given[m]
      BY <3>1 DEF With
    <3>3. ASSUME NEW m \in DOMAIN nameToIndex'
          PROVE  /\ nameToIndex'[m] \in 0..Len(attachments') - 1
                 /\ attachments'[nameToIndex'[m] + 1] = given'[m]
      <4>1. CASE m = n
        BY <1>2, <3>2, <4>1
      <4>2. CASE m # n
        BY <1>4, <3>2, <4>2
      <4> QED
        BY <4>1, <4>2
    <3> QED
      BY <3>2, <3>3 DEF NamesInv
  <2> QED
    BY <2>1, <2>2
<1> QED
  BY <1>2, <1>3, <1>5 DEF BuilderInv

\* The open subpass, if there is one, is replaced by s or closed.
LEMMA ActiveKeeps ==
    ASSUME BuilderInv, NEW s \in Sub, SubHits(s, attachments), active' = <<s>>,
           UNCHANGED <<attachments, nameToIndex, subpasses, dependencies, added, given, pass>>
    PROVE  BuilderInv'
<1>1. BuilderTypes'
  BY DEF BuilderInv, BuilderTypes
<1>2. NamesInv' /\ DepsInv' /\ RefsHit'
  BY DEF BuilderInv, NamesInv, DepsInv, RefsHit, Hits
<1>3. SubsInv'
  <2>1. active'[1] = s
    OBVIOUS
  <2> QED
    BY <2>1 DEF BuilderInv, SubsInv
<1> QED
  BY <1>1, <1>2, <1>3 DEF BuilderInv

LEMMA BeginKeeps ==
    ASSUME BuilderInv, BeginSubpass
    PROVE  BuilderInv'
<1> DEFINE s == [color |-> <<>>, input |-> <<>>, resolve |-> <<>>, depth |-> Unused]
<1>1. s \in Sub
  BY DEF Sub, Unused, UNUSED_ATTACHMENT, Ref
<1>2. SubHits(s, attachments)
  <2>1. ToSet(<<>>) = {}
    BY DEF ToSet
  <2> QED
    BY <2>1 DEF SubHits, Unused
<1> HIDE DEF s
<1>3. /\ active' = <<s>>
      /\ UNCHANGED <<attachments, nameToIndex, subpasses, dependencies, added, given, pass>>
  BY DEF BeginSubpass, s
<1> QED
  BY <1>1, <1>2, <1>3, ActiveKeeps

\* The subpass that is open, once a call has found that one is.
LEMMA OpenSubpass ==
    ASSUME BuilderInv, active # <<>>
    PROVE  active[1] \in Sub /\ active = <<active[1]>> /\ SubHits(active[1], attachments)
BY DEF BuilderInv, BuilderTypes, SubsInv

LEMMA AddRefKeeps ==
    ASSUME BuilderInv, NEW r \in Refs, NEW list \in {"color", "input", "resolve"},
           AddRef(list, r)
    PROVE  BuilderInv'
<1> DEFINE old == active[1]
           new == [old EXCEPT ![list] = Append(old[list], r)]
<1>1. old \in Sub /\ active = <<old>> /\ SubHits(old, attachments)
  BY OpenSubpass DEF AddRef
<1>2. r \in Ref /\ Hit(r, attachments)
  BY RefsAreHit
<1>3. active' = <<new>>
  BY SMTT(15), <1>1 DEF AddRef
<1>4. old[list] \in Seq(Ref) /\ Append(old[list], r) \in Seq(Ref)
  <2>1. old[list] \in Seq(Ref)
    BY <1>1 DEF Sub
  <2> QED
    BY <1>2, <2>1, AppendFacts
<1>5. new \in Sub
  BY <1>1, <1>4 DEF Sub
<1>6. \A x \in ToSet(Append(old[list], r)) : x \in ToSet(old[list]) \/ x = r
  BY <1>2, <1>4, ToSetAppend
<1>7. /\ new[list] = Append(old[list], r) /\ new.depth = old.depth
      /\ \A l \in {"color", "input", "resolve"} \ {list} : new[l] = old[l]
  BY <1>1 DEF Sub
<1>8. \A l \in {"color", "input", "resolve"} : \A x \in ToSet(new[l]) : Hit(x, attachments)
  <2> TAKE l \in {"color", "input", "resolve"}
  <2>1. \A x \in ToSet(old[l]) : Hit(x, attachments)
    BY <1>1 DEF SubHits
  <2>2. CASE l = list
    BY <1>2, <1>6, <1>7, <2>1, <2>2
  <2>3. CASE l # list
    BY <1>7, <2>1, <2>3
  <2> QED
    BY <2>2, <2>3
<1>9. SubHits(new, attachments)
  BY <1>1, <1>7, <1>8 DEF SubHits
<1> HIDE DEF old, new
<1> QED
  BY <1>3, <1>5, <1>9, ActiveKeeps DEF AddRef

LEMMA SetDepthKeeps ==
    ASSUME BuilderInv, NEW r \in Refs, SetDepth(r)
    PROVE  BuilderInv'
<1> DEFINE old == active[1]
           new == [old EXCEPT !.depth = r]
<1>1. old \in Sub /\ active = <<old>> /\ SubHits(old, attachments)
  BY OpenSubpass DEF SetDepth
<1>2. r \in Ref /\ Hit(r, attachments)
  BY RefsAreHit
<1>3. active' = <<new>>
  BY <1>1 DEF SetDepth
<1>4. new \in Sub
  BY <1>1, <1>2 DEF Sub
<1>5. /\ new.color = old.color /\ new.input = old.input /\ new.resolve = old.resolve
      /\ new.depth = r
  BY <1>1 DEF Sub
<1>6. SubHits(new, attachments)
  BY <1>1, <1>2, <1>5 DEF SubHits
<1> HIDE DEF old, new
<1> QED
  BY <1>3, <1>4, <1>6, ActiveKeeps DEF SetDepth

LEMMA EndKeeps ==
    ASSUME BuilderInv, EndSubpass
    PROVE  BuilderInv'
<1> DEFINE s == active[1]
<1>1. s \in Sub /\ SubHits(s, attachments)
  BY OpenSubpass DEF EndSubpass
<1>2. /\ subpasses' = Append(subpasses, s) /\ active' = <<>>
      /\ UNCHANGED <<attachments, nameToIndex, dependencies, added, given, pass>>
  BY DEF EndSubpass
<1> HIDE DEF s
<1>3. /\ subpasses' \in Seq(Sub) /\ Len(subpasses') = Len(subpasses) + 1
      /\ Len(subpasses) \in Nat /\ subpasses'[Len(subpasses) + 1] = s
      /\ \A i \in 1..Len(subpasses) : subpasses'[i] = subpasses[i]
  BY <1>1, <1>2, AppendFacts DEF BuilderInv, BuilderTypes
<1>4. BuilderTypes'
  BY <1>2, <1>3 DEF BuilderInv, BuilderTypes
<1>5. NamesInv' /\ RefsHit'
  BY <1>2 DEF BuilderInv, NamesInv, RefsHit, Hits
<1>6. SubsInv'
  <2>1. \A i \in 1..Len(subpasses') : i \in 1..Len(subpasses) \/ i = Len(subpasses) + 1
    BY <1>3
  <2> QED
    BY <1>1, <1>2, <1>3, <2>1 DEF BuilderInv, SubsInv
<1>7. DepsInv'
  <2>1. \A d : DepFits(d, Len(subpasses)) => DepFits(d, Len(subpasses'))
    BY <1>3 DEF DepFits
  <2> QED
    BY <1>2, <2>1 DEF BuilderInv, DepsInv
<1> QED
  BY <1>4, <1>5, <1>6, <1>7 DEF BuilderInv

LEMMA DependKeeps ==
    ASSUME BuilderInv, ChainDependency \/ ExternalToFirst \/ LastToExternal
    PROVE  BuilderInv'
<1>1. Len(subpasses) \in Nat /\ (subpasses # <<>> => Len(subpasses) > 0)
  BY DEF BuilderInv, BuilderTypes
<1>2. PICK src \in Int, dst \in Int :
         Depend(src, dst) /\ DepFits([src |-> src, dst |-> dst], Len(subpasses))
  <2>1. CASE ChainDependency
    <3> DEFINE a == Len(subpasses) - 2
               b == Len(subpasses) - 1
    <3>1. Depend(a, b) /\ a \in Int /\ b \in Int /\ a < b
          /\ {a, b} \subseteq 0..Len(subpasses) - 1
      BY <1>1, <2>1 DEF ChainDependency
    <3> HIDE DEF a, b
    <3>2. DepFits([src |-> a, dst |-> b], Len(subpasses))
      BY <3>1 DEF DepFits
    <3> QED
      BY <3>1, <3>2
  <2>2. CASE ExternalToFirst
    <3>1. Depend(EXTERNAL_SUBPASS, 0) /\ EXTERNAL_SUBPASS \in Int
          /\ 0 \in 0..Len(subpasses) - 1
      BY <1>1, <2>2 DEF ExternalToFirst, EXTERNAL_SUBPASS
    <3>2. DepFits([src |-> EXTERNAL_SUBPASS, dst |-> 0], Len(subpasses))
      BY <3>1 DEF DepFits
    <3> QED
      BY <3>1, <3>2
  <2>3. CASE LastToExternal
    <3> DEFINE a == Len(subpasses) - 1
    <3>1. Depend(a, EXTERNAL_SUBPASS) /\ EXTERNAL_SUBPASS \in Int /\ a \in Int
          /\ a \in 0..Len(subpasses) - 1
      BY <1>1, <2>3 DEF LastToExternal, EXTERNAL_SUBPASS
    <3> HIDE DEF a
    <3>2. DepFits([src |-> a, dst |-> EXTERNAL_SUBPASS], Len(subpasses))
      BY <3>1 DEF DepFits
    <3> QED
      BY <3>1, <3>2
  <2> QED
    BY <2>1, <2>2, <2>3
<1> DEFINE d == [src |-> src, dst |-> dst]
<1>3. /\ d \in Dep /\ dependencies' = Append(dependencies, d)
      /\ UNCHANGED <<attachments, nameToIndex, active, subpasses, added, given, pass>>
  BY <1>2 DEF Depend, Dep
<1>4. DepFits(d, Len(subpasses))
  BY <1>2
<1> HIDE DEF d
<1>5. /\ dependencies' \in Seq(Dep) /\ Len(dependencies') = Len(dependencies) + 1
      /\ Len(dependencies) \in Nat /\ dependencies'[Len(dependencies) + 1] = d
      /\ \A i \in 1..Len(dependencies) : dependencies'[i] = dependencies[i]
  BY <1>3, AppendFacts DEF BuilderInv, BuilderTypes
<1>6. BuilderTypes'
  BY <1>3, <1>5 DEF BuilderInv, BuilderTypes
<1>7. NamesInv' /\ SubsInv' /\ RefsHit'
  BY <1>3 DEF BuilderInv, NamesInv, SubsInv, RefsHit, Hits
<1>8. DepsInv'
  <2>1. \A i \in 1..Len(dependencies') : i \in 1..Len(dependencies) \/ i = Len(dependencies) + 1
    BY <1>5
  <2> QED
    BY <1>3, <1>4, <1>5, <2>1 DEF BuilderInv, DepsInv
<1> QED
  BY <1>6, <1>7, <1>8 DEF BuilderInv

LEMMA BuildKeeps ==
    ASSUME BuilderInv, Build
    PROVE  BuilderInv'
<1>1. /\ pass' = Built /\ active' = <<>> /\ attachments' = <<>> /\ subpasses' = <<>>
      /\ dependencies' = <<>> /\ nameToIndex' = NoName /\ given' = NoName /\ added' = added
  BY DEF Build
<1>2. BuilderTypes' /\ NamesInv' /\ SubsInv' /\ DepsInv'
  BY <1>1 DEF BuilderInv, BuilderTypes, NamesInv, SubsInv, DepsInv, NoName
<1>3. /\ pass'.attachments = attachments /\ pass'.dependencies = dependencies
      /\ DOMAIN pass'.subpasses = DOMAIN subpasses
      /\ \A i \in DOMAIN subpasses : pass'.subpasses[i] = Native(subpasses[i])
  BY <1>1 DEF Built
<1>4. /\ DOMAIN subpasses = 1..Len(subpasses) /\ Len(subpasses) \in Nat
      /\ DOMAIN dependencies = 1..Len(dependencies)
  BY DEF BuilderInv, BuilderTypes
<1>5. Len(pass'.subpasses) = Len(subpasses)
  <2>1. pass'.subpasses = [i \in 1..Len(subpasses) |-> Native(subpasses[i])]
    BY <1>1, <1>4 DEF Built
  <2> QED
    BY <1>4, <2>1
<1>6. \A r : Hit(r, attachments) => Hits(r)'
  BY <1>3 DEF Hit, Hits
<1>7. ASSUME NEW i \in DOMAIN subpasses,
             NEW r \in ToSet(Native(subpasses[i]).color) \cup ToSet(Native(subpasses[i]).input)
                       \cup ToSet(Native(subpasses[i]).resolve)
                       \cup ToSet(Native(subpasses[i]).depth)
      PROVE  Hit(r, attachments)
  <2>1. SubHits(subpasses[i], attachments)
    BY <1>4 DEF BuilderInv, SubsInv
  <2>2. CASE r \in ToSet(Native(subpasses[i]).depth)
    <3>1. subpasses[i].depth.index # UNUSED_ATTACHMENT /\ r = subpasses[i].depth
      BY <2>2 DEF Native, ToSet
    <3> QED
      BY <2>1, <3>1 DEF SubHits
  <2>3. CASE r \notin ToSet(Native(subpasses[i]).depth)
    BY <2>1, <2>3 DEF SubHits, Native
  <2> QED
    BY <2>2, <2>3
<1>8. \A i \in DOMAIN dependencies : DepFits(dependencies[i], Len(subpasses))
  BY <1>4 DEF BuilderInv, DepsInv
<1>9. RefsHit'
  BY <1>3, <1>5, <1>6, <1>7, <1>8 DEF RefsHit, DepFits
<1> QED
  BY <1>2, <1>9 DEF BuilderInv

(***************************************************************************)
(* However often a builder is used, and for any names: every reference of  *)
(* a pass that it built is to the attachment that was meant, and the ends  *)
(* of its dependencies are subpasses of that pass.                         *)
(***************************************************************************)
THEOREM RhiRefs == Spec => []RefsHit
<1>1. Init => BuilderInv
  BY DEF Init, BuilderInit, BuilderInv, BuilderTypes, NamesInv, SubsInv, DepsInv, RefsHit,
         NoName, NoPass
<1>2. BuilderInv /\ [Next]_rhiVars => BuilderInv'
  <2> SUFFICES ASSUME BuilderInv, [Next]_rhiVars PROVE BuilderInv'
    OBVIOUS
  <2>1. CASE UNCHANGED builderVars
    BY <2>1 DEF builderVars, BuilderInv, BuilderTypes, NamesInv, SubsInv, DepsInv, RefsHit, Hits
  <2>2. CASE BuilderNext
    BY <2>2, AddKeeps, BeginKeeps, EndKeeps, BuildKeeps, SetDepthKeeps, AddRefKeeps,
       DependKeeps DEF BuilderNext
  <2> QED
    BY <2>1, <2>2 DEF Next, UseContext, UseChain, UseBuilder, rhiVars
<1>3. BuilderInv => RefsHit
  BY DEF BuilderInv
<1> QED
  BY <1>1, <1>2, <1>3, PTL DEF Spec

-----------------------------------------------------------------------------
(* The queue of a command buffer.                                          *)

\* A set with 0 that is closed under successor has all natural numbers.
LEMMA NatBySteps ==
    ASSUME NEW T \in SUBSET Nat, 0 \in T, \A n \in Nat : n \in T => n + 1 \in T
    PROVE  \A n \in Nat : n \in T
<1> SUFFICES ASSUME Nat \ T # {} PROVE FALSE
  OBVIOUS
<1> DEFINE R == OpToRel(<, Nat)
<1>1. IsWellFoundedOn(R, Nat)
  BY NatLessThanWellFounded
<1>2. \A x, y \in Nat : x < y => <<x, y>> \in R
  BY DEF OpToRel
<1> HIDE DEF R
<1>3. PICK m \in Nat \ T : \A k \in Nat \ T : ~(<<k, m>> \in R)
  <2>1. Nat \ T \in SUBSET Nat
    OBVIOUS
  <2> QED
    BY <1>1, <2>1, WFMin
<1>4. m # 0 /\ m - 1 \in Nat /\ (m - 1) + 1 = m /\ m - 1 < m
  OBVIOUS
<1>5. m - 1 \in T
  BY <1>2, <1>3, <1>4
<1> QED
  BY <1>3, <1>4, <1>5

\* What a count of bits is, that Extra gives.
LEMMA ExtraRange ==
    ASSUME NEW flags \in SUBSET QueueBits, NEW need
    PROVE  /\ Cardinality(QueueBits) \in Nat /\ Cardinality(flags \ need) \in Nat
           /\ Cardinality(flags \ need) <= Cardinality(QueueBits)
<1>1. IsFiniteSet(QueueBits)
  <2>1. IsFiniteSet({} \cup {"eDirect"})
    BY FS_EmptySet, FS_AddElement
  <2>2. IsFiniteSet(({} \cup {"eDirect"}) \cup {"eCompute"})
    BY <2>1, FS_AddElement
  <2>3. IsFiniteSet((({} \cup {"eDirect"}) \cup {"eCompute"}) \cup {"eTransfer"})
    BY <2>2, FS_AddElement
  <2>4. IsFiniteSet(((({} \cup {"eDirect"}) \cup {"eCompute"}) \cup {"eTransfer"}) \cup {"ePresent"})
    BY <2>3, FS_AddElement
  <2>5. QueueBits = ((({} \cup {"eDirect"}) \cup {"eCompute"}) \cup {"eTransfer"}) \cup {"ePresent"}
    BY DEF QueueBits
  <2> QED
    BY <2>4, <2>5
<1>2. flags \ need \in SUBSET QueueBits
  OBVIOUS
<1>3. IsFiniteSet(flags \ need)
  BY <1>1, <1>2, FS_Subset
<1> QED
  BY <1>1, <1>2, <1>3, FS_Subset, FS_CardinalityType

\* The queues are those of families, in order, and there is a pool of each, or of
\* the first of them.
ContextInv ==
    /\ Len(queueInfos) \in Nat /\ \E n \in 0..Len(queueInfos) : pools = PoolFamilies(n)
    /\ \A p \in 1..Len(queueInfos) : /\ queueInfos[p].index = p - 1
                                     /\ queueInfos[p].flags \in SUBSET QueueBits
    /\ ctx = "made" => buffers = {} /\ Len(queueInfos) = 0
    /\ QueuesServe

\* The best of the queues up to p is known: none that has the flags, or one that
\* no other of them beats.
BestOf(best, p, need) ==
    /\ best.extra \in Nat /\ best.exact \in BOOLEAN /\ (best.exact => best.extra = 0)
    /\ \/ best.index = Null /\ best.extra = Cardinality(QueueBits) + 1
       \/ /\ best.index \in 1..p /\ need \subseteq queueInfos[best.index].flags
          /\ best.extra = Extra(best.index, need)
    /\ \A q \in 1..p : need \subseteq queueInfos[q].flags => best.extra <= Extra(q, need)

LEMMA ExtraNat ==
    ASSUME ContextInv, NEW p \in 1..Len(queueInfos), NEW need
    PROVE  /\ Extra(p, need) \in Nat /\ Cardinality(QueueBits) \in Nat
           /\ Extra(p, need) < Cardinality(QueueBits) + 1
<1> DEFINE K == Cardinality(QueueBits)
           E == Cardinality(queueInfos[p].flags \ need)
<1>1. queueInfos[p].flags \in SUBSET QueueBits
  BY DEF ContextInv
<1>2. K \in Nat /\ E \in Nat /\ E <= K
  BY <1>1, ExtraRange
<1>3. Extra(p, need) = E
  BY DEF Extra
<1> HIDE DEF K, E
<1>4. E < K + 1
  BY <1>2
<1> QED
  BY <1>2, <1>3, <1>4 DEF K

LEMMA BetterIsBest ==
    ASSUME ContextInv, NEW need, NEW p \in 1..Len(queueInfos), NEW best,
           BestOf(best, p - 1, need)
    PROVE  BestOf(Better(best, p, need), p, need)
<1>1. Extra(p, need) \in Nat /\ Len(queueInfos) \in Nat
  BY ExtraNat DEF ContextInv
<1>2. \A q \in 1..p : q \in 1..p - 1 \/ q = p
  BY <1>1
<1>3. CASE best.exact \/ ~(need \subseteq queueInfos[p].flags) \/ Extra(p, need) >= best.extra
  <2>1. Better(best, p, need) = best
    BY <1>3 DEF Better
  <2>2. need \subseteq queueInfos[p].flags => best.extra <= Extra(p, need)
    BY <1>1, <1>3 DEF BestOf
  <2>3. best.index \in 1..p - 1 => best.index \in 1..p
    BY <1>1
  <2> QED
    BY <1>2, <2>1, <2>2, <2>3 DEF BestOf
<1>4. CASE ~(best.exact \/ ~(need \subseteq queueInfos[p].flags) \/ Extra(p, need) >= best.extra)
  <2> DEFINE new == [index |-> p, extra |-> Extra(p, need), exact |-> Extra(p, need) = 0]
  <2>1. Better(best, p, need) = new
    BY <1>4 DEF Better
  <2>2. /\ new.index = p /\ new.extra = Extra(p, need) /\ new.exact \in BOOLEAN
        /\ (new.exact => new.extra = 0)
    OBVIOUS
  <2>3. need \subseteq queueInfos[p].flags /\ Extra(p, need) < best.extra
    BY <1>1, <1>4 DEF BestOf
  <2>4. \A q \in 1..p - 1 : Extra(q, need) \in Nat
    BY <1>1, ExtraNat
  <2>5. \A q \in 1..p - 1 : need \subseteq queueInfos[q].flags => Extra(p, need) <= Extra(q, need)
    BY <1>1, <2>3, <2>4 DEF BestOf
  <2>6. p \in 1..p
    BY <1>1
  <2> HIDE DEF new
  <2> QED
    BY <1>1, <1>2, <2>1, <2>2, <2>3, <2>5, <2>6 DEF BestOf
<1> QED
  BY <1>3, <1>4

\* There is a function that calls itself as GetQueueIndex's does.
LEMMA BestExists ==
    ASSUME NEW n \in Nat, NEW need
    PROVE  \E b : b = [p \in 0..n |-> IF p = 0 THEN None ELSE Better(b[p - 1], p, need)]
<1> DEFINE Is(b, m) == b = [p \in 0..m |-> IF p = 0 THEN None ELSE Better(b[p - 1], p, need)]
           T == {m \in Nat : \E b : Is(b, m)}
<1>1. \E b : Is(b, 0)
  <2> DEFINE b == [p \in 0..0 |-> None]
  <2>1. b = [p \in 0..0 |-> IF p = 0 THEN None ELSE Better(b[p - 1], p, need)]
    OBVIOUS
  <2> QED
    BY <2>1
<1>2. ASSUME NEW m \in Nat, \E b : Is(b, m) PROVE \E b : Is(b, m + 1)
  <2>1. PICK b : Is(b, m)
    BY <1>2
  <2> DEFINE g == [p \in 0..m + 1 |-> IF p = 0 THEN None ELSE Better(b[p - 1], p, need)]
  <2>2. \A p \in 0..m : g[p] = b[p]
    BY <2>1
  <2>3. \A p \in 0..m + 1 : p # 0 => p - 1 \in 0..m
    OBVIOUS
  <2>4. \A p \in 0..m + 1 : p # 0 => g[p - 1] = b[p - 1]
    <3> HIDE DEF g
    <3> QED
      BY <2>2, <2>3
  <2>5. g = [p \in 0..m + 1 |-> IF p = 0 THEN None ELSE Better(g[p - 1], p, need)]
    BY <2>4
  <2> QED
    BY <2>5
<1> HIDE DEF Is
<1>3. \A m \in Nat : m \in T => m + 1 \in T
  BY <1>2
<1>4. 0 \in T /\ T \in SUBSET Nat
  BY <1>1
<1>5. \A m \in Nat : m \in T
  <2> HIDE DEF T
  <2> QED
    BY <1>3, <1>4, NatBySteps
<1> QED
  BY <1>5 DEF Is

LEMMA BestThroughout ==
    ASSUME ContextInv, NEW need, NEW b,
           b = [p \in 0..Len(queueInfos) |->
                   IF p = 0 THEN None ELSE Better(b[p - 1], p, need)]
    PROVE  BestOf(b[Len(queueInfos)], Len(queueInfos), need)
<1> DEFINE n == Len(queueInfos)
           T == {m \in Nat : m <= n => BestOf(b[m], m, need)}
<1>0. n \in Nat
  BY DEF ContextInv
<1>1. b[0] = None /\ \A p \in 1..n : b[p] = Better(b[p - 1], p, need)
  BY <1>0
<1>2. 0 \in T
  <2> DEFINE K == Cardinality(QueueBits)
  <2>1. K \in Nat
    BY ExtraRange
  <2>2. None.index = Null /\ None.extra = K + 1 /\ None.exact = FALSE
    BY DEF None
  <2> HIDE DEF K
  <2>3. None.extra \in Nat
    BY <2>1, <2>2
  <2>4. \A q \in 1..0 : FALSE
    OBVIOUS
  <2>5. ~None.exact /\ None.exact \in BOOLEAN
    BY <2>2
  <2>6. None.extra = Cardinality(QueueBits) + 1
    BY <2>2 DEF K
  <2>7. BestOf(None, 0, need)
    BY ZenonT(20), <2>2, <2>3, <2>4, <2>5, <2>6 DEF BestOf
  <2> QED
    BY <1>1, <2>7
<1> HIDE DEF n
<1>3. ASSUME NEW m \in Nat, m \in T PROVE m + 1 \in T
  <2> SUFFICES ASSUME m + 1 <= n PROVE BestOf(b[m + 1], m + 1, need)
    OBVIOUS
  <2>1. m + 1 \in 1..n /\ (m + 1) - 1 = m /\ BestOf(b[m], m, need)
    BY <1>0, <1>3
  <2>2. b[m + 1] = Better(b[m], m + 1, need)
    BY <1>1, <2>1
  <2> QED
    BY <2>1, <2>2, BetterIsBest DEF n
<1>4. T \in SUBSET Nat
  OBVIOUS
<1>5. \A m \in Nat : m \in T
  <2> HIDE DEF T
  <2> QED
    BY <1>2, <1>3, <1>4, NatBySteps
<1>6. n \in T
  <2> HIDE DEF T
  <2> QED
    BY <1>0, <1>5
<1>7. BestOf(b[n], n, need)
  BY <1>6
<1> QED
  BY <1>7 DEF n

\* The search ends with no queue, or with one that has the flags and that no
\* other with them has fewer others than.
LEMMA IndexServes ==
    ASSUME ContextInv, NEW need, GetQueueIndex(need) # Null
    PROVE  /\ GetQueueIndex(need) \in 1..Len(queueInfos)
           /\ need \subseteq queueInfos[GetQueueIndex(need)].flags
           /\ \A q \in 1..Len(queueInfos) : need \subseteq queueInfos[q].flags =>
                 Extra(GetQueueIndex(need), need) <= Extra(q, need)
<1> DEFINE Is(b) == b = [p \in 0..Len(queueInfos) |->
                            IF p = 0 THEN None ELSE Better(b[p - 1], p, need)]
           best == CHOOSE b : Is(b)
           last == best[Len(queueInfos)]
<1>1. \E b : Is(b)
  <2>1. Len(queueInfos) \in Nat
    BY DEF ContextInv
  <2> QED
    BY <2>1, BestExists
<1>2. Is(best)
  <2> HIDE DEF Is
  <2> QED
    BY <1>1
<1>3. BestOf(last, Len(queueInfos), need)
  <2> HIDE DEF best
  <2> QED
    BY <1>2, BestThroughout
<1>4. GetQueueIndex(need) = last.index
  BY DEF GetQueueIndex
<1> HIDE DEF last
<1>5. last.index # Null
  BY <1>4
<1> QED
  BY <1>3, <1>4, <1>5 DEF BestOf

\* What findQueueFamilies gives of a device's families.
LEMMA FoundInfos ==
    ASSUME NEW d \in 1..Len(Devices), NEW surface, NEW infos \in FindQueueFamilies(d, surface)
    PROVE  /\ Len(infos) \in Nat
           /\ \A p \in 1..Len(infos) : /\ infos[p].index = p - 1
                                       /\ infos[p].flags \in SUBSET QueueBits
<1> DEFINE families == Devices[d].families
           answers == IF surface THEN {{}, {"ePresent"}} ELSE {{}}
<1>1. Len(families) \in Nat /\ DOMAIN families = 1..Len(families)
  BY ContextAssumption
<1>2. PICK present \in [DOMAIN families -> answers], junk \in [DOMAIN families -> Junk] :
         infos = [i \in DOMAIN families |-> QueueInfo(i, families[i], present[i], junk[i])]
  BY DEF FindQueueFamilies
<1>3. answers \subseteq SUBSET QueueBits
  BY DEF QueueBits
<1> HIDE DEF families, answers
<1>4. Len(infos) = Len(families)
  BY <1>1, <1>2
<1>5. \A bits, j : FromVulkanQueue(bits, j) \subseteq QueueBits \cup j
  BY DEF FromVulkanQueue, Each, Back, QueueTable, QueueBits
<1>6. ASSUME NEW p \in 1..Len(infos)
      PROVE  infos[p].index = p - 1 /\ infos[p].flags \in SUBSET QueueBits
  <2>1. infos[p] = QueueInfo(p, families[p], present[p], junk[p])
    BY <1>1, <1>2, <1>4
  <2>2. present[p] \subseteq QueueBits /\ junk[p] \subseteq QueueBits
    BY <1>1, <1>2, <1>3, <1>4, ContextAssumption
  <2>3. FromVulkanQueue(families[p], {}) \subseteq QueueBits
    BY <1>5
  <2> QED
    BY <2>1, <2>2, <2>3 DEF QueueInfo
<1> QED
  BY <1>1, <1>4, <1>6

LEMMA InitializeKeeps ==
    ASSUME ContextInv, NEW surface \in Surfaces, Initialize(surface)
    PROVE  ContextInv'
<1>1. buffers' = buffers /\ buffers = {} /\ ctx' # "made"
  BY DEF Initialize, ContextInv
<1>2. QueuesServe'
  BY <1>1 DEF QueuesServe
<1>3. CASE UNCHANGED <<queueInfos, pools>>
  BY <1>1, <1>2, <1>3 DEF ContextInv
<1>4. CASE /\ Pick(surface)
           /\ \/ pools' = PoolFamilies(Len(queueInfos'))
              \/ \E n \in 0..Len(queueInfos') - 1 : pools' = PoolFamilies(n)
  <2>1. PICK d \in 1..Len(Devices) : queueInfos' \in FindQueueFamilies(d, surface)
    BY <1>4 DEF Pick
  <2>2. /\ Len(queueInfos') \in Nat
        /\ \A p \in 1..Len(queueInfos') : /\ queueInfos'[p].index = p - 1
                                          /\ queueInfos'[p].flags \in SUBSET QueueBits
    BY <2>1, FoundInfos
  <2>3. \E n \in 0..Len(queueInfos') : pools' = PoolFamilies(n)
    BY <1>4, <2>2
  <2>4. \A n : PoolFamilies(n)' = PoolFamilies(n)
    BY DEF PoolFamilies
  <2> QED
    BY <1>1, <1>2, <2>2, <2>3, <2>4 DEF ContextInv
<1> QED
  BY <1>3, <1>4 DEF Initialize, NonePicked

LEMMA CommandBufferKeeps ==
    ASSUME ContextInv, NEW need \in BufferTypes, CreateCommandBuffer(need)
    PROVE  ContextInv'
<1> DEFINE p == GetQueueIndex(need)
           new == [need |-> need, queue |-> p, pool |-> pools[p]]
<1>1. /\ p # Null /\ p <= Len(pools) /\ buffers' = buffers \cup {new}
      /\ UNCHANGED <<ctx, queueInfos, pools>>
  BY DEF CreateCommandBuffer
<1>2. /\ p \in 1..Len(queueInfos) /\ need \subseteq queueInfos[p].flags
      /\ \A q \in 1..Len(queueInfos) : need \subseteq queueInfos[q].flags =>
            Extra(p, need) <= Extra(q, need)
  BY <1>1, IndexServes
<1> HIDE DEF p
<1>3. pools[p] = queueInfos[p].index
  <2>1. PICK n \in 0..Len(queueInfos) : pools = PoolFamilies(n)
    BY DEF ContextInv
  <2>2. n \in Nat /\ pools = [i \in 1..n |-> i - 1]
    BY <2>1 DEF PoolFamilies, ContextInv
  <2>3. Len(pools) = n
    BY <2>2
  <2>4. p \in 1..n
    BY <1>1, <1>2, <2>2, <2>3 DEF ContextInv
  <2> QED
    BY <1>2, <2>2, <2>4 DEF ContextInv
<1>4. \A q, n : Extra(q, n)' = Extra(q, n) /\ Spoilt(q)' = Spoilt(q) /\ Serves(q, n)' = Serves(q, n)
  BY <1>1 DEF Extra, Spoilt, Serves
<1>5. QueuesServe'
  <2> SUFFICES ASSUME NEW b \in buffers'
               PROVE  /\ b.pool = queueInfos[b.queue].index
                      /\ Spoilt(b.queue) \/ Serves(b.queue, b.need)
                      /\ \A q \in 1..Len(queueInfos) : ~Spoilt(q) /\ Serves(q, b.need) =>
                            Extra(b.queue, b.need) <= Extra(q, b.need)
    BY <1>1, <1>4 DEF QueuesServe
  <2>1. CASE b \in buffers
    BY <2>1 DEF ContextInv, QueuesServe
  <2>2. CASE b = new
    BY <1>2, <1>3, <2>2 DEF Spoilt, Serves
  <2> QED
    BY <1>1, <2>1, <2>2
<1>6. ctx # "made"
  <2> SUFFICES ASSUME ctx = "made" PROVE FALSE
    OBVIOUS
  <2>1. p \in 1..0
    BY <1>2 DEF ContextInv
  <2> QED
    BY <2>1
<1> QED
  BY <1>1, <1>5, <1>6 DEF ContextInv

(***************************************************************************)
(* Whatever devices and families there are, whichever step of Initialize   *)
(* fails, and whatever the flags that nothing initialised held: a command  *)
(* buffer has a pool of its queue's own family, its queue really does      *)
(* every kind of work of its type unless junk is in its own flags, and no  *)
(* queue that does, and whose flags hold no junk, has fewer others.        *)
(***************************************************************************)
THEOREM RhiQueues == Spec => []QueuesServe
<1>1. Init => ContextInv
  <2> SUFFICES ASSUME Init PROVE ContextInv
    OBVIOUS
  <2>1. Len(queueInfos) = 0 /\ pools = <<>> /\ buffers = {}
    BY DEF Init, ContextInit
  <2>2. PoolFamilies(0) = <<>>
    BY DEF PoolFamilies
  <2> QED
    BY <2>1, <2>2 DEF ContextInv, QueuesServe
<1>2. ContextInv /\ [Next]_rhiVars => ContextInv'
  <2> SUFFICES ASSUME ContextInv, [Next]_rhiVars PROVE ContextInv'
    OBVIOUS
  <2>1. CASE UNCHANGED contextVars
    BY <2>1 DEF contextVars, ContextInv, QueuesServe, Extra, Spoilt, Serves, PoolFamilies
  <2>2. CASE ContextNext
    BY <2>2, InitializeKeeps, CommandBufferKeeps DEF ContextNext
  <2> QED
    BY <2>1, <2>2 DEF Next, UseContext, UseChain, UseBuilder, rhiVars
<1>3. ContextInv => QueuesServe
  BY DEF ContextInv
<1> QED
  BY <1>1, <1>2, <1>3, PTL DEF Spec
=============================================================================
