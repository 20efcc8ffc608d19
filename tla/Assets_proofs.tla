----------------------------- MODULE Assets_proofs -----------------------------
(***************************************************************************)
(* For any uploads, requests and times: a claim carries every input of its *)
(* generation, and a walk of the library shows everything it should, and   *)
(* nothing twice.                                                          *)
(*                                                                         *)
(* Claims and walks rest on one fact: a row that is ready stays ready, as  *)
(* the only step that leads elsewhere, the refusal, is never committed.    *)
(* The walk needs the order of its rows too: they are ranked without a gap *)
(* (RanksFill), so the page's last row is a cursor nothing slips past.     *)
(***************************************************************************)
EXTENDS Assets, FiniteSetTheorems, SequenceTheorems, TLAPS

\* What a generation was accepted with is ready from then on.
InputsStayReady == work.phase # "none" => work.inputs \subseteq Ready

\* The inductive invariant.
AssetsInv ==
    /\ AssetsTypeOK
    /\ InputsStayReady
    /\ ClaimCarriesEveryInput

\* No step takes readiness from a row.
LEMMA ReadyStays ==
    ASSUME AssetsTypeOK, [AssetsNext]_assetVars
    PROVE  Ready \subseteq Ready'
  <1>1. CASE UNCHANGED assetVars
    BY <1>1 DEF assetVars, Ready
  <1>2. CASE Upload
    <2>1. PICK a \in Uploads : CreateUpload(a) \/ \E size \in Sizes : Put(a, size)
      BY <1>2 DEF Upload
    <2>2. CASE CreateUpload(a)
      BY <2>2 DEF CreateUpload, Ready, AssetsTypeOK, Row
    <2>3. CASE \E size \in Sizes : Put(a, size)
      BY <2>3 DEF Put, Ready
    <2> QED BY <2>1, <2>2, <2>3
  <1>3. CASE Confirmation
    <2>1. PICK c \in Requests : \/ \E a \in Uploads : ConfirmLoad(c, a)
                                \/ ConfirmStat(c) \/ Refuse(c) \/ Accept(c)
      BY <1>3 DEF Confirmation
    <2>2. CASE Accept(c)
      BY <2>2 DEF Accept, Ready, AssetsTypeOK, Row
    <2>3. CASE ConfirmStat(c) \/ Refuse(c) \/ \E a \in Uploads : ConfirmLoad(c, a)
      BY <2>3 DEF ConfirmStat, Refuse, ConfirmLoad, Ready
    <2> QED BY <2>1, <2>2, <2>3
  <1>4. CASE ListFirst \/ ListPage
    BY <1>4 DEF ListFirst, ListPage, Ready
  <1>5. CASE Generation
    <2>1. CASE UploadOutput
      BY <2>1 DEF UploadOutput, Ready, AssetsTypeOK, Row
    <2>2. CASE row' = row
      BY <2>2 DEF Ready
    <2> QED
      BY <1>5, <2>1, <2>2
      DEF Generation, CheckInputs, Submit, Claim, Stage, Rendered, TryAgain
  <1> QED
    BY <1>1, <1>2, <1>3, <1>4, <1>5 DEF AssetsNext

\* The initial states.
LEMMA AssetsInitially == AssetsInit => AssetsInv
  <1> SUFFICES ASSUME AssetsInit PROVE AssetsInv
    OBVIOUS
  <1>1. AssetsTypeOK
    BY AssetsAssumption
    DEF AssetsInit, AssetsTypeOK, Row, Confirm, Idle, Work, Ids, Sizes, Nothing
  <1> QED
    BY <1>1 DEF AssetsInit, AssetsInv, InputsStayReady, ClaimCarriesEveryInput

\* Every step keeps the types.
LEMMA AssetsTypesStay ==
    ASSUME AssetsInv, [AssetsNext]_assetVars
    PROVE  AssetsTypeOK'
  <1> USE DEF AssetsInv, AssetsTypeOK
  <1>1. CASE UNCHANGED assetVars
    BY <1>1 DEF assetVars
  <1>2. CASE Upload
    <2>1. PICK a \in Uploads : CreateUpload(a) \/ \E size \in Sizes : Put(a, size)
      BY <1>2 DEF Upload
    <2>2. CASE CreateUpload(a)
      BY <2>1, <2>2 DEF CreateUpload, Row, Ids
    <2>3. CASE \E size \in Sizes : Put(a, size)
      BY <2>1, <2>3 DEF Put, Ids
    <2> QED BY <2>1, <2>2, <2>3
  <1>3. CASE Confirmation
    <2>1. PICK c \in Requests : \/ \E a \in Uploads : ConfirmLoad(c, a)
                                \/ ConfirmStat(c) \/ Refuse(c) \/ Accept(c)
      BY <1>3 DEF Confirmation
    <2>2. CASE \E a \in Uploads : ConfirmLoad(c, a)
      BY <2>1, <2>2 DEF ConfirmLoad, Confirm, Ids
    <2>3. CASE ConfirmStat(c)
      BY <2>1, <2>3 DEF ConfirmStat, Confirm, Idle, Ids, Sizes, Nothing
    <2>4. CASE Refuse(c)
      BY <2>1, <2>4 DEF Refuse, Confirm, Idle, Ids
    <2>5. CASE Accept(c)
      BY <2>1, <2>5 DEF Accept, Confirm, Idle, Ids, Row
    <2> QED BY <2>1, <2>2, <2>3, <2>4, <2>5
  <1>4. CASE ListFirst
    BY <1>4 DEF ListFirst, Ready
  <1>5. CASE ListPage
    BY <1>5 DEF ListPage
  <1>6. CASE Generation
    <2>1. CASE \E named, inherited \in SUBSET Uploads : CheckInputs(named, inherited)
      <3>1. PICK named, inherited \in SUBSET Uploads : CheckInputs(named, inherited)
        BY <2>1
      <3>2. /\ work' = [work EXCEPT !.phase = "checked", !.inputs = named \cup (inherited \cap Ready)]
            /\ UNCHANGED <<row, object, confirm, listing>>
        BY <3>1 DEF CheckInputs
      <3>3. work' \in Work
        BY <3>2 DEF Work
      <3> QED
        BY <3>2, <3>3
    <2>2. CASE Submit \/ Stage \/ Rendered
      BY <2>2 DEF Submit, Stage, Rendered, TryAgain, Work
    <2>3. CASE Claim
      <3>1. work' = [work EXCEPT !.phase = "claimed", !.given = work.inputs \cap Ready]
        BY <2>3 DEF Claim
      <3>2. work.inputs \cap Ready \subseteq Uploads
        BY DEF Work
      <3>3. work' \in Work
        BY <3>1, <3>2 DEF Work
      <3> QED
        BY <2>3, <3>3 DEF Claim
    <2>4. CASE UploadOutput
      BY <2>4 DEF UploadOutput, TryAgain, Work, Row, Ids, Sizes
    <2> QED
      BY <1>6, <2>1, <2>2, <2>3, <2>4 DEF Generation
  <1> QED
    BY <1>1, <1>2, <1>3, <1>4, <1>5, <1>6 DEF AssetsNext

\* Every step keeps the invariant.
LEMMA AssetsStep ==
    ASSUME AssetsInv, [AssetsNext]_assetVars
    PROVE  AssetsInv'
  <1>1. AssetsTypeOK'
    BY AssetsTypesStay
  <1>2. Ready \subseteq Ready'
    BY ReadyStays DEF AssetsInv
  <1> USE DEF InputsStayReady, ClaimCarriesEveryInput
  <1>3. InputsStayReady' /\ ClaimCarriesEveryInput'
    <2>1. CASE work' = work
      BY <2>1, <1>2 DEF AssetsInv
    <2>2. CASE \E named, inherited \in SUBSET Uploads : CheckInputs(named, inherited)
      BY <2>2, <1>2 DEF CheckInputs, AssetsInv, AssetsTypeOK, Work
    <2>3. CASE Claim
      <3>1. work.inputs \cap Ready = work.inputs
        BY <2>3 DEF Claim, AssetsInv
      <3> QED
        BY <2>3, <3>1, <1>2 DEF Claim, AssetsInv, AssetsTypeOK, Work
    <2>4. CASE Submit \/ Stage \/ Rendered
      BY <2>4, <1>2 DEF Submit, Stage, Rendered, TryAgain, AssetsInv, AssetsTypeOK, Work
    <2>5. CASE UploadOutput
      BY <2>5, <1>2 DEF UploadOutput, TryAgain, AssetsInv, AssetsTypeOK, Work
    <2>6. [Upload \/ Confirmation \/ ListFirst \/ ListPage]_assetVars => work' = work
      BY DEF Upload, Confirmation, ListFirst, ListPage, CreateUpload, Put, ConfirmLoad,
             ConfirmStat, Refuse, Accept, assetVars
    <2> QED
      BY <2>1, <2>2, <2>3, <2>4, <2>5, <2>6 DEF AssetsNext, Generation
  <1> QED
    BY <1>1, <1>3 DEF AssetsInv

\* The invariant holds in every state.
LEMMA AssetsInvariant == AssetsSpec => []AssetsInv
  BY AssetsInitially, AssetsStep, PTL DEF AssetsSpec

\* Rows, objects, confirmations and the generation keep their types.
THEOREM AssetsTypeCorrect == AssetsSpec => []AssetsTypeOK
  BY AssetsInvariant, PTL DEF AssetsInv

\* Whatever confirmations, late PUTs and refusals do between acceptance and
\* claim, the worker is handed every input the generation was accepted with.
THEOREM ClaimsCarryEveryInput == AssetsSpec => []ClaimCarriesEveryInput
  BY AssetsInvariant, PTL DEF AssetsInv

-----------------------------------------------------------------------------
(***************************************************************************)
(* The order of the library.                                               *)
(***************************************************************************)
\* Below, for creation times that do not change.
Older(at, a, b) == at[a] < at[b] \/ (at[a] = at[b] /\ a < b)

Newer(at, S, a) == {b \in S : Older(at, a, b)}

\* It is a strict total order.
LEMMA OlderIsOrder ==
    ASSUME NEW at \in [Ids -> Nat]
    PROVE  /\ \A a \in Ids : ~Older(at, a, a)
           /\ \A a, b, c \in Ids : Older(at, a, b) /\ Older(at, b, c) => Older(at, a, c)
           /\ \A a, b \in Ids : a = b \/ Older(at, a, b) \/ Older(at, b, a)
  <1>1. \A a \in Ids : a \in Nat /\ at[a] \in Nat
    BY AssetsAssumption DEF Ids
  <1>2. \A a \in Ids : ~Older(at, a, a)
    BY <1>1 DEF Older
  <1>3. \A a, b, c \in Ids : Older(at, a, b) /\ Older(at, b, c) => Older(at, a, c)
    BY <1>1 DEF Older
  <1>4. \A a, b \in Ids : a = b \/ Older(at, a, b) \/ Older(at, b, a)
    BY <1>1 DEF Older
  <1> QED
    BY <1>2, <1>3, <1>4

\* The rows of a finite set have the ranks 0, 1, ... without a gap, the newest first.
LEMMA RanksFill ==
    ASSUME NEW at \in [Ids -> Nat], NEW S \in SUBSET Ids, IsFiniteSet(S)
    PROVE  /\ \A a \in S : Cardinality(Newer(at, S, a)) \in 0..(Cardinality(S) - 1)
           /\ \A a, b \in S : Older(at, a, b) =>
                 Cardinality(Newer(at, S, b)) < Cardinality(Newer(at, S, a))
           /\ \A i \in 1..Cardinality(S) : \E a \in S : Cardinality(Newer(at, S, a)) = i - 1
  <1>1. Cardinality(S) \in Nat
    BY FS_CardinalityType
  <1>2. ASSUME NEW a \in S
        PROVE  /\ IsFiniteSet(Newer(at, S, a)) /\ Cardinality(Newer(at, S, a)) \in Nat
               /\ Cardinality(Newer(at, S, a)) < Cardinality(S)
    <2>1. Newer(at, S, a) \in SUBSET S /\ a \notin Newer(at, S, a)
      BY OlderIsOrder DEF Newer
    <2>2. /\ IsFiniteSet(Newer(at, S, a))
          /\ Cardinality(Newer(at, S, a)) <= Cardinality(S)
          /\ Cardinality(S) = Cardinality(Newer(at, S, a)) => S = Newer(at, S, a)
      BY <2>1, FS_Subset
    <2>3. Cardinality(Newer(at, S, a)) \in Nat
      BY <2>2, FS_CardinalityType
    <2> QED
      BY <1>1, <2>1, <2>2, <2>3
  <1>3. ASSUME NEW a \in S, NEW b \in S, Older(at, a, b)
        PROVE  Cardinality(Newer(at, S, b)) < Cardinality(Newer(at, S, a))
    <2>1. Newer(at, S, b) \in SUBSET Newer(at, S, a)
      BY <1>3, OlderIsOrder DEF Newer
    <2>2. b \in Newer(at, S, a) /\ b \notin Newer(at, S, b)
      BY <1>3, OlderIsOrder DEF Newer
    <2>3. /\ Cardinality(Newer(at, S, b)) <= Cardinality(Newer(at, S, a))
          /\ Cardinality(Newer(at, S, a)) = Cardinality(Newer(at, S, b))
               => Newer(at, S, a) = Newer(at, S, b)
      BY <1>2, <2>1, FS_Subset
    <2> QED
      BY <1>2, <2>2, <2>3
  <1> DEFINE R == 0..(Cardinality(S) - 1)
             rank == [a \in S |-> Cardinality(Newer(at, S, a))]
  <1>4. rank \in [S -> R]
    BY <1>1, <1>2
  <1>5. \A a, b \in S : rank[a] = rank[b] => a = b
    <2> SUFFICES ASSUME NEW a \in S, NEW b \in S, a # b PROVE rank[a] # rank[b]
      OBVIOUS
    <2>1. Older(at, a, b) \/ Older(at, b, a)
      BY OlderIsOrder
    <2> QED
      BY <1>2, <1>3, <2>1
  <1>6. IsFiniteSet(R) /\ Cardinality(R) = Cardinality(S)
    <2>1. PICK n \in Nat : n = Cardinality(S)
      BY <1>1
    <2>2. 0 \in Int /\ n - 1 \in Int /\ (0 > n - 1 => n = 0) /\ (n - 1) - 0 + 1 = n
      BY <2>1
    <2>3. IsFiniteSet(0..(n - 1)) /\ Cardinality(0..(n - 1)) = n
      BY <2>2, FS_Interval
    <2> QED
      BY <2>1, <2>3
  <1>7. \A i \in R : \E a \in S : rank[a] = i
    <2> HIDE DEF rank, R
    <2>1. rank \in Injection(S, R)
      BY <1>4, <1>5 DEF Injection, IsInjective
    <2>2. rank \in Surjection(S, R)
      BY <1>6, <2>1, FS_Injection
    <2> QED
      BY <2>2 DEF Surjection
  <1>8. ASSUME NEW i \in 1..Cardinality(S)
        PROVE  \E a \in S : Cardinality(Newer(at, S, a)) = i - 1
    <2>1. i - 1 \in R
      BY <1>1
    <2>2. PICK a \in S : rank[a] = i - 1
      BY <1>7, <2>1
    <2> QED
      BY <2>2
  <1> QED
    BY <1>1, <1>2, <1>3, <1>8

\* NewestFirst lists the rows of a set, each once, the newest first.
LEMMA NewestFirstSorts ==
    ASSUME NEW at \in [Ids -> Nat], NEW S \in SUBSET Ids, IsFiniteSet(S),
           \A a, b \in Ids : Below(a, b) <=> Older(at, a, b)
    PROVE  /\ NewestFirst(S) \in Seq(S) /\ Len(NewestFirst(S)) = Cardinality(S)
           /\ \A i, j \in 1..Cardinality(S) :
                 i < j => Older(at, NewestFirst(S)[j], NewestFirst(S)[i])
           /\ \A a \in S : \E i \in 1..Cardinality(S) : NewestFirst(S)[i] = a
  <1> DEFINE n == Cardinality(S)
             Place(i) == CHOOSE a \in S : Cardinality(Newer(at, S, a)) = i - 1
             f == NewestFirst(S)
  <1>1. n \in Nat
    BY FS_CardinalityType
  <1>2. ASSUME NEW a \in S PROVE {b \in S : Below(a, b)} = Newer(at, S, a)
    BY DEF Newer
  <1>3. ASSUME NEW i \in 1..n PROVE Place(i) \in S /\ Cardinality(Newer(at, S, Place(i))) = i - 1
    <2>1. \E a \in S : Cardinality(Newer(at, S, a)) = i - 1
      BY RanksFill
    <2> QED
      BY <2>1
  <1>4. f = [i \in 1..n |-> Place(i)]
    <2> DEFINE Chosen(i) == CHOOSE a \in S : Cardinality({b \in S : Below(a, b)}) = i - 1
    <2>1. ASSUME NEW i \in 1..n PROVE Chosen(i) = Place(i)
      <3>1. \A a \in S : Cardinality({b \in S : Below(a, b)}) = i - 1
                           <=> Cardinality(Newer(at, S, a)) = i - 1
        BY <1>2
      <3> QED
        BY <3>1
    <2>2. f = [i \in 1..n |-> Chosen(i)]
      BY DEF NewestFirst
    <2> HIDE DEF Chosen, Place, f
    <2> QED
      BY <2>1, <2>2
  <1> HIDE DEF Place
  <1>5. \A i \in 1..n : f[i] \in S /\ Cardinality(Newer(at, S, f[i])) = i - 1
    BY <1>3, <1>4
  <1>6. f \in [1..n -> S]
    BY <1>3, <1>4
  <1> HIDE DEF f, n
  <1>7. f \in Seq(S) /\ Len(f) = n
    BY <1>1, <1>6
  <1>8. ASSUME NEW i \in 1..n, NEW j \in 1..n, i < j PROVE Older(at, f[j], f[i])
    <2>1. f[i] \in S /\ f[j] \in S /\ f[i] # f[j]
      BY <1>5, <1>8
    <2>2. ~Older(at, f[i], f[j])
      <3>1. Older(at, f[i], f[j]) =>
              Cardinality(Newer(at, S, f[j])) < Cardinality(Newer(at, S, f[i]))
        BY <2>1, RanksFill
      <3> QED
        BY <1>1, <1>5, <1>8, <3>1
    <2> QED
      BY <2>1, <2>2, OlderIsOrder
  <1>9. ASSUME NEW a \in S PROVE \E i \in 1..n : f[i] = a
    <2>1. Cardinality(Newer(at, S, a)) \in 0..(n - 1)
      BY RanksFill DEF n
    <2>2. PICK i \in 1..n : Cardinality(Newer(at, S, a)) = i - 1
      <3>1. Cardinality(Newer(at, S, a)) + 1 \in 1..n
        BY <1>1, <2>1
      <3> QED
        BY <1>1, <2>1, <3>1
    <2>3. f[i] \in S /\ Cardinality(Newer(at, S, f[i])) = i - 1
      BY <1>5
    <2>4. ~Older(at, a, f[i]) /\ ~Older(at, f[i], a)
      <3>1. Older(at, a, f[i]) =>
              Cardinality(Newer(at, S, f[i])) < Cardinality(Newer(at, S, a))
        BY <2>3, RanksFill
      <3>2. Older(at, f[i], a) =>
              Cardinality(Newer(at, S, a)) < Cardinality(Newer(at, S, f[i]))
        BY <2>3, RanksFill
      <3> QED
        BY <1>1, <2>2, <2>3, <3>1, <3>2
    <2> QED
      BY <2>3, <2>4, OlderIsOrder
  <1> QED
    BY <1>7, <1>8, <1>9 DEF f, n

-----------------------------------------------------------------------------
(***************************************************************************)
(* The walk.                                                               *)
(***************************************************************************)
\* a comes after everything the walk has shown.
After(at, pages, a) == pages = <<>> \/ Older(at, a, pages[Len(pages)])

Descends(at, s) == \A i, j \in 1..Len(s) : i < j => Older(at, s[j], s[i])

Shows(s, a) == \E i \in 1..Len(s) : s[i] = a

\* What is shown descends; what was promised is shown, or still ahead of the cursor.
SoundWalk(at, l) ==
    /\ l \in [on : BOOLEAN, promised : SUBSET Ids, pages : Seq(Ids)]
    /\ Descends(at, l.pages)
    /\ \A a \in l.promised : Shows(l.pages, a) \/ (l.on /\ After(at, l.pages, a))

CreatedAt == [a \in Ids |-> row[a].at]

\* The inductive invariant of the library.
WalkInv == listing.promised \subseteq Ready /\ SoundWalk(CreatedAt, listing)

\* The first n of f, appended.
LEMMA Appended ==
    ASSUME NEW pg \in Seq(Ids), NEW f \in Seq(Ids), NEW n \in 0..Len(f),
           NEW h, h = pg \o SubSeq(f, 1, n)
    PROVE  /\ h \in Seq(Ids) /\ Len(h) = Len(pg) + n
           /\ \A i \in 1..Len(pg) : h[i] = pg[i]
           /\ \A i \in 1..n : h[Len(pg) + i] = f[i]
  <1>1. Len(pg) \in Nat /\ Len(f) \in Nat
    OBVIOUS
  <1>2. PICK g \in Seq(Ids) : g = SubSeq(f, 1, n) /\ Len(g) = n /\ \A i \in 1..n : g[i] = f[i]
    <2>1. SubSeq(f, 1, n) \in Seq(Ids) /\ Len(SubSeq(f, 1, n)) = n
      BY <1>1
    <2>2. \A i \in 1..n : SubSeq(f, 1, n)[i] = f[i]
      BY <1>1
    <2> QED
      BY <2>1, <2>2
  <1>3. h = pg \o g
    BY <1>2
  <1>4. h \in Seq(Ids) /\ Len(h) = Len(pg) + n
    BY <1>2, <1>3
  <1>5. \A i \in 1..Len(pg) : h[i] = pg[i]
    BY <1>1, <1>2, <1>3
  <1>6. ASSUME NEW i \in 1..n PROVE h[Len(pg) + i] = g[i]
    BY <1>1, <1>2, <1>3
  <1> QED
    BY <1>2, <1>4, <1>5, <1>6

\* It descends when f does and comes after what was shown.
LEMMA PageDescends ==
    ASSUME NEW at \in [Ids -> Nat], NEW pg \in Seq(Ids), NEW f \in Seq(Ids), NEW n \in 0..Len(f),
           Descends(at, pg), Descends(at, f),
           \A i \in 1..Len(f) : After(at, pg, f[i])
    PROVE  Descends(at, pg \o SubSeq(f, 1, n))
  <1>1. PICK h : h = pg \o SubSeq(f, 1, n)
    OBVIOUS
  <1>2. PICK m \in Nat : m = Len(pg)
    OBVIOUS
  <1>3. /\ Len(h) = m + n /\ n \in Nat /\ Len(f) \in Nat /\ n <= Len(f)
        /\ \A i \in 1..m : h[i] = pg[i] /\ pg[i] \in Ids
        /\ \A i \in 1..n : h[m + i] = f[i] /\ f[i] \in Ids
    BY <1>1, <1>2, Appended
  <1>4. ASSUME NEW i \in 1..(m + n), NEW j \in 1..(m + n), i < j PROVE Older(at, h[j], h[i])
    <2>1. CASE j <= m
      <3>1. i \in 1..m /\ j \in 1..m
        BY <1>4, <2>1
      <3> QED
        BY <1>2, <1>3, <1>4, <3>1 DEF Descends
    <2>2. ASSUME j > m PROVE \E y \in 1..n : j = m + y /\ y \in 1..Len(f)
      <3>1. j - m \in 1..n /\ j - m \in 1..Len(f) /\ j = m + (j - m)
        BY <1>3, <1>4, <2>2
      <3> QED
        BY <3>1
    <2>3. CASE i > m
      <3>1. PICK x \in 1..n : i = m + x /\ x \in 1..Len(f)
        <4>1. i - m \in 1..n /\ i - m \in 1..Len(f) /\ i = m + (i - m)
          BY <1>3, <1>4, <2>3
        <4> QED
          BY <4>1
      <3>2. PICK y \in 1..n : j = m + y /\ y \in 1..Len(f)
        BY <1>4, <2>2, <2>3
      <3>3. x < y
        BY <1>4, <3>1, <3>2
      <3> QED
        BY <1>3, <3>1, <3>2, <3>3 DEF Descends
    <2>4. CASE i <= m /\ j > m
      <3>1. PICK y \in 1..n : j = m + y /\ y \in 1..Len(f)
        BY <2>2, <2>4
      <3>2. i \in 1..m /\ m \in 1..m
        BY <1>2, <1>4, <2>4
      <3>3. pg # <<>>
        BY <1>2, <3>2, EmptySeq
      <3>4. Older(at, f[y], pg[m])
        BY <1>2, <3>1, <3>3 DEF After
      <3>5. i = m \/ Older(at, pg[m], pg[i])
        BY <1>2, <3>2 DEF Descends
      <3>6. h[j] = f[y] /\ f[y] \in Ids /\ h[i] = pg[i] /\ pg[i] \in Ids /\ pg[m] \in Ids
        BY <1>3, <3>1, <3>2
      <3> QED
        BY <3>4, <3>5, <3>6, OlderIsOrder
    <2> QED
      BY <1>2, <1>4, <2>1, <2>3, <2>4
  <1> QED
    BY <1>1, <1>3, <1>4 DEF Descends

\* What f lists is shown, or after the page's last row when the page is full.
LEMMA PageShows ==
    ASSUME NEW at \in [Ids -> Nat], NEW pg \in Seq(Ids), NEW f \in Seq(Ids), NEW n \in 0..Len(f),
           Descends(at, f), NEW a, Shows(f, a), n < Len(f) => n > 0
    PROVE  LET h == pg \o SubSeq(f, 1, n)
           IN  Shows(h, a) \/ (n < Len(f) /\ After(at, h, a))
  <1>1. PICK h : h = pg \o SubSeq(f, 1, n)
    OBVIOUS
  <1>2. PICK m \in Nat : m = Len(pg)
    OBVIOUS
  <1>3. /\ Len(h) = m + n /\ n \in Nat /\ Len(f) \in Nat /\ n <= Len(f)
        /\ \A i \in 1..n : h[m + i] = f[i]
    BY <1>1, <1>2, Appended
  <1>4. PICK x \in 1..Len(f) : f[x] = a
    BY DEF Shows
  <1>5. CASE x <= n
    <2>1. x \in 1..n /\ m + x \in 1..(m + n)
      BY <1>2, <1>3, <1>4, <1>5
    <2>2. h[m + x] = a
      BY <1>3, <1>4, <2>1
    <2>3. Shows(h, a)
      BY <1>3, <2>1, <2>2 DEF Shows
    <2> QED
      BY <1>1, <2>3
  <1>6. CASE x > n
    <2>1. n < Len(f) /\ n \in 1..n /\ n \in 1..Len(f)
      BY <1>3, <1>4, <1>6
    <2>2. Older(at, f[x], f[n])
      BY <1>4, <1>6, <2>1 DEF Descends
    <2>3. h[Len(h)] = f[n]
      BY <1>3, <2>1
    <2>4. After(at, h, a)
      BY <1>4, <2>2, <2>3 DEF After
    <2> QED
      BY <1>1, <2>1, <2>4
  <1> QED
    BY <1>3, <1>4, <1>5, <1>6

\* A page of what comes after the cursor: its first rows in order, and the walk is over
\* when there are no more.
LEMMA PageIsSound ==
    ASSUME NEW at \in [Ids -> Nat], NEW l, SoundWalk(at, l), NEW f \in Seq(Ids), Descends(at, f),
           \A i \in 1..Len(f) : After(at, l.pages, f[i]),
           \A a \in l.promised : After(at, l.pages, a) => Shows(f, a),
           NEW n \in 0..Len(f), n = IF Len(f) > Limit THEN Limit ELSE Len(f),
           NEW q, q = [l EXCEPT !.pages = @ \o SubSeq(f, 1, n), !.on = Len(f) > Limit]
    PROVE  SoundWalk(at, q)
  <1>1. /\ l \in [on : BOOLEAN, promised : SUBSET Ids, pages : Seq(Ids)]
        /\ Descends(at, l.pages)
    BY DEF SoundWalk
  <1>2. PICK pg \in Seq(Ids) : pg = l.pages
    BY <1>1
  <1>3. PICK h \in Seq(Ids) : h = pg \o SubSeq(f, 1, n)
    BY Appended
  <1>4. /\ q.pages = h /\ q.on = (Len(f) > Limit) /\ q.promised = l.promised
        /\ q \in [on : BOOLEAN, promised : SUBSET Ids, pages : Seq(Ids)]
    <2>1. PICK b \in BOOLEAN : b = (Len(f) > Limit)
      <3>1. (Len(f) > Limit) \in BOOLEAN
        BY AssetsAssumption
      <3> QED
        BY <3>1, Zenon
    <2>2. q = [l EXCEPT !.pages = h, !.on = b]
      BY <1>2, <1>3, <2>1
    <2> QED
      BY <1>1, <2>1, <2>2
  <1>5. Descends(at, h)
    BY <1>1, <1>2, <1>3, PageDescends
  <1>6. n < Len(f) => n > 0 /\ Len(f) > Limit
    BY AssetsAssumption
  <1>7. ASSUME NEW a \in l.promised PROVE Shows(h, a) \/ (Len(f) > Limit /\ After(at, h, a))
    <2>1. CASE Shows(pg, a)
      <3>1. PICK i \in 1..Len(pg) : pg[i] = a
        BY <2>1 DEF Shows
      <3>2. i \in 1..Len(h) /\ h[i] = a
        <4>1. Len(h) = Len(pg) + n
          BY <1>3, Appended
        <4>2. \A k \in 1..Len(pg) : h[k] = pg[k]
          BY <1>3, Appended
        <4>3. Len(pg) \in Nat /\ n \in Nat
          OBVIOUS
        <4> QED
          BY SMTT(20), <3>1, <4>1, <4>2, <4>3
      <3> QED
        BY <3>2 DEF Shows
    <2>2. CASE ~Shows(pg, a)
      <3>1. Shows(f, a)
        BY <1>2, <1>7, <2>2 DEF SoundWalk
      <3> QED
        BY <1>3, <1>6, <3>1, PageShows
    <2> QED
      BY <2>1, <2>2
  <1> QED
    BY <1>4, <1>5, <1>7 DEF SoundWalk

\* No step changes when a row was created.
LEMMA CreationStays ==
    ASSUME AssetsTypeOK, [AssetsNext]_assetVars
    PROVE  CreatedAt' = CreatedAt
  <1>1. CASE row' = row
    BY <1>1 DEF CreatedAt
  <1>2. ASSUME NEW a \in Ids, NEW s, row' = [row EXCEPT ![a].status = s]
        PROVE  CreatedAt' = CreatedAt
    <2>1. \A b \in Ids : row'[b].at = row[b].at
      BY <1>2 DEF AssetsTypeOK, Row
    <2> QED
      BY <2>1 DEF CreatedAt
  <1>3. row' = row \/ \E a \in Ids : \E s \in {"pending", "ready"} :
                         row' = [row EXCEPT ![a].status = s]
    <2>1. CASE Upload
      BY <2>1 DEF Upload, CreateUpload, Put, Ids
    <2>2. CASE Confirmation
      <3>1. PICK c \in Requests : \/ \E a \in Uploads : ConfirmLoad(c, a)
                                  \/ ConfirmStat(c) \/ Refuse(c) \/ Accept(c)
        BY <2>2 DEF Confirmation
      <3>2. confirm[c].asset \in Ids
        BY DEF AssetsTypeOK, Confirm
      <3> QED
        BY <3>1, <3>2 DEF ConfirmLoad, ConfirmStat, Refuse, Accept
    <2>3. CASE ListFirst \/ ListPage \/ UNCHANGED assetVars
      BY <2>3 DEF ListFirst, ListPage, assetVars
    <2>4. CASE Generation
      BY <2>4 DEF Generation, CheckInputs, Submit, Claim, Stage, Rendered, TryAgain, UploadOutput, Ids
    <2> QED
      BY <2>1, <2>2, <2>3, <2>4 DEF AssetsNext
  <1> QED
    BY <1>1, <1>2, <1>3

\* One page read.
LEMMA ListPageSound ==
    ASSUME AssetsTypeOK, WalkInv, ListPage
    PROVE  WalkInv'
  <1>1. /\ CreatedAt \in [Ids -> Nat] /\ CreatedAt' = CreatedAt
        /\ Ready' = Ready /\ Ready \in SUBSET Ids /\ IsFiniteSet(Ids)
    <2>1. CreatedAt \in [Ids -> Nat]
      BY AssetsAssumption DEF AssetsTypeOK, Row, CreatedAt
    <2>2. IsFiniteSet(Uploads \cup {Output})
      BY AssetsAssumption, FS_AddElement
    <2> QED
      BY <2>1, <2>2 DEF ListPage, CreatedAt, Ready, Ids
  <1>2. PICK at \in [Ids -> Nat] : at = CreatedAt
    BY <1>1
  <1>3. \A a, b \in Ids : Below(a, b) <=> Older(at, a, b)
    BY <1>2 DEF Below, Older, CreatedAt
  <1>4. PICK l : l = listing /\ SoundWalk(at, l)
    BY <1>2 DEF WalkInv
  <1>5. PICK S \in SUBSET Ids : S = Beyond(l.pages)
    BY <1>1 DEF Beyond
  <1>6. \A a : a \in S <=> a \in Ready /\ After(at, l.pages, a)
    <2>1. l.pages = <<>> \/ l.pages[Len(l.pages)] \in Ids
      <3>1. l.pages \in Seq(Ids)
        BY <1>4 DEF SoundWalk
      <3>2. l.pages # <<>> => Len(l.pages) \in 1..Len(l.pages)
        BY <3>1, EmptySeq
      <3> QED
        BY <3>1, <3>2
    <2> QED
      BY <1>1, <1>3, <1>5, <2>1 DEF Beyond, After
  <1>7. IsFiniteSet(S)
    BY <1>1, <1>5, FS_Subset
  <1>8. PICK f \in Seq(S) : f = Found(l.pages) /\ Len(f) = Cardinality(S)
    BY <1>3, <1>5, <1>7, NewestFirstSorts DEF Found
  <1>9. f \in Seq(Ids) /\ \A i \in 1..Len(f) : f[i] \in S
    BY <1>8
  <1>10. Descends(at, f)
    BY <1>3, <1>5, <1>7, <1>8, NewestFirstSorts DEF Found, Descends
  <1>11. \A a \in S : Shows(f, a)
    BY <1>3, <1>5, <1>7, <1>8, NewestFirstSorts DEF Found, Shows
  <1>12. PICK n \in 0..Len(f) : n = IF Len(f) > Limit THEN Limit ELSE Len(f)
    BY <1>9, AssetsAssumption
  <1>13. listing' = [l EXCEPT !.pages = @ \o SubSeq(f, 1, n), !.on = Len(f) > Limit]
    BY <1>4, <1>8, <1>12 DEF ListPage
  <1>14. SoundWalk(at, listing')
    <2>1. \A a \in l.promised : After(at, l.pages, a) => Shows(f, a)
      BY <1>4, <1>6, <1>11 DEF WalkInv
    <2>2. \A i \in 1..Len(f) : After(at, l.pages, f[i])
      BY <1>6, <1>9
    <2> QED
      BY <1>4, <1>9, <1>10, <1>12, <1>13, <2>1, <2>2, PageIsSound
  <1>15. listing'.promised = l.promised
    BY <1>4, <1>13 DEF SoundWalk
  <1> QED
    BY <1>1, <1>2, <1>4, <1>14, <1>15 DEF WalkInv, SoundWalk, Descends, Older, After, Shows

\* Every step keeps the walk sound.
LEMMA WalkStep ==
    ASSUME AssetsTypeOK, WalkInv, [AssetsNext]_assetVars
    PROVE  WalkInv'
  <1>1. CreatedAt' = CreatedAt /\ Ready \subseteq Ready'
    BY CreationStays, ReadyStays
  <1>2. CASE listing' = listing
    BY <1>1, <1>2 DEF WalkInv, SoundWalk, Descends, Older, After, Shows
  <1>3. CASE ListFirst
    <2>1. PICK l : l = [on |-> TRUE, promised |-> Ready, pages |-> <<>>] /\ listing' = l
      BY <1>3 DEF ListFirst
    <2>2. l.pages = <<>> /\ l.promised = Ready /\ l.on /\ Ready \in SUBSET Ids
      BY <2>1 DEF Ready
    <2>3. l \in [on : BOOLEAN, promised : SUBSET Ids, pages : Seq(Ids)]
      BY <2>1, <2>2, EmptySeq
    <2>4. Len(l.pages) = 0
      BY <2>2, EmptySeq
    <2>5. SoundWalk(CreatedAt, l)
      BY <2>2, <2>3, <2>4 DEF SoundWalk, Descends, After
    <2> QED
      BY <1>1, <2>1, <2>2, <2>5 DEF WalkInv, SoundWalk, Descends, Older, After, Shows
  <1>4. CASE ListPage
    BY <1>4, ListPageSound
  <1> QED
    BY <1>2, <1>3, <1>4
    DEF AssetsNext, assetVars, Upload, CreateUpload, Put, Confirmation, ConfirmLoad,
        ConfirmStat, Refuse, Accept, Generation, CheckInputs, Submit, Claim, Stage,
        Rendered, UploadOutput

\* Whatever is uploaded, confirmed or refused between two pages, and whichever rows share
\* a creation time: a walk of the library shows nothing twice, and at its end has shown all
\* that was ready when it began.
THEOREM ListingsAreComplete == AssetsSpec => []ListingIsComplete
  <1>1. AssetsInit => WalkInv
    <2> SUFFICES ASSUME AssetsInit PROVE WalkInv
      OBVIOUS
    <2>1. listing = [on |-> FALSE, promised |-> {}, pages |-> <<>>]
      BY DEF AssetsInit
    <2>2. listing \in [on : BOOLEAN, promised : SUBSET Ids, pages : Seq(Ids)]
      BY <2>1, EmptySeq
    <2>3. Len(listing.pages) = 0 /\ listing.promised = {}
      BY <2>1, EmptySeq
    <2> QED
      BY <2>2, <2>3 DEF WalkInv, SoundWalk, Descends
  <1>2. AssetsInv /\ WalkInv /\ [AssetsNext]_assetVars => WalkInv'
    BY WalkStep DEF AssetsInv
  <1>3. AssetsInv /\ WalkInv => ListingIsComplete
    <2> SUFFICES ASSUME AssetsInv, WalkInv PROVE ListingIsComplete
      OBVIOUS
    <2>1. CreatedAt \in [Ids -> Nat]
      BY AssetsAssumption DEF AssetsInv, AssetsTypeOK, Row, CreatedAt
    <2>2. PICK l : l = listing /\ SoundWalk(CreatedAt, l)
      BY DEF WalkInv
    <2>3. /\ l.pages \in Seq(Ids) /\ DOMAIN l.pages = 1..Len(l.pages)
          /\ \A i \in DOMAIN l.pages : l.pages[i] \in Ids /\ i \in Nat
      BY <2>2 DEF SoundWalk
    <2>4. ASSUME NEW i \in DOMAIN l.pages, NEW j \in DOMAIN l.pages, i # j
          PROVE  l.pages[i] # l.pages[j]
      <3>1. i < j \/ j < i
        BY <2>3, <2>4
      <3>2. Older(CreatedAt, l.pages[j], l.pages[i]) \/ Older(CreatedAt, l.pages[i], l.pages[j])
        BY <2>2, <2>3, <3>1 DEF SoundWalk, Descends
      <3> QED
        BY <2>1, <2>3, <3>2, OlderIsOrder
    <2>5. ~l.on => l.promised \subseteq {l.pages[i] : i \in DOMAIN l.pages}
      BY <2>2, <2>3 DEF SoundWalk, Shows
    <2> QED
      BY <2>2, <2>4, <2>5 DEF ListingIsComplete
  <1> QED
    BY <1>1, <1>2, <1>3, AssetsInvariant, PTL DEF AssetsSpec

================================================================================
