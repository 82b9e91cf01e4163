-------------------------- MODULE SignalLedger_proofs --------------------------
(***************************************************************************)
(* Proofs about the signal ledger, for any number of writers, any events,  *)
(* batches, cutoffs and faults.                                            *)
(*                                                                         *)
(* The argument: no id is in a file twice, and until an append could not   *)
(* restore a lost ledger, the ledger (or the mirror that would replace it) *)
(* and the mirror never disagree about an id or a number, and what the     *)
(* mirror has beyond the ledger is archived and no newer.  So a line under *)
(* a number above the ledger's last clashes with neither file, and what an *)
(* append, a loss or an archive run does to the two files is a step of the *)
(* event log.  Coherent caches are part of the invariant: the numbers and  *)
(* the copies of an append are read from them.                             *)
(***************************************************************************)
EXTENDS SignalLedger, FiniteSetTheorems, SequenceTheorems, TLAPS

\* The lines of a file.
Lines(file) == {file[i] : i \in DOMAIN file}

\* No id is in a file twice.
Once(file) == \A i, j \in DOMAIN file : i # j => file[i].id # file[j].id

\* No id and no number is in a file twice.
OneOfEach(file) ==
  \A i, j \in DOMAIN file : i # j => file[i].id # file[j].id /\ file[i].seq # file[j].seq

\* Two files agree about the event that has an id or a number.
Alike(f, g) ==
  \A i \in DOMAIN f, j \in DOMAIN g :
    f[i].id = g[j].id \/ f[i].seq = g[j].seq => f[i] = g[j]

Index == [ids : SUBSET Ids, last : Nat, fresh : BOOLEAN]

LedgerType ==
  /\ ledger \in Seq(Entries) /\ mirror \in Seq(Entries)
  /\ ledgerFile \in {"there", "missing", "stuck"} /\ restarted \in BOOLEAN
  /\ ledgerFile # "there" => ledger = NoFile
  /\ archived \in SUBSET Entries
  /\ cache \in [Procs -> [ledger : Index, mirror : Index]]

\* What holds of the files in every case.
FilesInv ==
  /\ Once(Standing) /\ Once(mirror)
  /\ \A e \in archived : IsMonitor(e)

\* Until a restart, what the mirror has beyond the ledger is in the archive,
\* and older; and it is no monitor event if the ledger has none.
LinesInv ==
  /\ OneOfEach(Standing) /\ OneOfEach(mirror) /\ Alike(Standing, mirror)
  /\ \A i \in DOMAIN mirror : /\ mirror[i].seq <= LastSeq(Standing)
                              /\ mirror[i] \in Lines(Standing) \cup archived
  /\ (\E i \in DOMAIN mirror : IsMonitor(mirror[i]))
       => \E i \in DOMAIN Standing : IsMonitor(Standing[i])

LedgerInv ==
  /\ LedgerType
  /\ FilesInv
  /\ ~restarted => LinesInv
  /\ CacheIsCoherent
  /\ GapsAreExplained
-----------------------------------------------------------------------------
(* Places of a sequence *)

LEMMA RankIs ==
  ASSUME NEW I \in SUBSET Nat, IsFiniteSet(I)
  PROVE  /\ Cardinality(I) \in Nat
         /\ \A i \in I : Cardinality({j \in I : j <= i}) \in 1..Cardinality(I)
         /\ \A i, j \in I :
              i < j => Cardinality({h \in I : h <= i}) < Cardinality({h \in I : h <= j})
<1> DEFINE Upto(i) == {j \in I : j <= i}
           n == Cardinality(I)
<1>1. n \in Nat
  BY FS_CardinalityType
<1>2. ASSUME NEW i \in I
      PROVE  IsFiniteSet(Upto(i)) /\ Cardinality(Upto(i)) \in 1..n
  <2>1. IsFiniteSet(Upto(i)) /\ Cardinality(Upto(i)) <= n
    BY FS_Subset
  <2>2. Cardinality(Upto(i)) \in Nat
    BY <2>1, FS_CardinalityType
  <2>3. Cardinality(Upto(i)) # 0
    <3>1. i \in Upto(i)
      OBVIOUS
    <3>2. QED
      BY <2>1, <3>1, FS_EmptySet
  <2> HIDE DEF Upto, n
  <2>4. QED
    BY <1>1, <2>1, <2>2, <2>3
<1>3. ASSUME NEW i \in I, NEW j \in I, i < j
      PROVE  Cardinality(Upto(i)) < Cardinality(Upto(j))
  <2>1. Upto(i) \in SUBSET Upto(j) /\ Upto(i) # Upto(j)
    <3>1. j \in Upto(j) /\ j \notin Upto(i)
      BY <1>3
    <3>2. \A h \in I : h <= i => h <= j
      BY <1>3
    <3>3. QED
      BY <3>1, <3>2
  <2> HIDE DEF Upto, n
  <2>2. /\ Cardinality(Upto(i)) <= Cardinality(Upto(j))
        /\ Cardinality(Upto(i)) # Cardinality(Upto(j))
    BY <1>2, <2>1, FS_Subset
  <2>3. Cardinality(Upto(i)) \in Nat /\ Cardinality(Upto(j)) \in Nat
    BY <1>1, <1>2
  <2>4. QED
    BY <2>2, <2>3
<1>4. QED
  BY <1>1, <1>2, <1>3

\* The places in order: each once, none left out.
LEMMA AscendingIs ==
  ASSUME NEW I \in SUBSET Nat, IsFiniteSet(I)
  PROVE  /\ Cardinality(I) \in Nat
         /\ Ascending(I) \in [1..Cardinality(I) -> I]
         /\ \A k, l \in 1..Cardinality(I) : k < l => Ascending(I)[k] < Ascending(I)[l]
         /\ \A i \in I : \E k \in 1..Cardinality(I) : Ascending(I)[k] = i
<1> DEFINE n == Cardinality(I)
           rank(i) == Cardinality({j \in I : j <= i})
           r == [i \in I |-> rank(i)]
           f == Ascending(I)
<1>1. /\ n \in Nat /\ \A i \in I : rank(i) \in 1..n
      /\ \A i, j \in I : i < j => rank(i) < rank(j)
  BY RankIs
<1>2. f = [k \in 1..n |-> CHOOSE i \in I : rank(i) = k]
  BY DEF Ascending
<1> HIDE DEF rank, f
<1>3. \A i, j \in I : rank(i) = rank(j) => i = j
  <2>1. ASSUME NEW i \in I, NEW j \in I, i # j PROVE rank(i) # rank(j)
    <3>1. i \in Nat /\ j \in Nat /\ rank(i) \in Int /\ rank(j) \in Int
      BY <1>1
    <3>2. CASE i < j
      BY <1>1, <3>1, <3>2
    <3>3. CASE j < i
      BY <1>1, <3>1, <3>3
    <3>4. QED
      BY <2>1, <3>1, <3>2, <3>3
  <2>2. QED
    BY <2>1
<1>4. r \in Injection(I, 1..n)
  BY <1>1, <1>3 DEF Injection, IsInjective
<1>5. IsFiniteSet(1..n) /\ Cardinality(1..n) = n
  <2> HIDE DEF n
  <2>1. QED
    BY <1>1, FS_Interval
<1>6. r \in Surjection(I, 1..n)
  <2> HIDE DEF r
  <2>1. Cardinality(I) = Cardinality(1..n)
    BY <1>5
  <2> HIDE DEF n
  <2>2. QED
    BY <1>4, <1>5, <2>1, FS_Injection
<1>7. \A k \in 1..n : \E i \in I : rank(i) = k
  BY <1>6 DEF Surjection
<1>8. \A k \in 1..n : f[k] \in I /\ rank(f[k]) = k
  BY <1>2, <1>7
<1>9. f \in [1..n -> I]
  BY <1>2, <1>7
<1>10. ASSUME NEW k \in 1..n, NEW l \in 1..n, k < l PROVE f[k] < f[l]
  <2> HIDE DEF n
  <2>1. f[k] \in I /\ f[l] \in I /\ rank(f[k]) = k /\ rank(f[l]) = l
    BY <1>8
  <2>2. f[k] \in Nat /\ f[l] \in Nat /\ k \in Int /\ l \in Int
    <3>1. n \in Nat
      BY <1>1
    <3>2. k \in Int /\ l \in Int
      BY <3>1
    <3>3. \A i \in I : i \in Nat
      OBVIOUS
    <3>4. QED
      BY <2>1, <3>2, <3>3
  <2>3. f[k] # f[l] /\ ~(f[l] < f[k])
    BY <1>1, <1>10, <2>1, <2>2
  <2>4. QED
    BY <2>2, <2>3
<1>11. ASSUME NEW i \in I PROVE \E k \in 1..n : f[k] = i
  <2>1. rank(i) \in 1..n
    BY <1>1
  <2>2. f[rank(i)] \in I /\ rank(f[rank(i)]) = rank(i)
    BY <1>8, <2>1
  <2>3. f[rank(i)] = i
    BY <1>3, <2>2
  <2>4. QED
    BY <2>1, <2>3
<1>12. QED
  BY <1>1, <1>9, <1>10, <1>11 DEF f

LEMMA AscendingAll ==
  ASSUME NEW n \in Nat
  PROVE  Cardinality(1..n) = n /\ \A k \in 1..n : Ascending(1..n)[k] = k
<1>1. IsFiniteSet(1..n) /\ Cardinality(1..n) = n
  BY FS_Interval
<1>2. ASSUME NEW i \in 1..n PROVE Cardinality({j \in 1..n : j <= i}) = i
  <2>1. {j \in 1..n : j <= i} = 1..i
    OBVIOUS
  <2>2. Cardinality(1..i) = i
    BY FS_Interval
  <2>3. QED
    BY <2>1, <2>2
<1>3. ASSUME NEW k \in 1..n
      PROVE  (CHOOSE i \in 1..n : Cardinality({j \in 1..n : j <= i}) = k) = k
  BY <1>2
<1>4. QED
  BY <1>1, <1>3 DEF Ascending

LEMMA PlacesFinite ==
  ASSUME NEW S, NEW s \in Seq(S), NEW I \in SUBSET DOMAIN s
  PROVE  IsFiniteSet(I) /\ I \in SUBSET Nat
<1>1. IsFiniteSet(DOMAIN s) /\ DOMAIN s \in SUBSET Nat
  BY FS_Interval
<1>2. QED
  BY <1>1, FS_Subset

\* What is picked: f names the place of each element.
LEMMA PickedIs ==
  ASSUME NEW S, NEW s \in Seq(S), NEW I \in SUBSET DOMAIN s
  PROVE  /\ Picked(s, I) \in Seq(S)
         /\ \E f \in [1..Len(Picked(s, I)) -> I] :
              /\ \A k \in 1..Len(Picked(s, I)) : Picked(s, I)[k] = s[f[k]]
              /\ \A k, l \in 1..Len(Picked(s, I)) : k < l => f[k] < f[l]
              /\ \A i \in I : \E k \in 1..Len(Picked(s, I)) : f[k] = i
<1> DEFINE n == Cardinality(I)
           f == Ascending(I)
<1>1. /\ n \in Nat /\ f \in [1..n -> I]
      /\ \A k, l \in 1..n : k < l => f[k] < f[l]
      /\ \A i \in I : \E k \in 1..n : f[k] = i
  BY PlacesFinite, AscendingIs
<1>2. Picked(s, I) = [k \in 1..n |-> s[f[k]]]
  BY DEF Picked
<1> HIDE DEF n, f
<1>3. \A k \in 1..n : s[f[k]] \in S
  BY <1>1
<1>4. Picked(s, I) \in Seq(S) /\ Len(Picked(s, I)) = n
  BY <1>1, <1>2, <1>3
<1>5. QED
  BY <1>1, <1>2, <1>4

LEMMA PickedAll ==
  ASSUME NEW S, NEW s \in Seq(S)
  PROVE  Picked(s, DOMAIN s) = s
<1>1. DOMAIN s = 1..Len(s) /\ Len(s) \in Nat
  OBVIOUS
<1>2. Picked(s, DOMAIN s) = [k \in 1..Len(s) |-> s[k]]
  BY <1>1, AscendingAll DEF Picked
<1>3. QED
  BY <1>1, <1>2

\* The lines of a file whose ids are not in ids: these, each as often as before.
LEMMA LackingIs ==
  ASSUME NEW S, NEW s \in Seq(S), NEW ids
  PROVE  /\ Lacking(s, ids) \in Seq(S)
         /\ Lines(Lacking(s, ids)) = {e \in Lines(s) : e.id \notin ids}
         /\ OneOfEach(s) => OneOfEach(Lacking(s, ids))
         /\ Once(s) => Once(Lacking(s, ids))
<1> DEFINE I == {i \in DOMAIN s : s[i].id \notin ids}
           t == Picked(s, I)
<1>0. I \in SUBSET DOMAIN s
  OBVIOUS
<1> HIDE DEF I
<1>1. t \in Seq(S) /\ Lacking(s, ids) = t
  BY <1>0, PickedIs DEF Lacking, I
<1>2. PICK f \in [1..Len(t) -> I] :
        /\ \A k \in 1..Len(t) : t[k] = s[f[k]]
        /\ \A k, l \in 1..Len(t) : k < l => f[k] < f[l]
        /\ \A i \in I : \E k \in 1..Len(t) : f[k] = i
  BY <1>0, PickedIs
<1> HIDE DEF t
<1>3. DOMAIN t = 1..Len(t)
  BY <1>1
<1>4. Lines(t) = {e \in Lines(s) : e.id \notin ids}
  <2>1. ASSUME NEW k \in DOMAIN t PROVE t[k] \in Lines(s) /\ t[k].id \notin ids
    <3>1. t[k] = s[f[k]] /\ f[k] \in I
      BY <1>2, <1>3
    <3>2. QED
      BY <3>1 DEF Lines, I
  <2>2. ASSUME NEW i \in DOMAIN s, s[i].id \notin ids
        PROVE  \E k \in DOMAIN t : t[k] = s[i]
    <3>1. i \in I
      BY <2>2 DEF I
    <3>2. PICK k \in 1..Len(t) : f[k] = i
      BY <1>2, <3>1
    <3>3. QED
      BY <1>2, <1>3, <3>2
  <2>3. QED
    BY <2>1, <2>2 DEF Lines
<1>5. ASSUME NEW k \in 1..Len(t), NEW l \in 1..Len(t), k # l
      PROVE  f[k] # f[l]
  <2>1. k \in Int /\ l \in Int /\ f[k] \in Int /\ f[l] \in Int
    BY <1>0, <1>2
  <2>2. QED
    BY <1>2, <1>5, <2>1
<1>6. (OneOfEach(s) => OneOfEach(t)) /\ (Once(s) => Once(t))
  BY <1>0, <1>2, <1>3, <1>5 DEF OneOfEach, Once
<1>7. QED
  BY <1>1, <1>4, <1>6
-----------------------------------------------------------------------------
(* Numbers and ids of a file *)

\* A set of places or numbers has a greatest one.
LEMMA IntervalMax ==
  ASSUME NEW u \in Nat, NEW S \in SUBSET (0..u), S # {}
  PROVE  \E n \in S : \A m \in S : m <= n
<1> DEFINE R == {ss \in Nat \X Nat : ss[1] < ss[2]}
           T == {k \in 0..u : u - k \in S}
<1>1. IsWellFoundedOn(R, Nat)
  BY NatLessThanWellFounded DEF OpToRel
<1>2. T \subseteq Nat /\ T # {}
  <2>1. PICK s \in S : TRUE
    OBVIOUS
  <2>2. u - s \in 0..u /\ u - (u - s) = s
    BY <2>1
  <2>3. QED
    BY <2>1, <2>2
<1>3. PICK t \in T : \A y \in T : ~(<<y, t>> \in R)
  <2> HIDE DEF R, T
  <2>1. QED
    BY <1>1, <1>2, WFMin
<1>4. \A y \in T : t <= y
  <2>1. ASSUME NEW y \in T PROVE t <= y
    <3>1. y \in Nat /\ t \in Nat
      BY <1>2
    <3>2. ~(y < t)
      <4>1. y < t => <<y, t>> \in R
        BY <3>1
      <4>2. QED
        BY <1>3, <4>1
    <3>3. QED
      BY <3>1, <3>2
  <2>2. QED
    BY <2>1
<1>5. u - t \in S /\ \A m \in S : m <= u - t
  <2>1. ASSUME NEW m \in S PROVE m <= u - t
    <3>1. u - m \in T
      <4>1. m \in 0..u /\ u - m \in 0..u /\ u - (u - m) = m
        OBVIOUS
      <4>2. QED
        BY <4>1
    <3>2. t <= u - m
      BY <3>1, <1>4
    <3>3. QED
      BY <3>2
  <2>2. QED
    BY <2>1
<1>6. QED
  BY <1>5

\* The newest number is a number of the file, and nothing is above it.
LEMMA LastSeqIs ==
  ASSUME NEW file \in Seq(Entries)
  PROVE  /\ LastSeq(file) \in Nat
         /\ \A i \in DOMAIN file : file[i].seq \in Nat /\ file[i].seq <= LastSeq(file)
         /\ file = <<>> => LastSeq(file) = 0
         /\ file # <<>> => \E i \in DOMAIN file : file[i].seq = LastSeq(file)
<1> DEFINE S == {file[i].seq : i \in DOMAIN file}
<1>1. S \in SUBSET (0..MaxSeq)
  <2>1. \A i \in DOMAIN file : file[i] \in Entries
    OBVIOUS
  <2>2. \A i \in DOMAIN file : file[i].seq \in 0..MaxSeq
    BY <2>1, LedgerAssumption DEF Entries
  <2>3. QED
    BY <2>2
<1>2. CASE file = <<>>
  BY <1>2 DEF LastSeq
<1>3. CASE file # <<>>
  <2>1. S # {}
    <3>1. 1 \in DOMAIN file
      BY <1>3
    <3>2. QED
      BY <3>1
  <2>2. PICK m \in S : \A n \in S : n <= m
    BY <1>1, <2>1, LedgerAssumption, IntervalMax
  <2>3. LastSeq(file) \in S /\ \A n \in S : n <= LastSeq(file)
    BY <2>1, <2>2 DEF LastSeq
  <2>4. QED
    BY <1>1, <1>3, <2>3, LedgerAssumption
<1>4. QED
  BY <1>2, <1>3

\* Two numbers that both bound a file and occur in it are the same.
LEMMA LastSeqUnique ==
  ASSUME NEW file \in Seq(Entries), NEW i \in DOMAIN file,
         \A j \in DOMAIN file : file[j].seq <= file[i].seq
  PROVE  LastSeq(file) = file[i].seq
<1>1. file # <<>>
  OBVIOUS
<1>2. PICK k \in DOMAIN file : file[k].seq = LastSeq(file)
  BY <1>1, LastSeqIs
<1>3. file[k].seq <= file[i].seq /\ file[i].seq <= file[k].seq
  BY <1>2, LastSeqIs
<1>4. file[k].seq \in Nat /\ file[i].seq \in Nat
  BY LastSeqIs
<1>5. QED
  BY <1>2, <1>3, <1>4

LEMMA EntryIdsAre ==
  ASSUME NEW file
  PROVE  EntryIds(file) = {e.id : e \in Lines(file)}
  BY DEF EntryIds, Lines

LEMMA ConcatIs ==
  ASSUME NEW S, NEW s \in Seq(S), NEW t \in Seq(S)
  PROVE  /\ s \o t \in Seq(S) /\ Len(s \o t) = Len(s) + Len(t)
         /\ DOMAIN s \subseteq DOMAIN (s \o t)
         /\ \A i \in DOMAIN s : (s \o t)[i] = s[i]
         /\ \A k \in DOMAIN t :
              Len(s) + k \in DOMAIN (s \o t) /\ (s \o t)[Len(s) + k] = t[k]
         /\ \A i \in DOMAIN (s \o t) \ DOMAIN s :
              i - Len(s) \in DOMAIN t /\ (s \o t)[i] = t[i - Len(s)]
  OBVIOUS

LEMMA ConcatLines ==
  ASSUME NEW S, NEW s \in Seq(S), NEW t \in Seq(S)
  PROVE  /\ Lines(s \o t) = Lines(s) \cup Lines(t)
         /\ EntryIds(s \o t) = EntryIds(s) \cup EntryIds(t)
<1>1. Lines(s \o t) \subseteq Lines(s) \cup Lines(t)
  BY ConcatIs DEF Lines
<1>2. Lines(s) \subseteq Lines(s \o t)
  BY ConcatIs DEF Lines
<1>3. Lines(t) \subseteq Lines(s \o t)
  <2>1. ASSUME NEW k \in DOMAIN t PROVE \E i \in DOMAIN (s \o t) : (s \o t)[i] = t[k]
    <3>1. Len(s) + k \in DOMAIN (s \o t) /\ (s \o t)[Len(s) + k] = t[k]
      BY ConcatIs
    <3>2. QED
      BY <3>1
  <2>2. QED
    BY <2>1 DEF Lines
<1>4. Lines(s \o t) = Lines(s) \cup Lines(t)
  BY <1>1, <1>2, <1>3
<1>5. QED
  BY <1>4, EntryIdsAre

\* Two files without a common id or number, one after the other.
LEMMA ConcatOneOfEach ==
  ASSUME NEW S, NEW s \in Seq(S), NEW t \in Seq(S), OneOfEach(s), OneOfEach(t),
         \A i \in DOMAIN s, k \in DOMAIN t : s[i].id # t[k].id /\ s[i].seq # t[k].seq
  PROVE  OneOfEach(s \o t)
<1> DEFINE u == s \o t
<1>1. /\ \A i \in DOMAIN s : u[i] = s[i]
      /\ \A i \in DOMAIN u \ DOMAIN s : i - Len(s) \in DOMAIN t /\ u[i] = t[i - Len(s)]
      /\ \A i \in DOMAIN u : i \in Int /\ Len(s) \in Int
  BY ConcatIs
<1> HIDE DEF u
<1>2. ASSUME NEW i \in DOMAIN u, NEW j \in DOMAIN u, i # j
      PROVE  u[i].id # u[j].id /\ u[i].seq # u[j].seq
  <2>1. CASE i \in DOMAIN s /\ j \in DOMAIN s
    BY <1>1, <1>2, <2>1 DEF OneOfEach
  <2>2. CASE i \in DOMAIN s /\ j \notin DOMAIN s
    BY <1>1, <2>2
  <2>3. CASE i \notin DOMAIN s /\ j \in DOMAIN s
    BY <1>1, <2>3
  <2>4. CASE i \notin DOMAIN s /\ j \notin DOMAIN s
    <3>1. i - Len(s) # j - Len(s)
      BY <1>1, <1>2
    <3>2. QED
      BY <1>1, <2>4, <3>1 DEF OneOfEach
  <2>5. QED
    BY <2>1, <2>2, <2>3, <2>4
<1>3. QED
  BY <1>2 DEF OneOfEach, u

LEMMA ConcatOnce ==
  ASSUME NEW S, NEW s \in Seq(S), NEW t \in Seq(S), Once(s), Once(t),
         \A i \in DOMAIN s, k \in DOMAIN t : s[i].id # t[k].id
  PROVE  Once(s \o t)
<1> DEFINE u == s \o t
<1>1. /\ \A i \in DOMAIN s : u[i] = s[i]
      /\ \A i \in DOMAIN u \ DOMAIN s : i - Len(s) \in DOMAIN t /\ u[i] = t[i - Len(s)]
      /\ \A i \in DOMAIN u : i \in Int /\ Len(s) \in Int
  BY ConcatIs
<1> HIDE DEF u
<1>2. ASSUME NEW i \in DOMAIN u, NEW j \in DOMAIN u, i # j
      PROVE  u[i].id # u[j].id
  <2>1. CASE i \in DOMAIN s /\ j \in DOMAIN s
    BY <1>1, <1>2, <2>1 DEF Once
  <2>2. CASE i \in DOMAIN s /\ j \notin DOMAIN s
    BY <1>1, <2>2
  <2>3. CASE i \notin DOMAIN s /\ j \in DOMAIN s
    BY <1>1, <2>3
  <2>4. CASE i \notin DOMAIN s /\ j \notin DOMAIN s
    <3>1. i - Len(s) # j - Len(s)
      BY <1>1, <1>2
    <3>2. QED
      BY <1>1, <2>4, <3>1 DEF Once
  <2>5. QED
    BY <2>1, <2>2, <2>3, <2>4
<1>3. QED
  BY <1>2 DEF Once, u

LEMMA LastSeqGrows ==
  ASSUME NEW s \in Seq(Entries), NEW t \in Seq(Entries)
  PROVE  /\ LastSeq(s) <= LastSeq(s \o t)
         /\ LastSeq(s) \in Nat /\ LastSeq(s \o t) \in Nat
<1>1. s \o t \in Seq(Entries)
  BY ConcatIs
<1>2. LastSeq(s) \in Nat /\ LastSeq(s \o t) \in Nat
  BY <1>1, LastSeqIs
<1>3. CASE s = <<>>
  <2>1. LastSeq(s) = 0
    BY <1>3, LastSeqIs
  <2>2. QED
    BY <1>2, <2>1
<1>4. CASE s # <<>>
  <2>1. PICK i \in DOMAIN s : s[i].seq = LastSeq(s)
    BY <1>4, LastSeqIs
  <2>2. i \in DOMAIN (s \o t) /\ (s \o t)[i] = s[i]
    BY ConcatIs
  <2>3. QED
    BY <1>1, <1>2, <2>1, <2>2, LastSeqIs
<1>5. QED
  BY <1>3, <1>4
-----------------------------------------------------------------------------
(* What a reader gets, and how it changes *)

LEMMA FoundIs ==
  ASSUME LedgerType
  PROVE  /\ Found \in Seq(Entries) /\ Standing \in Seq(Entries)
         /\ Found = Standing \/ Found = <<>>
         /\ ledgerFile = "there" \/ Restoring => Found = Standing
         /\ ~Restoring => Found = ledger
         /\ ledgerFile = "there" => Found = ledger /\ Standing = ledger
<1>1. Restoring => Found = mirror /\ Standing = mirror
  BY DEF Restoring, Found, Standing
<1>2. ~Restoring => Found = ledger
  BY DEF Found
<1>3. ledgerFile = "there" => ~Restoring /\ Standing = ledger
  BY DEF Restoring, Standing
<1>4. ledgerFile # "there" => ledger = <<>> /\ Standing = mirror
  BY DEF LedgerType, Standing, NoFile
<1>5. QED
  BY <1>1, <1>2, <1>3, <1>4 DEF LedgerType

LEMMA StandingNext ==
  /\ ledgerFile' = "there" => Standing' = ledger'
  /\ ledgerFile' # "there" => Standing' = mirror'
  BY DEF Standing

LEMMA FoundOnce ==
  ASSUME LedgerType, FilesInv PROVE Once(Found)
<1>1. CASE Found = Standing
  BY <1>1 DEF FilesInv
<1>2. CASE Found = <<>>
  BY <1>2 DEF Once
<1>3. QED
  BY <1>1, <1>2, FoundIs

\* A step that at most restores the ledger.
LEMMA RestoreIs ==
  ASSUME LedgerType, Restore, mirror' = mirror
  PROVE  /\ Standing' = Standing /\ restarted' = restarted
         /\ ledger' = Found /\ ledger' \in Seq(Entries)
         /\ ledgerFile' \in {"there", "missing", "stuck"}
         /\ ledgerFile' # "there" => ledger' = NoFile
<1>1. /\ ledger' = Found /\ restarted' = restarted
      /\ ledgerFile' = IF Restoring THEN "there" ELSE ledgerFile
  BY DEF Restore
<1>2. CASE Restoring
  <2>1. Standing' = ledger' /\ ledgerFile' = "there"
    BY <1>1, <1>2, StandingNext
  <2>2. QED
    BY <1>1, <1>2, <2>1, FoundIs
<1>3. CASE ~Restoring
  <2>1. ledgerFile' = ledgerFile /\ ledger' = ledger
    BY <1>1, <1>3, FoundIs
  <2>2. QED
    BY <1>1, <2>1 DEF LedgerType, Standing
<1>4. QED
  BY <1>2, <1>3

LEMMA LinesStay ==
  ASSUME FilesInv, ~restarted => LinesInv, Standing' = Standing,
         UNCHANGED <<mirror, archived, restarted>>
  PROVE  FilesInv' /\ (~restarted' => LinesInv')
<1>1. FilesInv'
  BY DEF FilesInv, Once, IsMonitor
<1>2. ASSUME LinesInv PROVE LinesInv'
  BY <1>2 DEF LinesInv, OneOfEach, Alike, IsMonitor
<1>3. QED
  BY <1>1, <1>2

\* Lines that may follow those that were found, under numbers that grow.
NewLines(more) ==
  /\ \A k \in DOMAIN more :
       /\ more[k].id \notin EntryIds(Found) /\ more[k].seq > LastSeq(Found)
       /\ more[k].seq = LastSeq(Found) + k
  /\ \A k, l \in DOMAIN more : k < l => more[k].id # more[l].id /\ more[k].seq < more[l].seq
  /\ ~restarted /\ Found = Standing => \A k \in DOMAIN more : more[k].id \notin EntryIds(mirror)

\* Lines of the ledger that may follow those of the mirror.
NewCopies(more, copied) ==
  /\ Once(copied)
  /\ \A k \in DOMAIN copied : /\ copied[k] \in Lines(Found) \cup Lines(more)
                              /\ copied[k].id \notin EntryIds(mirror)

LEMMA NewLinesOnce ==
  ASSUME LedgerType, NEW more \in Seq(Entries), NewLines(more)
  PROVE  OneOfEach(more) /\ Once(more)
<1>1. ASSUME NEW k \in DOMAIN more, NEW l \in DOMAIN more, k # l
      PROVE  more[k].id # more[l].id /\ more[k].seq # more[l].seq
  <2>1. k \in Int /\ l \in Int /\ more[k].seq \in Nat /\ more[l].seq \in Nat
    BY LastSeqIs
  <2>2. QED
    BY <1>1, <2>1 DEF NewLines
<1>2. QED
  BY <1>1 DEF OneOfEach, Once

\* New lines, and copies of lines: no file has an id twice.
LEMMA GrowsOnce ==
  ASSUME LedgerType, FilesInv,
         NEW more \in Seq(Entries), NewLines(more),
         NEW copied \in Seq(Entries), NewCopies(more, copied),
         Write(more), mirror' = mirror \o copied, archived' = archived
  PROVE  Standing' = Found \o more /\ FilesInv'
<1> DEFINE f == Found
           m == mirror
<1>1. f \in Seq(Entries) /\ m \in Seq(Entries) /\ Once(f) /\ Once(m)
  BY FoundIs, FoundOnce DEF LedgerType, FilesInv
<1>2. /\ \A k \in DOMAIN more : more[k].id \notin EntryIds(f)
      /\ \A k \in DOMAIN copied : copied[k].id \notin EntryIds(m)
      /\ Once(copied) /\ Once(more)
  BY NewLinesOnce DEF NewLines, NewCopies
<1>3. Standing' = f \o more /\ mirror' = m \o copied
  BY StandingNext DEF Write
<1> HIDE DEF f, m
<1>4. Once(f \o more)
  <2>1. \A i \in DOMAIN f, k \in DOMAIN more : f[i].id # more[k].id
    BY <1>2 DEF EntryIds
  <2>2. QED
    BY <1>1, <1>2, <2>1, ConcatOnce
<1>5. Once(m \o copied)
  <2>1. \A i \in DOMAIN m, k \in DOMAIN copied : m[i].id # copied[k].id
    BY <1>2 DEF EntryIds
  <2>2. QED
    BY <1>1, <1>2, <2>1, ConcatOnce
<1>6. Once(Standing)' = Once(Standing') /\ Once(mirror)' = Once(mirror')
  BY DEF Once
<1>7. FilesInv'
  BY <1>3, <1>4, <1>5, <1>6 DEF FilesInv, IsMonitor
<1>8. QED
  BY <1>3, <1>7 DEF f

\* ... and, before a restart, no number either.
LEMMA Grows ==
  ASSUME LedgerType, LinesInv, ~restarted, Found = Standing,
         NEW more \in Seq(Entries), NewLines(more),
         NEW copied \in Seq(Entries), NewCopies(more, copied),
         Write(more), mirror' = mirror \o copied, archived' = archived
  PROVE  LinesInv'
<1> DEFINE f == Found
           m == mirror
           g == f \o more
           n == m \o copied
<1>1. f \in Seq(Entries) /\ m \in Seq(Entries)
  BY FoundIs DEF LedgerType
<1>2. /\ OneOfEach(f) /\ OneOfEach(m) /\ Alike(f, m)
      /\ \A j \in DOMAIN m : m[j].seq <= LastSeq(f) /\ m[j] \in Lines(f) \cup archived
      /\ (\E j \in DOMAIN m : IsMonitor(m[j])) => \E i \in DOMAIN f : IsMonitor(f[i])
  BY DEF LinesInv
<1>3. /\ \A k \in DOMAIN more : /\ more[k].id \notin EntryIds(f) /\ more[k].seq > LastSeq(f)
                                /\ more[k].id \notin EntryIds(m)
      /\ \A k \in DOMAIN copied : /\ copied[k] \in Lines(f) \cup Lines(more)
                                  /\ copied[k].id \notin EntryIds(m)
      /\ Once(copied) /\ OneOfEach(more)
  BY NewLinesOnce DEF NewLines, NewCopies
<1>4. Standing' = g /\ mirror' = n
  BY StandingNext DEF Write
<1> HIDE DEF f, m
<1>5. g \in Seq(Entries) /\ n \in Seq(Entries) /\ Lines(g) = Lines(f) \cup Lines(more)
  BY <1>1, ConcatIs, ConcatLines
<1>6. \A i \in DOMAIN f : f[i].seq \in Nat /\ f[i].seq <= LastSeq(f) /\ LastSeq(f) \in Nat
  BY <1>1, LastSeqIs
<1>7. OneOfEach(g)
  <2>1. ASSUME NEW i \in DOMAIN f, NEW k \in DOMAIN more
        PROVE  f[i].id # more[k].id /\ f[i].seq # more[k].seq
    <3>1. f[i].id \in EntryIds(f)
      BY DEF EntryIds
    <3>2. more[k].seq \in Nat
      BY LastSeqIs
    <3>3. QED
      BY <1>3, <1>6, <3>1, <3>2
  <2>2. QED
    BY <1>1, <1>2, <1>3, <2>1, ConcatOneOfEach
\* A line of the mirror is old, so none of the new ones looks like it.
<1>8. Alike(g, m)
  <2>1. ASSUME NEW i \in DOMAIN g, NEW j \in DOMAIN m, g[i].id = m[j].id \/ g[i].seq = m[j].seq
        PROVE  g[i] = m[j]
    <3>1. CASE i \in DOMAIN f
      <4>1. g[i] = f[i]
        BY <1>1, <3>1, ConcatIs
      <4>2. QED
        BY <1>2, <2>1, <3>1, <4>1 DEF Alike
    <3>2. CASE i \notin DOMAIN f
      <4>1. PICK k \in DOMAIN more : g[i] = more[k]
        BY <1>1, <3>2, ConcatIs
      <4>2. m[j].id # more[k].id
        BY <1>3 DEF EntryIds
      <4>3. m[j].seq # more[k].seq
        <5>1. m[j].seq \in Nat /\ more[k].seq \in Nat /\ LastSeq(f) \in Nat
          BY <1>1, LastSeqIs
        <5>2. m[j].seq <= LastSeq(f) /\ LastSeq(f) < more[k].seq
          BY <1>2, <1>3, <5>1
        <5>3. QED
          BY <5>1, <5>2
      <4>4. QED
        BY <2>1, <4>1, <4>2, <4>3
    <3>3. QED
      BY <3>1, <3>2
  <2>2. QED
    BY <2>1 DEF Alike
\* What is copied is a line of the ledger.
<1>9. \A k \in DOMAIN copied : \E h \in DOMAIN g : copied[k] = g[h]
  BY <1>3, <1>5 DEF Lines
<1>10. OneOfEach(n)
  <2>0. OneOfEach(copied)
    <3>1. ASSUME NEW k \in DOMAIN copied, NEW l \in DOMAIN copied, k # l
          PROVE  copied[k].id # copied[l].id /\ copied[k].seq # copied[l].seq
      <4>1. copied[k].id # copied[l].id
        BY <1>3, <3>1 DEF Once
      <4>2. PICK h \in DOMAIN g : copied[k] = g[h]
        BY <1>9
      <4>3. PICK i \in DOMAIN g : copied[l] = g[i]
        BY <1>9
      <4>4. h # i
        BY <4>1, <4>2, <4>3
      <4>5. QED
        BY <1>7, <4>1, <4>2, <4>3, <4>4 DEF OneOfEach
    <3>2. QED
      BY <3>1 DEF OneOfEach
  <2>1. ASSUME NEW j \in DOMAIN m, NEW k \in DOMAIN copied
        PROVE  m[j].id # copied[k].id /\ m[j].seq # copied[k].seq
    <3>1. m[j].id # copied[k].id
      BY <1>3 DEF EntryIds
    <3>2. PICK h \in DOMAIN g : copied[k] = g[h]
      BY <1>9
    <3>3. QED
      BY <1>8, <3>1, <3>2 DEF Alike
  <2>2. QED
    BY <1>1, <1>2, <2>0, <2>1, ConcatOneOfEach
<1>11. Lines(n) = Lines(m) \cup Lines(copied)
  BY <1>1, ConcatLines
<1>12. Alike(g, n)
  <2>1. ASSUME NEW i \in DOMAIN g, NEW e \in Lines(n), g[i].id = e.id \/ g[i].seq = e.seq
        PROVE  g[i] = e
    <3>1. CASE e \in Lines(m)
      BY <1>8, <2>1, <3>1 DEF Alike, Lines
    <3>2. CASE e \in Lines(copied)
      <4>1. PICK h \in DOMAIN g : e = g[h]
        BY <1>9, <3>2 DEF Lines
      <4>2. QED
        BY <1>7, <2>1, <4>1 DEF OneOfEach
    <3>3. QED
      BY <1>11, <3>1, <3>2
  <2>2. \A j \in DOMAIN n : n[j] \in Lines(n)
    BY DEF Lines
  <2> HIDE DEF g, n
  <2>3. QED
    BY <2>1, <2>2 DEF Alike
<1>13. ASSUME NEW e \in Lines(n)
       PROVE  e.seq <= LastSeq(g) /\ e \in Lines(g) \cup archived
  <2>1. CASE e \in Lines(m)
    <3>1. PICK j \in DOMAIN m : e = m[j]
      BY <2>1 DEF Lines
    <3>2. e.seq \in Nat /\ LastSeq(f) <= LastSeq(g) /\ LastSeq(f) \in Nat /\ LastSeq(g) \in Nat
      BY <1>1, <3>1, LastSeqIs, LastSeqGrows
    <3>3. e.seq <= LastSeq(f) /\ e \in Lines(f) \cup archived
      BY <1>2, <3>1
    <3>4. QED
      BY <1>5, <3>2, <3>3
  <2>2. CASE e \in Lines(copied)
    <3>1. PICK h \in DOMAIN g : e = g[h]
      BY <1>9, <2>2 DEF Lines
    <3>2. e.seq <= LastSeq(g)
      BY <1>5, <3>1, LastSeqIs
    <3>3. QED
      BY <3>1, <3>2 DEF Lines
  <2>3. QED
    BY <1>11, <2>1, <2>2
<1>14. ASSUME NEW e \in Lines(n), IsMonitor(e)
       PROVE  \E d \in Lines(g) : IsMonitor(d)
  <2>1. CASE e \in Lines(m)
    <3>1. PICK i \in DOMAIN f : IsMonitor(f[i])
      BY <1>2, <1>14, <2>1 DEF Lines
    <3>2. f[i] \in Lines(g)
      BY <1>5 DEF Lines
    <3>3. QED
      BY <3>1, <3>2
  <2>2. CASE e \in Lines(copied)
    <3>1. e \in Lines(g)
      BY <1>9, <2>2 DEF Lines
    <3>2. QED
      BY <1>14, <3>1
  <2>3. QED
    BY <1>11, <2>1, <2>2
<1>15. QED
  <2>1. \A j \in DOMAIN n : n[j] \in Lines(n)
    BY DEF Lines
  <2>2. (\E j \in DOMAIN n : IsMonitor(n[j])) => \E i \in DOMAIN g : IsMonitor(g[i])
    <3> HIDE DEF g, n
    <3>1. QED
      BY <1>14, <2>1 DEF Lines
  <2> HIDE DEF g, n
  <2>3. QED
    BY <1>2, <1>4, <1>7, <1>10, <1>12, <1>13, <2>1, <2>2 DEF LinesInv, IsMonitor, OneOfEach, Alike
-----------------------------------------------------------------------------
(* The same changes, as steps of the event log *)

LEMMA LogSets ==
  ASSUME NEW file
  PROVE  Log!ToSet(file) = Lines(file) /\ Log!IdsOf(Log!ToSet(file)) = EntryIds(file)
  BY DEF Log!ToSet, Log!IdsOf, Lines, EntryIds

LEMMA LogPicked ==
  ASSUME NEW s, NEW I
  PROVE  Log!Picked(s, I) = Picked(s, I)
  BY DEF Log!Picked, Picked, Log!Ascending, Ascending, Log!Cardinality, Cardinality

LEMMA GrowsIsRecord ==
  ASSUME LedgerType, NEW more \in Seq(Entries), NewLines(more), Found = Standing,
         Standing' = Found \o more, EntryIds(mirror) \subseteq EntryIds(mirror)',
         archived' = archived, restarted' = restarted
  PROVE  Log!Record
<1> DEFINE f == Found
           g == f \o more
<1>1. f \in Seq(Entries) /\ Standing' = g /\ Standing = f
  BY FoundIs
<1> HIDE DEF f
<1>2. /\ g \in Seq(Entries) /\ Len(g) = Len(f) + Len(more) /\ Len(f) \in Nat /\ Len(more) \in Nat
      /\ DOMAIN g = 1..Len(g) /\ DOMAIN f = 1..Len(f) /\ DOMAIN more = 1..Len(more)
      /\ \A i \in DOMAIN f : g[i] = f[i]
      /\ \A i \in DOMAIN g \ DOMAIN f : i - Len(f) \in DOMAIN more /\ g[i] = more[i - Len(f)]
  BY <1>1, ConcatIs
<1> HIDE DEF g
<1>3. Log!IsPrefix(f, g)
  <2>1. SubSeq(f, 1, Len(f)) = f
    BY <1>1
  <2>2. SubSeq(g, 1, Len(f)) = f
    <3>1. Len(f) <= Len(g)
      BY <1>2
    <3>2. SubSeq(g, 1, Len(f)) = [i \in 1..Len(f) |-> g[i]]
      BY <1>2, <3>1
    <3>3. QED
      BY <1>1, <1>2, <3>2
  <2>3. QED
    BY <1>2, <2>1, <2>2 DEF Log!IsPrefix
<1>4. ASSUME NEW j \in Len(f) + 1..Len(g), NEW i \in 1..Len(g), i < j
      PROVE  g[i].id # g[j].id /\ g[i].seq < g[j].seq
  <2> DEFINE k == j - Len(f)
  <2>1. j \in DOMAIN g \ DOMAIN f /\ k \in DOMAIN more /\ g[j] = more[k]
    BY <1>2
  <2> HIDE DEF k
  <2>2. CASE i \in DOMAIN f
    <3>1. g[i] = f[i] /\ f[i].id \in EntryIds(f)
      BY <1>2, <2>2 DEF EntryIds
    <3>2. f[i].seq \in Nat /\ f[i].seq <= LastSeq(f) /\ LastSeq(f) \in Nat /\ more[k].seq \in Nat
      BY <1>1, <2>1, <2>2, LastSeqIs
    <3>3. more[k].id \notin EntryIds(f) /\ more[k].seq > LastSeq(f)
      BY <2>1 DEF NewLines, f
    <3>4. QED
      BY <2>1, <3>1, <3>2, <3>3
  <2>3. CASE i \notin DOMAIN f
    <3>1. i - Len(f) \in DOMAIN more /\ g[i] = more[i - Len(f)]
      BY <1>2, <2>3
    <3>2. i - Len(f) < k
      BY <1>2, <1>4 DEF k
    <3>3. QED
      BY <2>1, <3>1, <3>2 DEF NewLines
  <2>4. QED
    BY <2>2, <2>3
<1>5. EntryIds(f) \subseteq EntryIds(g)
  BY <1>1, ConcatLines DEF g
<1>6. LET kept == EntryIds(mirror) \cap EntryIds(f)
          after == EntryIds(mirror)' \cap EntryIds(g)
      IN  kept \subseteq after /\ after \subseteq Log!IdsOf(Log!ToSet(g))
  BY <1>5, LogSets
<1>7. EntryIds(Standing)' = EntryIds(g) /\ EntryIds(Standing) = EntryIds(f)
  BY <1>1 DEF EntryIds
<1>8. QED
  BY <1>1, <1>3, <1>4, <1>6, <1>7 DEF Log!Record

\* An append that could not restore begins a new log, numbered from 1.
LEMMA BeginsIsRestart ==
  ASSUME LedgerType, NEW more \in Seq(Entries), NewLines(more), Found # Standing,
         Write(more), archived' = archived
  PROVE  Log!Restart
<1>1. Found = <<>> /\ LastSeq(Found) = 0
  BY FoundIs, LastSeqIs
<1>2. Standing' = more /\ restarted'
  <2>1. ledger' = Found \o more /\ ledgerFile' = "there" /\ restarted'
    BY DEF Write
  <2>2. Found \o more = more
    BY <1>1
  <2>3. QED
    BY <2>1, <2>2, StandingNext
<1>3. /\ DOMAIN more = 1..Len(more)
      /\ \A k \in DOMAIN more : more[k].seq = LastSeq(Found) + k
      /\ \A k, l \in DOMAIN more : k < l => more[k].id # more[l].id
  BY DEF NewLines
<1>4. \A k \in 1..Len(more) : more[k].seq = k
  BY <1>1, <1>3
<1>5. EntryIds(Standing)' = EntryIds(more) /\ Log!IdsOf(Log!ToSet(more)) = EntryIds(more)
  BY <1>2, LogSets DEF EntryIds
<1>6. QED
  BY <1>2, <1>3, <1>4, <1>5 DEF Log!Restart

LEMMA StayIsStutter ==
  ASSUME Standing' = Standing, UNCHANGED <<mirror, archived, restarted>>
  PROVE  UNCHANGED Log!logVars
  BY DEF Log!logVars, EntryIds

\* A file without repetitions has as many lines as events.
LEMMA LengthIs ==
  ASSUME NEW file \in Seq(Entries), Once(file)
  PROVE  Log!Cardinality(EntryIds(file)) = Len(file)
<1> DEFINE ids == [i \in 1..Len(file) |-> file[i].id]
<1>1. ids \in Bijection(1..Len(file), EntryIds(file))
  <2>1. ids \in [1..Len(file) -> EntryIds(file)]
    BY DEF EntryIds
  <2>2. \A i, j \in 1..Len(file) : ids[i] = ids[j] => i = j
    BY DEF Once
  <2>3. \A e \in EntryIds(file) : \E i \in 1..Len(file) : ids[i] = e
    BY DEF EntryIds
  <2>4. QED
    BY <2>1, <2>2, <2>3 DEF Bijection, Injection, Surjection, IsInjective
<1>2. ExistsBijection(1..Len(file), EntryIds(file))
  BY <1>1 DEF ExistsBijection
<1>3. Len(file) \in Nat
  OBVIOUS
<1>4. Cardinality(EntryIds(file)) = Len(file)
  BY <1>2, <1>3, FS_CountingElements
<1>5. Log!Cardinality(EntryIds(file)) = Cardinality(EntryIds(file))
  BY DEF Log!Cardinality, Cardinality
<1>6. QED
  BY <1>4, <1>5

\* The file is lost: what a reader gets now is the mirror.
LEMMA LosesLines ==
  ASSUME LedgerType, FilesInv, ~restarted => LinesInv,
         ledgerFile = "there", ledgerFile' = "missing",
         UNCHANGED <<mirror, archived, restarted>>
  PROVE  FilesInv' /\ (~restarted' => LinesInv') /\ Log!Lose /\ Standing' = mirror
<1>1. Standing = ledger /\ Standing' = mirror
  BY StandingNext DEF Standing
<1>2. mirror \in Seq(Entries) /\ Once(mirror)
  BY DEF LedgerType, FilesInv
<1>3. FilesInv'
  BY <1>1 DEF FilesInv, Once, IsMonitor
<1>4. ASSUME ~restarted
      PROVE  /\ OneOfEach(mirror) /\ Alike(ledger, mirror)
             /\ \A j \in DOMAIN mirror : mirror[j] \in Lines(ledger) \cup archived
  BY <1>1, <1>4 DEF LinesInv
<1>5. ASSUME ~restarted' PROVE LinesInv'
  <2>1. OneOfEach(mirror)
    BY <1>4, <1>5
  <2>2. Alike(mirror, mirror)
    BY <2>1 DEF Alike, OneOfEach
  <2>3. \A j \in DOMAIN mirror : mirror[j].seq <= LastSeq(mirror) /\ mirror[j] \in Lines(mirror)
    BY <1>2, LastSeqIs DEF Lines
  <2>4. QED
    BY <1>1, <2>1, <2>2, <2>3 DEF LinesInv, OneOfEach, Alike, IsMonitor
<1>6. Log!Lose
  <2> DEFINE kept == EntryIds(mirror) \cap EntryIds(ledger)
             left == {e \in Lines(ledger) : e.id \in kept}
  <2>1. ASSUME ~restarted PROVE left \subseteq Lines(mirror)
    <3>1. ASSUME NEW i \in DOMAIN ledger, ledger[i].id \in EntryIds(mirror)
          PROVE  ledger[i] \in Lines(mirror)
      <4>1. PICK j \in DOMAIN mirror : mirror[j].id = ledger[i].id
        BY <3>1 DEF EntryIds
      <4>2. ledger[i] = mirror[j]
        BY <1>4, <2>1, <4>1 DEF Alike
      <4>3. QED
        BY <4>2 DEF Lines
    <3>2. QED
      BY <3>1 DEF Lines
  <2>2. ~restarted => Lines(mirror) \subseteq left \cup archived
    BY <1>4 DEF Lines, EntryIds
  <2>3. Len(mirror) = Log!Cardinality(EntryIds(mirror))
    BY <1>2, LengthIs
  <2>4. EntryIds(mirror)' = EntryIds(mirror) /\ EntryIds(Standing)' = EntryIds(mirror)
        /\ EntryIds(Standing) = EntryIds(ledger)
    BY <1>1 DEF EntryIds
  <2>5. /\ Log!ToSet(ledger) = Lines(ledger) /\ Log!ToSet(mirror) = Lines(mirror)
        /\ Log!IdsOf(Log!ToSet(mirror)) = EntryIds(mirror)
    BY LogSets
  <2>6. QED
    BY <1>1, <2>1, <2>2, <2>3, <2>4, <2>5 DEF Log!Lose
<1>7. QED
  BY <1>1, <1>3, <1>5, <1>6
-----------------------------------------------------------------------------
(* Archiving *)

\* What an archive run keeps: the newest number, and for each event that goes
\* one that restates it.
LEMMA RetainedIs ==
  ASSUME LedgerType, FilesInv, ~restarted => LinesInv,
         NEW cutoff \in 1..MaxSeq, ArchivePlan(cutoff)
  PROVE  LET gone == Archivable(cutoff)
             kept == Retained(cutoff)
         IN  /\ ledgerFile = "there" /\ Found = ledger /\ Standing = ledger
             /\ kept \in Seq(Entries) /\ Once(kept) /\ (~restarted => OneOfEach(kept))
             /\ LastSeq(kept) = LastSeq(ledger)
             /\ Lines(kept) = {ledger[i] : i \in DOMAIN ledger \ gone}
             /\ gone = {i \in DOMAIN ledger : ledger[i] \notin Lines(kept)}
             /\ \A i \in gone : \E j \in DOMAIN ledger \ gone :
                  i < j /\ Subject[ledger[j].id] = Subject[ledger[i].id]
             /\ \A i \in gone : \E j \in DOMAIN ledger \ gone :
                  \/ ledger[i].seq < ledger[j].seq
                  \/ restarted /\ ledger[i].seq = ledger[j].seq
             /\ \A i \in gone : IsMonitor(ledger[i])
             /\ \A i \in gone : \E j \in DOMAIN ledger \ gone : IsMonitor(ledger[j])
<1> DEFINE gone == Archivable(cutoff)
           kept == Retained(cutoff)
           K == DOMAIN ledger \ gone
<1>1. /\ gone \subseteq DOMAIN ledger /\ gone # {} /\ LastSeq(kept) = LastSeq(ledger)
      /\ \A i \in gone : IsMonitor(ledger[i])
      /\ \A i \in gone : \E j \in i + 1..Len(ledger) :
           Subject[ledger[j].id] = Subject[ledger[i].id]
  BY DEF ArchivePlan, Verified, Archivable
<1>2. ledger \in Seq(Entries) /\ kept = Picked(ledger, K)
  BY DEF Retained, LedgerType
<1>3. ledger # <<>> /\ K \in SUBSET DOMAIN ledger
  BY <1>1
<1>4. /\ ledgerFile = "there" /\ Found = ledger /\ Standing = ledger
      /\ Once(ledger) /\ (~restarted => OneOfEach(ledger))
  <2>1. ledgerFile = "there"
    BY <1>3 DEF LedgerType, NoFile
  <2>2. Found = ledger /\ Standing = ledger
    BY <2>1, FoundIs
  <2>3. QED
    BY <2>1, <2>2 DEF FilesInv, LinesInv
<1> HIDE DEF gone, kept, K
<1>5. kept \in Seq(Entries)
  BY <1>2, <1>3, PickedIs
<1>6. PICK f \in [1..Len(kept) -> K] :
        /\ \A k \in 1..Len(kept) : kept[k] = ledger[f[k]]
        /\ \A k, l \in 1..Len(kept) : k < l => f[k] < f[l]
        /\ \A i \in K : \E k \in 1..Len(kept) : f[k] = i
  BY <1>2, <1>3, PickedIs
<1>7. DOMAIN kept = 1..Len(kept) /\ DOMAIN ledger = 1..Len(ledger) /\ Len(ledger) \in Nat
  BY <1>2, <1>5
<1>8. Lines(kept) = {ledger[i] : i \in K}
  <2>1. \A k \in DOMAIN kept : \E i \in K : kept[k] = ledger[i]
    BY <1>6, <1>7
  <2>2. \A i \in K : \E k \in DOMAIN kept : kept[k] = ledger[i]
    BY <1>6, <1>7
  <2>3. QED
    BY <2>1, <2>2 DEF Lines
<1>9. Once(kept) /\ (~restarted => OneOfEach(kept))
  <2>1. ASSUME NEW k \in 1..Len(kept), NEW l \in 1..Len(kept), k # l
        PROVE  f[k] # f[l] /\ f[k] \in DOMAIN ledger /\ f[l] \in DOMAIN ledger
    <3>1. k \in Int /\ l \in Int /\ f[k] \in K /\ f[l] \in K
      BY <1>5, <1>6
    <3>2. f[k] \in DOMAIN ledger /\ f[l] \in DOMAIN ledger /\ f[k] \in Int /\ f[l] \in Int
      BY <1>3, <1>7, <3>1
    <3>3. QED
      BY <1>6, <2>1, <3>1, <3>2
  <2>2. QED
    BY <1>4, <1>6, <1>7, <2>1 DEF OneOfEach, Once
<1>10. ASSUME NEW i \in DOMAIN ledger
       PROVE  i \in gone <=> ledger[i] \notin Lines(kept)
  <2>1. i \notin gone => ledger[i] \in Lines(kept)
    BY <1>8 DEF K
  <2>2. ASSUME i \in gone, ledger[i] \in Lines(kept) PROVE FALSE
    <3>1. PICK j \in K : ledger[i] = ledger[j]
      BY <1>8, <2>2
    <3>2. QED
      BY <1>4, <2>2, <3>1 DEF Once, K
  <2>3. QED
    BY <2>1, <2>2
<1>11. \E n \in K : ledger[n].seq = LastSeq(ledger)
  <2>1. kept # <<>>
    <3>1. LastSeq(ledger) # 0
      <4>1. PICK i \in DOMAIN ledger : ledger[i].seq = LastSeq(ledger)
        BY <1>2, <1>3, LastSeqIs
      <4>2. ledger[i] \in Entries
        BY <1>2
      <4>3. QED
        BY <4>1, <4>2, LedgerAssumption DEF Entries
    <3>2. QED
      BY <1>1, <3>1, <1>5, LastSeqIs
  <2>2. PICK k \in DOMAIN kept : kept[k].seq = LastSeq(kept)
    BY <1>5, <2>1, LastSeqIs
  <2>3. QED
    BY <1>1, <1>6, <1>7, <2>2
<1>12. ASSUME NEW i \in gone
       PROVE  \E j \in K : \/ ledger[i].seq < ledger[j].seq
                           \/ restarted /\ ledger[i].seq = ledger[j].seq
  <2>1. PICK n \in K : ledger[n].seq = LastSeq(ledger)
    BY <1>11
  <2>2. i \in DOMAIN ledger /\ i # n
    BY <1>1, <2>1 DEF K
  <2>3. ~restarted => ledger[i].seq # ledger[n].seq
    BY <1>3, <1>4, <2>1, <2>2 DEF OneOfEach
  <2>4. ledger[i].seq <= LastSeq(ledger) /\ ledger[i].seq \in Nat /\ LastSeq(ledger) \in Nat
    BY <1>2, <2>2, LastSeqIs
  <2>5. ledger[i].seq < ledger[n].seq \/ ledger[i].seq = ledger[n].seq
    BY <2>1, <2>4
  <2>6. restarted \in BOOLEAN
    BY DEF LedgerType
  <2>7. QED
    BY <2>1, <2>3, <2>5, <2>6
\* The last event about the subject cannot go.
<1>13. ASSUME NEW i \in gone
       PROVE  \E j \in K : i < j /\ Subject[ledger[j].id] = Subject[ledger[i].id]
  <2> DEFINE Later == {j \in i + 1..Len(ledger) : Subject[ledger[j].id] = Subject[ledger[i].id]}
  <2>1. i \in 1..Len(ledger)
    BY <1>1, <1>7
  <2>2. Later # {} /\ Later \in SUBSET (0..Len(ledger))
    BY <1>1, <1>7, <2>1
  <2>3. PICK n \in Later : \A m \in Later : m <= n
    <3> HIDE DEF Later
    <3>1. QED
      BY <1>7, <2>2, IntervalMax
  <2>4. n \in DOMAIN ledger /\ i < n /\ n \in Nat /\ Subject[ledger[n].id] = Subject[ledger[i].id]
    BY <1>7, <2>1, <2>3
  <2>5. ~\E j \in n + 1..Len(ledger) : Subject[ledger[j].id] = Subject[ledger[n].id]
    <3>1. ASSUME NEW j \in n + 1..Len(ledger), Subject[ledger[j].id] = Subject[ledger[n].id]
          PROVE  FALSE
      <4>1. j \in i + 1..Len(ledger) /\ n < j /\ j \in Nat
        BY <1>7, <2>1, <2>4
      <4>2. j \in Later
        BY <2>4, <3>1, <4>1
      <4>3. j <= n
        BY <2>3, <4>2
      <4>4. QED
        BY <2>4, <4>1, <4>3
    <3>2. QED
      BY <3>1
  <2>6. n \notin gone
    BY <1>1, <2>5
  <2>7. QED
    BY <2>4, <2>6 DEF K
\* What restates a monitor event is one: its subject is the id of none.
<1>14. ASSUME NEW i \in gone
       PROVE  \E j \in K : IsMonitor(ledger[j])
  <2>1. PICK j \in K : Subject[ledger[j].id] = Subject[ledger[i].id]
    BY <1>13
  <2>2. ledger[i] \in Entries /\ ledger[j] \in Entries
    BY <1>1, <1>2, <1>3, <2>1
  <2>3. ledger[i].id \in Ids /\ ledger[j].id \in Ids
    BY <2>2 DEF Entries
  <2>4. Subject[ledger[i].id] \notin Ids
    BY <1>1, <2>3, LedgerAssumption DEF IsMonitor
  <2>5. QED
    BY <2>1, <2>3, <2>4 DEF IsMonitor
<1>15. QED
  BY <1>1, <1>4, <1>5, <1>8, <1>9, <1>10, <1>12, <1>13, <1>14 DEF gone, kept, K

LEMMA ArchivesLines ==
  ASSUME LedgerType, FilesInv, ~restarted => LinesInv,
         NEW cutoff \in 1..MaxSeq, ArchivePlan(cutoff),
         ledger' = Retained(cutoff), archived' = Archived(cutoff),
         UNCHANGED <<ledgerFile, restarted>>,
         mirror' \in {mirror, Lacking(mirror, EntryIds(ledger) \ EntryIds(Retained(cutoff)))}
  PROVE  /\ mirror' \in Seq(Entries) /\ ledger' \in Seq(Entries)
         /\ archived' \in SUBSET Entries /\ ledgerFile = "there"
         /\ FilesInv' /\ (~restarted' => LinesInv') /\ Log!Retire
         /\ (EntryIds(Standing) \ EntryIds(mirror))' \subseteq EntryIds(Standing) \ EntryIds(mirror)
<1> DEFINE kept == Retained(cutoff)
           gone == Archivable(cutoff)
           m == mirror'
<1>1. /\ ledgerFile = "there" /\ Standing = ledger
      /\ kept \in Seq(Entries) /\ Once(kept) /\ (~restarted => OneOfEach(kept))
      /\ LastSeq(kept) = LastSeq(ledger)
      /\ Lines(kept) = {ledger[i] : i \in DOMAIN ledger \ gone}
      /\ gone = {i \in DOMAIN ledger : ledger[i] \notin Lines(kept)}
      /\ \A i \in gone : \E j \in DOMAIN ledger \ gone :
           i < j /\ Subject[ledger[j].id] = Subject[ledger[i].id]
      /\ \A i \in gone : \E j \in DOMAIN ledger \ gone :
           \/ ledger[i].seq < ledger[j].seq
           \/ restarted /\ ledger[i].seq = ledger[j].seq
      /\ \A i \in gone : IsMonitor(ledger[i])
      /\ \A i \in gone : \E j \in DOMAIN ledger \ gone : IsMonitor(ledger[j])
  BY RetainedIs
<1>2. kept = Picked(ledger, DOMAIN ledger \ gone)
  BY DEF Retained
<1>3. archived' = archived \cup {ledger[i] : i \in gone} /\ gone \subseteq DOMAIN ledger
  BY DEF Archived, Archivable
<1>4. ledger' = kept /\ m \in {mirror, Lacking(mirror, EntryIds(ledger) \ EntryIds(kept))}
  OBVIOUS
<1> HIDE DEF kept, gone, m
<1>5. ledger \in Seq(Entries) /\ mirror \in Seq(Entries) /\ archived \in SUBSET Entries
  BY DEF LedgerType
<1>6. Standing' = kept
  BY <1>1, <1>4, StandingNext
<1>7. Once(mirror) /\ \A e \in archived : IsMonitor(e)
  BY DEF FilesInv
<1>8. ASSUME ~restarted
      PROVE  /\ OneOfEach(mirror) /\ Alike(ledger, mirror)
             /\ \A j \in DOMAIN mirror : /\ mirror[j].seq <= LastSeq(ledger)
                                         /\ mirror[j] \in Lines(ledger) \cup archived
             /\ (\E j \in DOMAIN mirror : IsMonitor(mirror[j]))
                  => \E i \in DOMAIN ledger : IsMonitor(ledger[i])
  BY <1>1, <1>8 DEF LinesInv
<1>9. /\ m \in Seq(Entries) /\ Once(m) /\ Lines(m) \subseteq Lines(mirror)
      /\ OneOfEach(mirror) => OneOfEach(m)
      /\ EntryIds(m) \cap EntryIds(kept) = EntryIds(mirror) \cap EntryIds(kept)
  <2> DEFINE ids == EntryIds(ledger) \ EntryIds(kept)
  <2>1. CASE m = mirror
    BY <1>5, <1>7, <2>1
  <2>2. CASE m = Lacking(mirror, ids)
    <3> HIDE DEF ids
    <3>1. /\ m \in Seq(Entries) /\ Once(m) /\ (OneOfEach(mirror) => OneOfEach(m))
          /\ Lines(m) = {e \in Lines(mirror) : e.id \notin ids}
      BY <1>5, <1>7, <2>2, LackingIs
    <3>2. /\ EntryIds(m) = {e.id : e \in Lines(m)}
          /\ EntryIds(mirror) = {e.id : e \in Lines(mirror)}
      BY EntryIdsAre
    <3>3. ids \cap EntryIds(kept) = {}
      BY DEF ids
    <3>4. QED
      BY <3>1, <3>2, <3>3
  <2>3. QED
    BY <1>4, <2>1, <2>2
<1>10. archived' \in SUBSET Entries
  <2>1. \A i \in DOMAIN ledger : ledger[i] \in Entries
    BY <1>5
  <2>2. QED
    BY <1>3, <1>5, <2>1
<1>11. FilesInv'
  <2>1. \A e \in archived' : IsMonitor(e)
    BY <1>1, <1>3, <1>7
  <2>2. Once(kept) /\ Once(m)
    BY <1>1, <1>9
  <2>3. QED
    BY <1>6, <2>1, <2>2 DEF FilesInv, Once, IsMonitor, m
<1>12. ASSUME ~restarted' PROVE LinesInv'
  <2>0. ~restarted
    BY <1>12
  <2>1. ASSUME NEW e \in Lines(m)
        PROVE  e.seq <= LastSeq(kept) /\ e \in Lines(kept) \cup archived'
    <3>1. e.seq <= LastSeq(ledger) /\ e \in Lines(ledger) \cup archived
      BY <1>8, <1>9, <2>0 DEF Lines
    <3>2. Lines(ledger) \subseteq Lines(kept) \cup {ledger[i] : i \in gone}
      BY <1>1 DEF Lines
    <3>3. QED
      BY <1>1, <1>3, <3>1, <3>2
  <2>2. Alike(kept, m)
    <3>1. ASSUME NEW e \in Lines(kept), NEW d \in Lines(m), e.id = d.id \/ e.seq = d.seq
          PROVE  e = d
      <4>1. PICK i \in DOMAIN ledger : e = ledger[i]
        BY <1>1
      <4>2. PICK j \in DOMAIN mirror : d = mirror[j]
        BY <1>9 DEF Lines
      <4>3. QED
        BY <1>8, <2>0, <3>1, <4>1, <4>2 DEF Alike
    <3>2. /\ \A i \in DOMAIN kept : kept[i] \in Lines(kept)
          /\ \A j \in DOMAIN m : m[j] \in Lines(m)
      BY DEF Lines
    <3>3. QED
      BY <3>1, <3>2 DEF Alike
  <2>3. ASSUME NEW e \in Lines(m), IsMonitor(e)
        PROVE  \E i \in DOMAIN kept : IsMonitor(kept[i])
    <3>1. PICK i \in DOMAIN ledger : IsMonitor(ledger[i])
      BY <1>8, <1>9, <2>0, <2>3 DEF Lines
    <3>2. \E j \in DOMAIN ledger \ gone : IsMonitor(ledger[j])
      BY <1>1, <3>1
    <3>3. \E e2 \in Lines(kept) : IsMonitor(e2)
      BY <1>1, <3>2
    <3>4. QED
      BY <3>3 DEF Lines
  <2>4. \A j \in DOMAIN m : m[j] \in Lines(m)
    BY DEF Lines
  <2>5. OneOfEach(kept) /\ OneOfEach(m)
    BY <1>1, <1>8, <1>9, <2>0
  <2>6. /\ \A i \in DOMAIN m : m[i].seq <= LastSeq(kept) /\ m[i] \in Lines(kept) \cup archived'
        /\ (\E i \in DOMAIN m : IsMonitor(m[i])) => \E i \in DOMAIN kept : IsMonitor(kept[i])
    BY <2>1, <2>3, <2>4
  <2>7. QED
    BY <1>6, <2>2, <2>5, <2>6 DEF LinesInv, OneOfEach, Alike, IsMonitor, m
<1>13. EntryIds(kept) \subseteq EntryIds(ledger)
  <2>1. Lines(kept) \subseteq Lines(ledger)
    BY <1>1 DEF Lines
  <2>2. QED
    BY <2>1, EntryIdsAre
<1>14. EntryIds(Standing)' = EntryIds(kept) /\ EntryIds(mirror)' = EntryIds(m)
  BY <1>6 DEF EntryIds, m
<1>15. Log!Retire
  <2>1. Log!ToSet(Standing') = Lines(kept) /\ Log!IdsOf(Log!ToSet(Standing')) = EntryIds(kept)
        /\ Log!ToSet(ledger) = Lines(ledger)
    BY <1>6, LogSets
  <2>2. Standing' = Log!Without(gone)
    BY <1>1, <1>2, <1>6, LogPicked DEF Log!Without
  <2>3. EntryIds(m) \cap EntryIds(kept)
          = (EntryIds(mirror) \cap EntryIds(ledger)) \cap EntryIds(kept)
    BY <1>9, <1>13
  <2>4. {ledger[i] : i \in gone} \subseteq archived' /\ archived \subseteq archived'
        /\ archived' \subseteq archived \cup Lines(ledger)
    BY <1>3 DEF Lines
  <2> DEFINE left == {i \in DOMAIN Standing : Standing[i] \notin Log!ToSet(Standing')}
  <2>5. left = gone
    BY <1>1, <2>1
  <2> HIDE DEF left
  <2>6. /\ Standing' = Log!Without(left)
        /\ \A i \in left : \E j \in DOMAIN Standing \ left :
             i < j /\ Subject[Standing[j].id] = Subject[Standing[i].id]
        /\ \A i \in left : \E j \in DOMAIN Standing \ left :
             \/ Standing[i].seq < Standing[j].seq
             \/ restarted /\ Standing[i].seq = Standing[j].seq
        /\ {Standing[i] : i \in left} \subseteq archived' /\ archived \subseteq archived'
        /\ archived' \subseteq archived \cup Log!ToSet(Standing)
    BY <1>1, <2>1, <2>2, <2>4, <2>5
  <2>7. (EntryIds(mirror) \cap EntryIds(Standing))' =
          (EntryIds(mirror) \cap EntryIds(Standing)) \cap Log!IdsOf(Log!ToSet(Standing'))
    BY <1>1, <1>14, <2>1, <2>3
  <2>8. QED
    BY <2>6, <2>7 DEF Log!Retire, left
<1>16. QED
  BY <1>1, <1>4, <1>9, <1>10, <1>11, <1>12, <1>13, <1>14, <1>15 DEF m

\* It dies when only the archive is written.
LEMMA ArchiveStarts ==
  ASSUME LedgerType, FilesInv, ~restarted => LinesInv,
         NEW cutoff \in 1..MaxSeq, ArchivePlan(cutoff),
         archived' = Archived(cutoff), UNCHANGED <<ledger, ledgerFile, mirror, restarted>>
  PROVE  /\ archived' \in SUBSET Entries /\ FilesInv' /\ (~restarted' => LinesInv')
         /\ Log!Retire /\ Standing' = Standing
<1> DEFINE old == {ledger[i] : i \in Archivable(cutoff)}
<1>1. Standing = ledger /\ \A e \in old : IsMonitor(e)
  BY RetainedIs
<1>2. archived' = archived \cup old /\ old \subseteq Lines(ledger)
  BY DEF Archived, Archivable, Lines
<1> HIDE DEF old
<1>3. Standing' = Standing
  BY DEF Standing
<1>4. ledger \in Seq(Entries) /\ archived \in SUBSET Entries
  BY DEF LedgerType
<1>5. archived' \in SUBSET Entries
  <2>1. \A i \in DOMAIN ledger : ledger[i] \in Entries
    BY <1>4
  <2>2. QED
    BY <1>2, <1>4, <2>1 DEF Lines
<1>6. FilesInv' /\ (~restarted' => LinesInv')
  <2>1. FilesInv'
    BY <1>1, <1>2, <1>3 DEF FilesInv, Once, IsMonitor
  <2>2. ASSUME LinesInv PROVE LinesInv'
    BY <1>2, <1>3, <2>2 DEF LinesInv, OneOfEach, Alike, IsMonitor
  <2>3. QED
    BY <2>1, <2>2
<1>7. Log!Retire
  <2>1. /\ Log!ToSet(ledger) = Lines(ledger)
        /\ Log!IdsOf(Log!ToSet(ledger)) = EntryIds(ledger)
    BY LogSets
  <2>2. {i \in DOMAIN ledger : ledger[i] \notin Lines(ledger)} = {}
    BY DEF Lines
  <2>3. ledger = Log!Without({})
    <3>1. Picked(ledger, DOMAIN ledger) = ledger
      BY <1>4, PickedAll
    <3>2. Log!Picked(ledger, DOMAIN ledger) = Picked(ledger, DOMAIN ledger)
      BY LogPicked
    <3>3. DOMAIN ledger \ {} = DOMAIN ledger
      OBVIOUS
    <3>4. QED
      BY <1>1, <3>1, <3>2, <3>3 DEF Log!Without
  <2>4. /\ EntryIds(mirror)' = EntryIds(mirror) /\ EntryIds(Standing)' = EntryIds(ledger)
        /\ EntryIds(Standing) = EntryIds(ledger)
    BY <1>1, <1>3 DEF EntryIds
  <2> DEFINE gone == {i \in DOMAIN Standing : Standing[i] \notin Log!ToSet(Standing')}
  <2>5. gone = {}
    BY <1>1, <1>3, <2>1, <2>2
  <2>6. Standing' = Log!Without(gone)
    BY <1>1, <1>3, <2>3, <2>5
  <2> HIDE DEF gone
  <2>7. /\ {Standing[i] : i \in gone} \subseteq archived' /\ archived \subseteq archived'
        /\ archived' \subseteq archived \cup Log!ToSet(Standing)
    BY <1>1, <1>2, <2>1, <2>5
  <2>8. (EntryIds(mirror) \cap EntryIds(Standing))' =
          (EntryIds(mirror) \cap EntryIds(Standing)) \cap Log!IdsOf(Log!ToSet(Standing'))
    BY <1>1, <1>3, <2>1, <2>4
  <2>9. QED
    BY <2>5, <2>6, <2>7, <2>8 DEF Log!Retire, gone
<1>8. QED
  BY <1>3, <1>5, <1>6, <1>7
-----------------------------------------------------------------------------
(* What an append writes *)

LEMMA IndexIs ==
  ASSUME LedgerInv, NEW p \in Procs
  PROVE  AppendIndex(p) = IndexOf(Found)
<1>1. ~Restoring => Found = ledger
  BY DEF Found
<1>2. QED
  BY <1>1 DEF AppendIndex, LedgerInv, CacheIsCoherent

LEMMA AppendableIs ==
  ASSUME LedgerInv, NEW p \in Procs, NEW batch \in Offers, Fits(Appendable(p, batch))
  PROVE  Appendable(p, batch) \in Seq(Entries) /\ NewLines(Appendable(p, batch))
<1> DEFINE I == {i \in DOMAIN batch : /\ batch[i].id \notin EntryIds(Found)
                                      /\ \A j \in 1..i - 1 : batch[j].id # batch[i].id}
           n == Cardinality(I)
           f == Ascending(I)
           new == Appendable(p, batch)
           last == LastSeq(Found)
<1>1. /\ batch \in Seq(Events)
      /\ \A i \in DOMAIN batch : \A e \in archived :
           IsMonitor(batch[i]) /\ batch[i].id = e.id => \A j \in DOMAIN Found : ~IsMonitor(Found[j])
  BY LedgerAssumption DEF Offers, Offered
<1>2. \A i \in DOMAIN batch : batch[i] \in Events /\ i \in Int
  BY <1>1
<1>3. IsFiniteSet(I) /\ I \in SUBSET Nat /\ I \subseteq DOMAIN batch
  BY <1>1, PlacesFinite
<1>4. /\ n \in Nat /\ f \in [1..n -> I]
      /\ \A k, l \in 1..n : k < l => f[k] < f[l]
  <2> HIDE DEF I
  <2>1. QED
    BY <1>3, AscendingIs
<1>5. new = [k \in DOMAIN f |-> [id   |-> batch[f[k]].id, fact |-> batch[f[k]].fact,
                                 seq  |-> last + k]]
  <2> DEFINE index == AppendIndex(p)
  <2>1. index.ids = EntryIds(Found) /\ index.last = last
    BY IndexIs DEF IndexOf
  <2>2. I = {i \in DOMAIN batch : /\ batch[i].id \notin index.ids
                                  /\ \A j \in 1..i - 1 : batch[j].id # batch[i].id}
    BY <2>1
  <2> HIDE DEF I, last
  <2>3. QED
    BY <2>1, <2>2 DEF Appendable
<1>6. \A k \in 1..n : /\ f[k] \in DOMAIN batch /\ batch[f[k]].id \notin EntryIds(Found)
                      /\ \A j \in 1..f[k] - 1 : batch[j].id # batch[f[k]].id
  BY <1>4
<1>7. last \in Nat /\ \A e \in archived : IsMonitor(e)
  BY FoundIs, LastSeqIs DEF LedgerInv, FilesInv
<1>8. \A i \in DOMAIN new : new[i].seq <= MaxSeq
  BY DEF Fits
<1> HIDE DEF I, n, f, new, last
<1>9. DOMAIN new = 1..n /\ \A k \in 1..n : new[k] = [id   |-> batch[f[k]].id,
                                                      fact |-> batch[f[k]].fact,
                                                      seq  |-> last + k]
  BY <1>4, <1>5
<1>10. ASSUME NEW k \in 1..n
       PROVE  /\ new[k] \in Entries /\ new[k].id \notin EntryIds(Found)
              /\ new[k].seq > last /\ new[k].seq = last + k
  <2>1. f[k] \in DOMAIN batch /\ batch[f[k]] \in Events /\ new[k].id = batch[f[k]].id
        /\ new[k].fact = batch[f[k]].fact /\ new[k].seq = last + k
    BY <1>2, <1>6, <1>9
  <2>2. new[k].seq \in 1..MaxSeq /\ new[k].seq > last
    BY <1>4, <1>7, <1>8, <1>9, <2>1, LedgerAssumption
  <2>3. new[k] \in Entries
    BY <1>9, <2>1, <2>2 DEF Entries, Ids
  <2>4. QED
    BY <1>6, <2>1, <2>2, <2>3
<1>11. ASSUME NEW k \in 1..n, NEW l \in 1..n, k < l
       PROVE  new[k].id # new[l].id /\ new[k].seq < new[l].seq
  <2>1. f[k] < f[l] /\ f[k] \in DOMAIN batch /\ f[l] \in DOMAIN batch
    BY <1>4, <1>6, <1>11
  <2>2. f[k] \in 1..f[l] - 1
    BY <1>1, <2>1
  <2>3. batch[f[k]].id # batch[f[l]].id
    BY <1>6, <2>2
  <2>4. k \in Int /\ l \in Int
    BY <1>4
  <2>5. QED
    BY <1>7, <1>9, <1>11, <2>3, <2>4
<1>12. new \in Seq(Entries)
  <2>1. new = [k \in 1..n |-> new[k]]
    BY <1>4, <1>5, <1>9
  <2>2. QED
    BY <1>4, <1>10, <2>1
\* What the mirror alone has is archived: it is not offered while a monitor
\* event is found, and one is if the mirror has one.
<1>13. ASSUME ~restarted, Found = Standing, NEW k \in 1..n
       PROVE  new[k].id \notin EntryIds(mirror)
  <2>1. SUFFICES ASSUME NEW j \in DOMAIN mirror, mirror[j].id = new[k].id PROVE FALSE
    BY DEF EntryIds
  <2>2. /\ mirror[j] \in Lines(Found) \cup archived
        /\ IsMonitor(mirror[j]) => \E i \in DOMAIN Found : IsMonitor(Found[i])
    BY <1>13 DEF LedgerInv, LinesInv
  <2>3. mirror[j] \notin Lines(Found)
    BY <1>10, <2>1, EntryIdsAre
  <2>4. mirror[j] \in archived /\ IsMonitor(mirror[j])
    BY <1>7, <2>2, <2>3
  <2>5. f[k] \in DOMAIN batch /\ batch[f[k]].id = mirror[j].id
    BY <1>6, <1>9, <2>1
  <2>6. IsMonitor(batch[f[k]])
    BY <2>4, <2>5 DEF IsMonitor
  <2>7. QED
    BY <1>1, <2>2, <2>4, <2>5, <2>6
<1>14. QED
  BY <1>9, <1>10, <1>11, <1>12, <1>13 DEF NewLines, new, last

\* The first lines of what may follow may follow, too.
LEMMA NewLinesPrefix ==
  ASSUME NEW new \in Seq(Entries), NewLines(new), NEW n \in 0..Len(new)
  PROVE  SubSeq(new, 1, n) \in Seq(Entries) /\ NewLines(SubSeq(new, 1, n))
<1>1. /\ SubSeq(new, 1, n) \in Seq(Entries) /\ DOMAIN SubSeq(new, 1, n) = 1..n
      /\ \A k \in 1..n : SubSeq(new, 1, n)[k] = new[k] /\ k \in DOMAIN new
  OBVIOUS
<1>2. QED
  BY <1>1 DEF NewLines

\* The last of the new lines has the newest number.
LEMMA NewLast ==
  ASSUME LedgerType, NEW new \in Seq(Entries), NewLines(new), new # <<>>
  PROVE  LastSeq(Found \o new) = new[Len(new)].seq
<1> DEFINE f == Found
           g == f \o new
           i == Len(f) + Len(new)
<1>1. f \in Seq(Entries)
  BY FoundIs
<1>2. /\ \A k \in DOMAIN new : new[k].seq > LastSeq(f)
      /\ \A k, l \in DOMAIN new : k < l => new[k].seq < new[l].seq
  BY DEF NewLines
<1> HIDE DEF f
<1>3. /\ g \in Seq(Entries) /\ i \in DOMAIN g /\ g[i] = new[Len(new)] /\ Len(new) \in DOMAIN new
      /\ \A j \in DOMAIN f : g[j] = f[j]
      /\ \A j \in DOMAIN g \ DOMAIN f : j - Len(f) \in DOMAIN new /\ g[j] = new[j - Len(f)]
  BY <1>1, ConcatIs
<1> HIDE DEF g, i
<1>4. \A k \in DOMAIN new : new[k].seq \in Nat /\ new[k].seq <= new[Len(new)].seq
  <2>1. ASSUME NEW k \in DOMAIN new
        PROVE  new[k].seq \in Nat /\ new[k].seq <= new[Len(new)].seq
    <3>1. new[k].seq \in Nat /\ new[Len(new)].seq \in Nat
      BY <1>3, LastSeqIs
    <3>2. k = Len(new) \/ k < Len(new)
      OBVIOUS
    <3>3. QED
      BY <1>2, <1>3, <3>1, <3>2
  <2>2. QED
    BY <2>1
<1>5. ASSUME NEW j \in DOMAIN g PROVE g[j].seq <= g[i].seq
  <2>1. CASE j \in DOMAIN f
    <3>1. g[j] = f[j] /\ f[j].seq <= LastSeq(f) /\ f[j].seq \in Nat /\ LastSeq(f) \in Nat
      BY <1>1, <1>3, <2>1, LastSeqIs
    <3>2. LastSeq(f) < g[i].seq /\ g[i].seq \in Nat
      BY <1>2, <1>3, <1>4
    <3>3. QED
      BY <3>1, <3>2
  <2>2. CASE j \notin DOMAIN f
    BY <1>3, <1>4, <2>2
  <2>3. QED
    BY <2>1, <2>2
<1>6. LastSeq(g) = g[i].seq
  BY <1>3, <1>5, LastSeqUnique
<1>7. QED
  BY <1>3, <1>6 DEF f, g

\* What an append copies: its own lines, or all that the mirror lacks.
LEMMA MissingIs ==
  ASSUME LedgerInv, NEW p \in Procs, NEW new \in Seq(Entries), NewLines(new)
  PROVE  LET missing == Missing(p, new)
         IN  /\ missing \in Seq(Entries) /\ NewCopies(new, missing)
             /\ EntryIds(new) \subseteq EntryIds(mirror) \cup EntryIds(missing)
             /\ ~cache[p].mirror.fresh =>
                  EntryIds(Found) \subseteq EntryIds(mirror) \cup EntryIds(missing)
<1>1. Found \in Seq(Entries) /\ LedgerType /\ Once(Found)
  BY FoundIs, FoundOnce DEF LedgerInv
<1>2. Once(new)
  BY <1>1, NewLinesOnce
<1>3. Once(Found \o new)
  <2>1. \A i \in DOMAIN Found, k \in DOMAIN new : Found[i].id # new[k].id
    BY DEF NewLines, EntryIds
  <2>2. QED
    BY <1>1, <1>2, <2>1, ConcatOnce
<1>4. CASE cache[p].mirror.fresh
  <2>1. Missing(p, new) = Lacking(new, EntryIds(mirror))
    BY <1>4 DEF Missing, LedgerInv, CacheIsCoherent
  <2>2. /\ Missing(p, new) \in Seq(Entries) /\ Once(Missing(p, new))
        /\ Lines(Missing(p, new)) = {e \in Lines(new) : e.id \notin EntryIds(mirror)}
    BY <1>2, <2>1, LackingIs
  <2>3. NewCopies(new, Missing(p, new))
    BY <2>2 DEF NewCopies, Lines
  <2>4. EntryIds(new) \subseteq EntryIds(mirror) \cup EntryIds(Missing(p, new))
    BY <2>2, EntryIdsAre
  <2>5. QED
    BY <1>4, <2>2, <2>3, <2>4
<1>5. CASE ~cache[p].mirror.fresh
  <2>1. Missing(p, new) = Lacking(Found \o new, EntryIds(mirror))
    BY <1>5 DEF Missing
  <2>2. Found \o new \in Seq(Entries) /\ Lines(Found \o new) = Lines(Found) \cup Lines(new)
    BY <1>1, ConcatIs, ConcatLines
  <2>3. /\ Missing(p, new) \in Seq(Entries) /\ Once(Missing(p, new))
        /\ Lines(Missing(p, new)) = {e \in Lines(Found) \cup Lines(new) : e.id \notin EntryIds(mirror)}
    <3> DEFINE g == Found \o new
    <3>1. g \in Seq(Entries) /\ Once(g) /\ Missing(p, new) = Lacking(g, EntryIds(mirror))
          /\ Lines(g) = Lines(Found) \cup Lines(new)
      BY <1>3, <2>1, <2>2
    <3> HIDE DEF g
    <3>2. QED
      BY <3>1, LackingIs
  <2>4. NewCopies(new, Missing(p, new))
    BY <2>3 DEF NewCopies, Lines
  <2>5. EntryIds(new) \cup EntryIds(Found) \subseteq EntryIds(mirror) \cup EntryIds(Missing(p, new))
    BY <2>3, EntryIdsAre
  <2>6. QED
    BY <2>3, <2>4, <2>5
<1>6. QED
  BY <1>4, <1>5

LEMMA CopiesPrefix ==
  ASSUME NEW new, NEW copied \in Seq(Entries), NewCopies(new, copied), NEW n \in 0..Len(copied)
  PROVE  SubSeq(copied, 1, n) \in Seq(Entries) /\ NewCopies(new, SubSeq(copied, 1, n))
<1>1. /\ SubSeq(copied, 1, n) \in Seq(Entries) /\ DOMAIN SubSeq(copied, 1, n) = 1..n
      /\ \A k \in 1..n : SubSeq(copied, 1, n)[k] = copied[k] /\ k \in DOMAIN copied
  OBVIOUS
<1>2. QED
  BY <1>1 DEF NewCopies, Once
-----------------------------------------------------------------------------
(* The caches *)

Caches == [Procs -> [ledger : Index, mirror : Index]]

\* The caches c say what the files f and m hold, where they are recognised.
Knows(c, f, m) ==
  \A p \in Procs : /\ c[p].ledger.fresh => c[p].ledger = IndexOf(f)
                   /\ c[p].mirror.fresh => c[p].mirror.ids = EntryIds(m)

\* No process recognises the mirror after d that did not after c.
MirrorNotNew(c, d) == \A q \in Procs : d[q].mirror.fresh => c[q].mirror.fresh

LEMMA CoherentIs ==
  /\ CacheIsCoherent <=> Knows(cache, ledger, mirror)
  /\ CacheIsCoherent' <=> Knows(cache', ledger', mirror')
  BY DEF CacheIsCoherent, Knows, IndexOf, EntryIds, LastSeq

LEMMA IndexType ==
  /\ NoIndex \in Index /\ ~NoIndex.fresh
  /\ NoCache \in [ledger : Index, mirror : Index]
  /\ NoCache.ledger = NoIndex /\ NoCache.mirror = NoIndex
  /\ \A file \in Seq(Entries) : EntryIds(file) \in SUBSET Ids /\ IndexOf(file) \in Index
<1>1. NoIndex \in Index /\ ~NoIndex.fresh
  BY DEF NoIndex, Index
<1>2. ASSUME NEW file \in Seq(Entries)
      PROVE  EntryIds(file) \in SUBSET Ids /\ IndexOf(file) \in Index
  <2>1. \A i \in DOMAIN file : file[i] \in Entries
    OBVIOUS
  <2>2. EntryIds(file) \in SUBSET Ids
    BY <2>1 DEF EntryIds, Entries
  <2>3. LastSeq(file) \in Nat
    BY LastSeqIs
  <2>4. QED
    BY <2>2, <2>3 DEF IndexOf, Index
<1>3. QED
  BY <1>1, <1>2 DEF NoCache

\* What becomes of the indexes of each process.
LEMMA ForgetParts ==
  ASSUME NEW c \in Caches, NEW file \in {"ledger", "mirror"}
  PROVE  /\ Replaced(c, file) \in Caches
         /\ \A q \in Procs : /\ Replaced(c, file)[q][file] = NoIndex
                            /\ \A other \in {"ledger", "mirror"} \ {file} :
                                 Replaced(c, file)[q][other] = c[q][other]
         /\ \A p \in Procs :
              /\ Outdated(c, p, file) \in Caches
              /\ \A q \in Procs :
                   /\ Outdated(c, p, file)[q][file] = IF q = p THEN c[q][file] ELSE NoIndex
                   /\ \A other \in {"ledger", "mirror"} \ {file} :
                        Outdated(c, p, file)[q][other] = c[q][other]
<1> DEFINE Pair == [ledger : Index, mirror : Index]
           gone(r) == [r EXCEPT ![file] = NoIndex]
<1>1. NoIndex \in Index
  BY IndexType
<1>2. ASSUME NEW r \in Pair
      PROVE  /\ gone(r) \in Pair /\ gone(r)[file] = NoIndex
             /\ \A other \in {"ledger", "mirror"} \ {file} : gone(r)[other] = r[other]
  <2>1. CASE file = "ledger"
    BY <1>1, <2>1
  <2>2. CASE file = "mirror"
    BY <1>1, <2>2
  <2>3. QED
    BY <2>1, <2>2
<1> HIDE DEF Pair, gone
<1>3. c \in [Procs -> Pair]
  BY DEF Caches, Pair
<1>4. Replaced(c, file) = [q \in Procs |-> gone(c[q])]
  BY DEF Replaced, gone
<1>5. ASSUME NEW p \in Procs
      PROVE  /\ Outdated(c, p, file) \in [Procs -> Pair]
             /\ \A q \in Procs :
                  /\ Outdated(c, p, file)[q][file] = IF q = p THEN c[q][file] ELSE NoIndex
                  /\ \A other \in {"ledger", "mirror"} \ {file} :
                       Outdated(c, p, file)[q][other] = c[q][other]
  <2>1. Outdated(c, p, file) = [q \in Procs |-> IF q = p THEN c[q] ELSE gone(c[q])]
    BY DEF Outdated, gone
  <2>2. QED
    BY <1>2, <1>3, <2>1
<1>6. QED
  BY <1>2, <1>3, <1>4, <1>5 DEF Caches, Pair

LEMMA RememberParts ==
  ASSUME NEW c \in Caches, NEW p \in Procs, NEW x \in Index
  PROVE  /\ [c EXCEPT ![p].ledger = x] \in Caches /\ [c EXCEPT ![p].mirror = x] \in Caches
         /\ [c EXCEPT ![p] = NoCache] \in Caches
         /\ \A q \in Procs :
              /\ [c EXCEPT ![p].ledger = x][q].ledger = IF q = p THEN x ELSE c[q].ledger
              /\ [c EXCEPT ![p].ledger = x][q].mirror = c[q].mirror
              /\ [c EXCEPT ![p].mirror = x][q].mirror = IF q = p THEN x ELSE c[q].mirror
              /\ [c EXCEPT ![p].mirror = x][q].ledger = c[q].ledger
              /\ [c EXCEPT ![p] = NoCache][q] = IF q = p THEN NoCache ELSE c[q]
<1>1. NoCache \in [ledger : Index, mirror : Index]
  BY IndexType
<1>2. c \in [Procs -> [ledger : Index, mirror : Index]]
  BY DEF Caches
<1> HIDE DEF Index
<1>3. [c EXCEPT ![p].ledger = x] \in Caches /\ [c EXCEPT ![p].mirror = x] \in Caches
  BY <1>2 DEF Caches
<1>4. [c EXCEPT ![p] = NoCache] \in Caches
  BY <1>1, <1>2 DEF Caches
<1>5. ASSUME NEW q \in Procs
      PROVE  /\ [c EXCEPT ![p].ledger = x][q].ledger = IF q = p THEN x ELSE c[q].ledger
             /\ [c EXCEPT ![p].ledger = x][q].mirror = c[q].mirror
             /\ [c EXCEPT ![p].mirror = x][q].mirror = IF q = p THEN x ELSE c[q].mirror
             /\ [c EXCEPT ![p].mirror = x][q].ledger = c[q].ledger
             /\ [c EXCEPT ![p] = NoCache][q] = IF q = p THEN NoCache ELSE c[q]
  BY <1>2
<1>6. QED
  BY <1>3, <1>4, <1>5

\* After the restore, if there was one, the caches know what is there.
LEMMA AfterRestoreIs ==
  ASSUME LedgerInv
  PROVE  /\ AfterRestore \in Caches /\ Knows(AfterRestore, Found, mirror)
         /\ \A q \in Procs : AfterRestore[q].mirror = cache[q].mirror
<1>1. cache \in Caches /\ Knows(cache, ledger, mirror)
  BY CoherentIs DEF LedgerInv, LedgerType, Caches
<1>2. CASE Restoring
  <2>1. AfterRestore = Replaced(cache, "ledger")
    BY <1>2 DEF AfterRestore
  <2>2. /\ Replaced(cache, "ledger") \in Caches
        /\ \A q \in Procs : /\ Replaced(cache, "ledger")[q].ledger = NoIndex
                           /\ Replaced(cache, "ledger")[q].mirror = cache[q].mirror
    BY <1>1, ForgetParts
  <2>3. Knows(AfterRestore, Found, mirror)
    BY <1>1, <2>1, <2>2, IndexType DEF Knows
  <2>4. QED
    BY <2>1, <2>2, <2>3
<1>3. CASE ~Restoring
  BY <1>1, <1>3 DEF AfterRestore, Found
<1>4. QED
  BY <1>2, <1>3

LEMMA SameIndex ==
  ASSUME NEW x \in Index, NEW y \in Index,
         x.ids = y.ids, x.last = y.last, x.fresh = y.fresh
  PROVE  x = y
  BY DEF Index

\* What an append remembers is what it has written.
LEMMA CommittedIs ==
  ASSUME LedgerInv, NEW p \in Procs, NEW new \in Seq(Entries), NewLines(new), new # <<>>
  PROVE  /\ Committed(p, new) \in Caches /\ Knows(Committed(p, new), Found \o new, mirror)
         /\ \A q \in Procs : Committed(p, new)[q].mirror = cache[q].mirror
<1> DEFINE index == AppendIndex(p)
           x == [index EXCEPT !.ids = @ \cup EntryIds(new), !.last = new[Len(new)].seq]
           a == AfterRestore
           c == Outdated(a, p, "ledger")
           d == [c EXCEPT ![p].ledger = x]
           g == Found \o new
<1>1. Found \in Seq(Entries) /\ LedgerType
  BY FoundIs DEF LedgerInv
<1>2. g \in Seq(Entries) /\ EntryIds(g) = EntryIds(Found) \cup EntryIds(new)
  BY <1>1, ConcatIs, ConcatLines
<1>3. IndexOf(g) \in Index /\ IndexOf(g).ids = EntryIds(g)
      /\ IndexOf(g).last = LastSeq(g) /\ IndexOf(g).fresh = TRUE
  <2> HIDE DEF g
  <2>1. QED
    BY <1>2, IndexType DEF IndexOf
<1>4. LastSeq(g) = new[Len(new)].seq
  BY <1>1, NewLast
<1>5. index \in Index /\ index.ids = EntryIds(Found) /\ index.fresh = TRUE
  <2>1. index = IndexOf(Found)
    BY IndexIs
  <2> HIDE DEF index
  <2>2. QED
    BY <1>1, <2>1, IndexType DEF IndexOf
<1> HIDE DEF index, g
<1>6. x = IndexOf(g)
  <2>1. LastSeq(g) \in Nat /\ EntryIds(g) \in SUBSET Ids
    BY <1>2, LastSeqIs, IndexType
  <2>2. x \in Index /\ x.ids = EntryIds(g) /\ x.last = LastSeq(g) /\ x.fresh = TRUE
    BY <1>2, <1>4, <1>5, <2>1 DEF Index
  <2> HIDE DEF x
  <2>3. QED
    BY <1>3, <2>2, SameIndex
<1>7. Committed(p, new) = d
  BY DEF Committed, index
<1>8. /\ a \in Caches /\ Knows(a, Found, mirror)
      /\ \A q \in Procs : a[q].mirror = cache[q].mirror
  BY AfterRestoreIs
<1> HIDE DEF x, a
<1>9. /\ c \in Caches
      /\ \A q \in Procs : /\ c[q].ledger = IF q = p THEN a[q].ledger ELSE NoIndex
                          /\ c[q].mirror = a[q].mirror
  <2>1. c \in Caches
    BY <1>8, ForgetParts
  <2>2. a \in [Procs -> [ledger : Index, mirror : Index]]
    BY <1>8 DEF Caches
  <2>3. ASSUME NEW q \in Procs
        PROVE  /\ c[q].ledger = IF q = p THEN a[q].ledger ELSE NoIndex
               /\ c[q].mirror = a[q].mirror
    BY <2>2 DEF Outdated
  <2>4. QED
    BY <2>1, <2>3
<1> HIDE DEF c
<1>10. /\ d \in Caches
       /\ \A q \in Procs : /\ d[q].ledger = IF q = p THEN x ELSE c[q].ledger
                           /\ d[q].mirror = c[q].mirror
  <2>1. x \in Index
    BY <1>3, <1>6
  <2>2. [c EXCEPT ![p].ledger = x] \in Caches
    BY <1>9, <2>1, RememberParts
  <2>3. c \in [Procs -> [ledger : Index, mirror : Index]]
    BY <1>9 DEF Caches
  <2>4. ASSUME NEW q \in Procs
        PROVE  d[q].ledger = (IF q = p THEN x ELSE c[q].ledger) /\ d[q].mirror = c[q].mirror
    BY <2>3
  <2>5. QED
    BY <2>2, <2>4
<1> HIDE DEF d
<1>11. Knows(d, g, mirror)
  BY <1>6, <1>8, <1>9, <1>10, IndexType DEF Knows
<1>12. \A q \in Procs : d[q].mirror = cache[q].mirror
  BY <1>8, <1>9, <1>10
<1>13. QED
  BY <1>7, <1>10, <1>11, <1>12 DEF g

\* A process that forgets, or whose file was replaced, knows nothing wrong.
LEMMA ForgetsKnows ==
  ASSUME NEW c \in Caches, NEW f, NEW m, Knows(c, f, m)
  PROVE  /\ \A p \in Procs : /\ [c EXCEPT ![p] = NoCache] \in Caches
                             /\ Knows([c EXCEPT ![p] = NoCache], f, m)
                             /\ MirrorNotNew(c, [c EXCEPT ![p] = NoCache])
         /\ \A g : /\ Replaced(c, "ledger") \in Caches
                   /\ Knows(Replaced(c, "ledger"), g, m)
                   /\ MirrorNotNew(c, Replaced(c, "ledger"))
         /\ \A n : /\ Replaced(c, "mirror") \in Caches
                   /\ Knows(Replaced(c, "mirror"), f, n)
                   /\ MirrorNotNew(c, Replaced(c, "mirror"))
<1>1. c \in [Procs -> [ledger : Index, mirror : Index]]
  BY DEF Caches
<1>2. ASSUME NEW p \in Procs
      PROVE  /\ [c EXCEPT ![p] = NoCache] \in Caches
             /\ Knows([c EXCEPT ![p] = NoCache], f, m)
             /\ MirrorNotNew(c, [c EXCEPT ![p] = NoCache])
  <2> DEFINE d == [c EXCEPT ![p] = NoCache]
  <2>1. d \in Caches
    BY <1>1, IndexType DEF Caches
  <2>2. \A q \in Procs : d[q] = IF q = p THEN NoCache ELSE c[q]
    BY <1>1
  <2> HIDE DEF d
  <2>3. Knows(d, f, m) /\ MirrorNotNew(c, d)
    BY <2>2, IndexType DEF Knows, MirrorNotNew
  <2>4. QED
    BY <2>1, <2>3 DEF d
<1>3. ASSUME NEW g
      PROVE  /\ Replaced(c, "ledger") \in Caches
             /\ Knows(Replaced(c, "ledger"), g, m)
             /\ MirrorNotNew(c, Replaced(c, "ledger"))
  <2>1. /\ Replaced(c, "ledger") \in Caches
        /\ \A q \in Procs : /\ Replaced(c, "ledger")[q].ledger = NoIndex
                            /\ Replaced(c, "ledger")[q].mirror = c[q].mirror
    BY ForgetParts
  <2>2. QED
    BY <2>1, IndexType DEF Knows, MirrorNotNew
<1>4. ASSUME NEW n
      PROVE  /\ Replaced(c, "mirror") \in Caches
             /\ Knows(Replaced(c, "mirror"), f, n)
             /\ MirrorNotNew(c, Replaced(c, "mirror"))
  <2>1. /\ Replaced(c, "mirror") \in Caches
        /\ \A q \in Procs : /\ Replaced(c, "mirror")[q].mirror = NoIndex
                            /\ Replaced(c, "mirror")[q].ledger = c[q].ledger
    BY ForgetParts
  <2>2. QED
    BY <2>1, IndexType DEF Knows, MirrorNotNew
<1>5. QED
  BY <1>2, <1>3, <1>4

\* The caches once p has completed the mirror, and remembers x of it.
Remembered(c, p, copied, x) ==
  [(IF copied = <<>> THEN c ELSE Outdated(c, p, "mirror")) EXCEPT ![p].mirror = x]

\* Who has completed the mirror knows what it holds; others only if nothing
\* was written.
LEMMA RemembersMirror ==
  ASSUME NEW c \in Caches, NEW f, NEW m \in Seq(Entries), Knows(c, f, m),
         NEW p \in Procs, NEW copied \in Seq(Entries),
         NEW x \in Index, x.ids = EntryIds(m) \cup EntryIds(copied),
         NEW d, d = Remembered(c, p, copied, x)
  PROVE  /\ d \in Caches /\ Knows(d, f, m \o copied)
         /\ \A q \in Procs \ {p} : d[q].mirror.fresh => c[q].mirror.fresh
<1> DEFINE b == IF copied = <<>> THEN c ELSE Outdated(c, p, "mirror")
<1>1. EntryIds(m \o copied) = EntryIds(m) \cup EntryIds(copied)
  BY ConcatLines
<1>2. copied = <<>> => EntryIds(copied) = {}
  BY DEF EntryIds
<1>3. /\ b \in Caches
      /\ \A q \in Procs : /\ b[q].ledger = c[q].ledger
                          /\ q # p => \/ copied = <<>> /\ b[q].mirror = c[q].mirror
                                      \/ b[q].mirror = NoIndex
  <2>1. CASE copied = <<>>
    BY <2>1
  <2>2. CASE copied # <<>>
    <3>1. b = Outdated(c, p, "mirror")
      BY <2>2
    <3>2. Outdated(c, p, "mirror") \in Caches
      BY ForgetParts
    <3>3. c \in [Procs -> [ledger : Index, mirror : Index]]
      BY DEF Caches
    <3>4. ASSUME NEW q \in Procs
          PROVE  /\ Outdated(c, p, "mirror")[q].ledger = c[q].ledger
                 /\ q # p => Outdated(c, p, "mirror")[q].mirror = NoIndex
      BY <3>3 DEF Outdated
    <3> HIDE DEF b
    <3>5. QED
      BY <3>1, <3>2, <3>4
  <2>3. QED
    BY <2>1, <2>2
<1> HIDE DEF b
<1>4. d = [b EXCEPT ![p].mirror = x]
  BY DEF b, Remembered
<1>5. b \in [Procs -> [ledger : Index, mirror : Index]]
  BY <1>3 DEF Caches
<1>6. d \in Caches
  <2> HIDE DEF Index
  <2>1. QED
    BY <1>4, <1>5 DEF Caches
<1>7. ASSUME NEW q \in Procs
      PROVE  d[q].ledger = b[q].ledger /\ d[q].mirror = IF q = p THEN x ELSE b[q].mirror
  BY <1>4, <1>5
<1>8. ASSUME NEW q \in Procs PROVE d[q].ledger = c[q].ledger
  BY <1>3, <1>7
<1>9. ASSUME NEW q \in Procs \ {p}
      PROVE  \/ copied = <<>> /\ d[q].mirror = c[q].mirror
             \/ d[q].mirror = NoIndex
  BY <1>3, <1>7
<1>10. d[p].mirror = x
  BY <1>7
<1>11. ASSUME NEW q \in Procs, d[q].mirror.fresh
       PROVE  d[q].mirror.ids = EntryIds(m \o copied)
  <2>1. CASE q = p
    BY <1>1, <1>10, <2>1
  <2>2. CASE q # p
    <3>1. copied = <<>> /\ d[q].mirror = c[q].mirror
      BY <1>9, <1>11, <2>2, IndexType
    <3>2. QED
      BY <1>1, <1>2, <1>11, <3>1 DEF Knows
  <2>3. QED
    BY <2>1, <2>2
<1>12. Knows(d, f, m \o copied)
  BY <1>8, <1>11 DEF Knows
<1>13. \A q \in Procs \ {p} : d[q].mirror.fresh => c[q].mirror.fresh
  BY <1>9, IndexType
<1>14. QED
  BY <1>6, <1>12, <1>13
-----------------------------------------------------------------------------
(* Two kinds of step that keep the invariant *)

\* A step that at most restores the ledger and changes what is remembered.
LEMMA Stays ==
  ASSUME LedgerInv, Standing' = Standing,
         ledger' \in Seq(Entries), ledgerFile' \in {"there", "missing", "stuck"},
         ledgerFile' # "there" => ledger' = NoFile,
         UNCHANGED <<mirror, archived, unmirrored, restarted>>,
         cache' \in Caches, Knows(cache', ledger', mirror)
  PROVE  LedgerInv' /\ UNCHANGED Log!logVars
<1>1. FilesInv' /\ (~restarted' => LinesInv')
  BY LinesStay DEF LedgerInv
<1>2. LedgerType'
  BY DEF LedgerInv, LedgerType, Caches, Index, Entries, Ids, NoFile
<1>3. CacheIsCoherent'
  BY CoherentIs
<1>4. GapsAreExplained'
  BY DEF LedgerInv, GapsAreExplained, EntryIds
<1>5. QED
  BY <1>1, <1>2, <1>3, <1>4, StayIsStutter DEF LedgerInv

\* A step that writes new lines to the ledger, and some to the mirror.
LEMMA Writes ==
  ASSUME LedgerInv, NEW more \in Seq(Entries), NewLines(more),
         NEW copied \in Seq(Entries), NewCopies(more, copied),
         Write(more), mirror' = mirror \o copied, archived' = archived,
         unmirrored \subseteq unmirrored',
         EntryIds(more) \subseteq EntryIds(mirror) \cup EntryIds(copied) \cup unmirrored',
         cache' \in Caches, Knows(cache', ledger', mirror')
  PROVE  LedgerInv' /\ (Log!Record \/ Log!Restart) /\ Standing' = Found \o more
<1>1. /\ LedgerType /\ FilesInv /\ (~restarted => LinesInv)
      /\ GapsAreExplained
  BY DEF LedgerInv
<1>2. /\ ledger' = Found \o more /\ ledgerFile' = "there"
      /\ restarted' = (restarted \/ Found # Standing)
  BY DEF Write
<1>3. Standing' = Found \o more /\ FilesInv'
  BY <1>1, GrowsOnce
<1>4. ~restarted' => LinesInv'
  BY <1>1, <1>2, Grows
<1>5. Found \in Seq(Entries) /\ mirror \in Seq(Entries) /\ EntryIds(Found) \subseteq EntryIds(Standing)
  <2>1. Found = Standing \/ Found = <<>>
    BY <1>1, FoundIs
  <2>2. QED
    BY <1>1, <2>1, FoundIs DEF LedgerType, EntryIds
<1>6. /\ EntryIds(Standing') = EntryIds(Found) \cup EntryIds(more)
      /\ EntryIds(mirror') = EntryIds(mirror) \cup EntryIds(copied)
  BY <1>3, <1>5, ConcatLines
<1>7. EntryIds(Standing)' = EntryIds(Standing') /\ EntryIds(mirror)' = EntryIds(mirror')
  BY DEF EntryIds
<1>8. ledger' \in Seq(Entries) /\ mirror' \in Seq(Entries) /\ restarted' \in BOOLEAN
  BY <1>1, <1>2, <1>5, ConcatIs DEF LedgerType
<1>9. LedgerType'
  BY <1>1, <1>2, <1>8 DEF LedgerType, Caches, Index, Entries, Ids
<1>10. GapsAreExplained'
  BY <1>1, <1>5, <1>6, <1>7 DEF GapsAreExplained
<1>11. CASE Found = Standing
  <2>1. restarted' = restarted
    BY <1>1, <1>2, <1>11 DEF LedgerType
  <2>2. Log!Record
    BY <1>1, <1>3, <1>6, <1>7, <1>11, <2>1, GrowsIsRecord
  <2>3. QED
    BY <1>3, <1>4, <1>9, <1>10, <2>2, CoherentIs DEF LedgerInv
<1>12. CASE Found # Standing
  <2>1. Log!Restart
    BY <1>1, <1>12, BeginsIsRestart
  <2>2. QED
    BY <1>3, <1>4, <1>9, <1>10, <2>1, CoherentIs DEF LedgerInv
<1>13. QED
  BY <1>11, <1>12
-----------------------------------------------------------------------------
(* Every action keeps the invariant and is a step of the event log *)

\* Who begins to recognise the mirror finds the whole ledger in it.
MirrorKnownStep ==
  \A p \in Procs : ~cache[p].mirror.fresh /\ cache'[p].mirror.fresh
    => EntryIds(Standing') \subseteq EntryIds(mirror')

StepHolds ==
  /\ LedgerInv'
  /\ [Log!LogNext]_(Log!logVars)
  /\ MirrorKnownStep

LEMMA StutterHolds ==
  ASSUME LedgerInv', UNCHANGED Log!logVars, MirrorKnownStep PROVE StepHolds
  BY DEF StepHolds

LEMMA RecordHolds ==
  ASSUME LedgerInv', Log!Record \/ Log!Restart, MirrorKnownStep PROVE StepHolds
  BY DEF StepHolds, Log!LogNext

LEMMA NotNewHolds ==
  ASSUME MirrorNotNew(cache, cache') PROVE MirrorKnownStep
  BY DEF MirrorNotNew, MirrorKnownStep

LEMMA EmptyFile ==
  /\ <<>> \in Seq(Entries) /\ EntryIds(<<>>) = {} /\ NewLines(<<>>)
  /\ \A more : NewCopies(more, <<>>)
  /\ \A s \in Seq(Entries) : s \o <<>> = s
<1>1. <<>> \in Seq(Entries) /\ EntryIds(<<>>) = {}
  BY DEF EntryIds
<1>2. NewLines(<<>>)
  BY DEF NewLines
<1>3. \A more : NewCopies(more, <<>>)
  BY DEF NewCopies, Once
<1>4. \A s \in Seq(Entries) : s \o <<>> = s
  OBVIOUS
<1>5. QED
  BY <1>1, <1>2, <1>3, <1>4

LEMMA AppendNothingHolds ==
  ASSUME LedgerInv, NEW p \in Procs, NEW batch, AppendNothing(p, batch)
  PROVE  StepHolds
<1> DEFINE a == AfterRestore
           x == AppendIndex(p)
<1>1. a \in Caches /\ Knows(a, Found, mirror) /\ \A q \in Procs : a[q].mirror = cache[q].mirror
  BY AfterRestoreIs
<1>2. x = IndexOf(Found) /\ x \in Index
  BY IndexIs, IndexType, FoundIs DEF LedgerInv
<1>3. /\ cache' = [a EXCEPT ![p].ledger = x] /\ Restore
      /\ UNCHANGED <<mirror, archived, unmirrored>>
  BY DEF AppendNothing
<1> HIDE DEF a, x
<1>4. a \in [Procs -> [ledger : Index, mirror : Index]]
  BY <1>1 DEF Caches
<1>5. cache' \in Caches
  <2> HIDE DEF Index
  <2>1. QED
    BY <1>2, <1>3, <1>4 DEF Caches
<1>6. ASSUME NEW q \in Procs
      PROVE  /\ cache'[q].ledger = IF q = p THEN x ELSE a[q].ledger
             /\ cache'[q].mirror = a[q].mirror
  BY <1>3, <1>4
<1>7. Knows(cache', Found, mirror)
  BY <1>1, <1>2, <1>6 DEF Knows
<1>8. MirrorNotNew(cache, cache')
  BY <1>1, <1>6 DEF MirrorNotNew
<1>9. QED
  BY <1>3, <1>5, <1>7, <1>8, RestoreIs, Stays, NotNewHolds, StutterHolds DEF LedgerInv

\* A conflict, or a reader, at most restores the ledger.
LEMMA RestoreHolds ==
  ASSUME LedgerInv, Restore, cache' = AfterRestore,
         UNCHANGED <<mirror, archived, unmirrored>>
  PROVE  StepHolds
<1>1. /\ cache' \in Caches /\ Knows(cache', Found, mirror)
      /\ \A q \in Procs : cache'[q].mirror = cache[q].mirror
  BY AfterRestoreIs
<1>2. MirrorNotNew(cache, cache')
  BY <1>1 DEF MirrorNotNew
<1>3. QED
  BY <1>1, <1>2, RestoreIs, Stays, NotNewHolds, StutterHolds DEF LedgerInv

LEMMA AppendNewHolds ==
  ASSUME LedgerInv, NEW p \in Procs, NEW batch \in Offers, AppendNew(p, batch)
  PROVE  StepHolds
<1> DEFINE new == Appendable(p, batch)
           missing == Missing(p, new)
           c == Committed(p, new)
           x == MirrorIndex(p, missing)
<1>1. /\ new # <<>> /\ Fits(new) /\ Write(new) /\ mirror' = mirror \o missing
      /\ cache' = [(IF missing = <<>> THEN c ELSE Outdated(c, p, "mirror")) EXCEPT ![p].mirror = x]
      /\ archived' = archived /\ unmirrored' = unmirrored
  BY DEF AppendNew, Sync
<1>2. new \in Seq(Entries) /\ NewLines(new)
  BY <1>1, AppendableIs
<1> HIDE DEF new
<1>3. c \in Caches /\ Knows(c, Found \o new, mirror) /\ \A q \in Procs : c[q].mirror = cache[q].mirror
  BY <1>1, <1>2, CommittedIs
<1>4. /\ missing \in Seq(Entries) /\ NewCopies(new, missing)
      /\ EntryIds(new) \subseteq EntryIds(mirror) \cup EntryIds(missing)
      /\ ~cache[p].mirror.fresh => EntryIds(Found) \subseteq EntryIds(mirror) \cup EntryIds(missing)
  BY <1>2, MissingIs
<1> HIDE DEF missing, c
<1>5. mirror \in Seq(Entries) /\ cache \in Caches /\ Knows(cache, ledger, mirror)
      /\ Found \in Seq(Entries)
  BY CoherentIs, FoundIs DEF LedgerInv, LedgerType, Caches
<1>6. x \in Index /\ x.ids = EntryIds(mirror) \cup EntryIds(missing)
  <2> DEFINE index == IF cache[p].mirror.fresh THEN cache[p].mirror ELSE IndexOf(mirror)
  <2>1. IndexOf(mirror) \in Index /\ IndexOf(mirror).ids = EntryIds(mirror)
    BY <1>5, IndexType DEF IndexOf
  <2>2. cache[p].mirror \in Index /\ (cache[p].mirror.fresh => cache[p].mirror.ids = EntryIds(mirror))
    <3>1. cache \in [Procs -> [ledger : Index, mirror : Index]]
      BY <1>5 DEF Caches
    <3>2. cache[p].mirror \in Index
      BY <3>1
    <3>3. QED
      BY <1>5, <3>2 DEF Knows
  <2>3. index \in Index /\ index.ids = EntryIds(mirror)
    BY <2>1, <2>2
  <2>4. x = [index EXCEPT !.ids = @ \cup EntryIds(missing)]
    BY DEF MirrorIndex
  <2> HIDE DEF index, x
  <2>5. EntryIds(missing) \in SUBSET Ids
    BY <1>4, IndexType
  <2>6. QED
    BY <2>3, <2>4, <2>5 DEF Index
<1> HIDE DEF x
<1>7. /\ cache' \in Caches /\ Knows(cache', Found \o new, mirror \o missing)
      /\ \A q \in Procs \ {p} : cache'[q].mirror.fresh => c[q].mirror.fresh
  <2> DEFINE g == Found \o new
  <2>1. Knows(c, g, mirror)
    BY <1>3
  <2> HIDE DEF g
  <2>2. cache' = Remembered(c, p, missing, x)
    BY <1>1 DEF Remembered
  <2>3. c \in Caches /\ mirror \in Seq(Entries) /\ missing \in Seq(Entries)
    BY <1>3, <1>4, <1>5
  <2>4. /\ cache' \in Caches /\ Knows(cache', g, mirror \o missing)
        /\ \A q \in Procs \ {p} : cache'[q].mirror.fresh => c[q].mirror.fresh
    BY <1>6, <2>1, <2>2, <2>3, RemembersMirror
  <2>5. QED
    BY <2>4 DEF g
<1>8. LedgerInv' /\ (Log!Record \/ Log!Restart) /\ Standing' = Found \o new
  BY <1>1, <1>2, <1>4, <1>7, Writes DEF Write
<1>9. MirrorKnownStep
  <2>1. EntryIds(Standing') = EntryIds(Found) \cup EntryIds(new)
    BY <1>2, <1>5, <1>8, ConcatLines
  <2>2. EntryIds(mirror') = EntryIds(mirror) \cup EntryIds(missing)
    BY <1>1, <1>4, <1>5, ConcatLines
  <2>3. ~cache[p].mirror.fresh => EntryIds(Standing') \subseteq EntryIds(mirror')
    BY <1>4, <2>1, <2>2
  <2>4. \A q \in Procs \ {p} : cache'[q].mirror.fresh => cache[q].mirror.fresh
    BY <1>3, <1>7
  <2>5. QED
    BY <2>3, <2>4 DEF MirrorKnownStep
<1>10. QED
  BY <1>8, <1>9, RecordHolds

LEMMA AppendUnmirroredHolds ==
  ASSUME LedgerInv, NEW p \in Procs, NEW batch \in Offers, AppendUnmirrored(p, batch)
  PROVE  StepHolds
<1> DEFINE new == Appendable(p, batch)
           c == Committed(p, new)
<1>1. /\ new # <<>> /\ Fits(new) /\ Write(new) /\ cache' = Unsynced(c, p)
      /\ unmirrored' = unmirrored \cup EntryIds(new)
      /\ mirror' = mirror /\ archived' = archived
  BY DEF AppendUnmirrored
<1>2. new \in Seq(Entries) /\ NewLines(new)
  BY <1>1, AppendableIs
<1> HIDE DEF new
<1>3. c \in Caches /\ Knows(c, Found \o new, mirror) /\ \A q \in Procs : c[q].mirror = cache[q].mirror
  BY <1>1, <1>2, CommittedIs
<1> HIDE DEF c
<1>4. cache' \in Caches /\ Knows(cache', Found \o new, mirror) /\ MirrorNotNew(cache, cache')
  <2>1. CASE cache[p].mirror.fresh
    BY <1>1, <1>3, <2>1 DEF Unsynced, MirrorNotNew
  <2>2. CASE ~cache[p].mirror.fresh
    <3>1. cache' = [c EXCEPT ![p].mirror = NoIndex]
      BY <1>1, <2>2 DEF Unsynced
    <3>2. c \in [Procs -> [ledger : Index, mirror : Index]] /\ NoIndex \in Index
      BY <1>3, IndexType DEF Caches
    <3>3. cache' \in Caches
      <4> HIDE DEF Index
      <4>1. QED
        BY <3>1, <3>2 DEF Caches
    <3>4. ASSUME NEW q \in Procs
          PROVE  /\ cache'[q].ledger = c[q].ledger
                 /\ cache'[q].mirror = IF q = p THEN NoIndex ELSE c[q].mirror
      BY <3>1, <3>2
    <3>5. QED
      BY <1>3, <3>3, <3>4, IndexType DEF Knows, MirrorNotNew
  <2>3. QED
    BY <2>1, <2>2
<1>5. mirror' = mirror \o <<>>
  BY <1>1, EmptyFile DEF LedgerInv, LedgerType
<1>6. LedgerInv' /\ (Log!Record \/ Log!Restart)
  BY <1>1, <1>2, <1>4, <1>5, Writes, EmptyFile DEF Write
<1>7. QED
  BY <1>4, <1>6, NotNewHolds, RecordHolds

LEMMA AppendDiesHolds ==
  ASSUME LedgerInv, NEW p \in Procs, NEW batch \in Offers, AppendDies(p, batch)
  PROVE  StepHolds
<1> DEFINE new == Appendable(p, batch)
<1>1. /\ Fits(new) /\ mirror' = mirror /\ archived' = archived
      /\ cache' = [Replaced(AfterRestore, "ledger") EXCEPT ![p] = NoCache]
  BY DEF AppendDies
<1>2. PICK n \in 0..Len(new) :
        /\ Write(SubSeq(new, 1, n))
        /\ unmirrored' = unmirrored \cup EntryIds(SubSeq(new, 1, n))
  BY DEF AppendDies
<1>3. new \in Seq(Entries) /\ NewLines(new)
  BY <1>1, AppendableIs
<1> HIDE DEF new
<1> DEFINE more == SubSeq(new, 1, n)
<1>4. more \in Seq(Entries) /\ NewLines(more)
  BY <1>3, NewLinesPrefix
<1> HIDE DEF more
<1>5. cache' \in Caches /\ Knows(cache', Found \o more, mirror) /\ MirrorNotNew(cache, cache')
  <2> DEFINE a == AfterRestore
             r == Replaced(a, "ledger")
  <2>1. /\ a \in Caches /\ Knows(a, Found, mirror)
        /\ \A q \in Procs : a[q].mirror = cache[q].mirror
    BY AfterRestoreIs
  <2> HIDE DEF a
  <2>2. r \in Caches /\ Knows(r, Found \o more, mirror) /\ MirrorNotNew(a, r)
    BY <2>1, ForgetsKnows
  <2>3. cache' = [r EXCEPT ![p] = NoCache]
    BY <1>1 DEF a
  <2> HIDE DEF r
  <2>4. cache' \in Caches /\ Knows(cache', Found \o more, mirror) /\ MirrorNotNew(r, cache')
    BY <2>2, <2>3, ForgetsKnows
  <2>5. QED
    BY <2>1, <2>2, <2>4 DEF MirrorNotNew
<1>6. mirror' = mirror \o <<>>
  BY <1>1, EmptyFile DEF LedgerInv, LedgerType
<1>7. LedgerInv' /\ (Log!Record \/ Log!Restart)
  <2>1. Write(more) /\ unmirrored' = unmirrored \cup EntryIds(more)
    BY <1>2 DEF more
  <2>2. QED
    BY <1>1, <1>4, <1>5, <1>6, <2>1, Writes, EmptyFile DEF Write
<1>8. QED
  BY <1>5, <1>7, NotNewHolds, RecordHolds

LEMMA SplitIds ==
  ASSUME NEW file \in Seq(Entries), NEW n \in 0..Len(file)
  PROVE  EntryIds(file) \subseteq
           EntryIds(SubSeq(file, 1, n)) \cup EntryIds(SubSeq(file, n + 1, Len(file)))
<1>1. ASSUME NEW i \in DOMAIN file
      PROVE  file[i].id \in
               EntryIds(SubSeq(file, 1, n)) \cup EntryIds(SubSeq(file, n + 1, Len(file)))
  <2>1. CASE i <= n
    <3>1. i \in DOMAIN SubSeq(file, 1, n) /\ SubSeq(file, 1, n)[i] = file[i]
      BY <2>1
    <3>2. QED
      BY <3>1 DEF EntryIds
  <2>2. CASE ~(i <= n)
    <3> DEFINE rest == SubSeq(file, n + 1, Len(file))
    <3>1. i - n \in DOMAIN rest /\ rest[i - n] = file[i]
      BY <2>2
    <3> HIDE DEF rest
    <3>2. file[i].id \in EntryIds(rest)
      BY <3>1 DEF EntryIds
    <3>3. QED
      BY <3>2 DEF rest
  <2>3. QED
    BY <2>1, <2>2
<1>2. QED
  BY <1>1 DEF EntryIds

LEMMA SyncDiesHolds ==
  ASSUME LedgerInv, NEW p \in Procs, NEW batch \in Offers, SyncDies(p, batch)
  PROVE  StepHolds
<1> DEFINE new == Appendable(p, batch)
           missing == Missing(p, new)
<1>1. /\ Fits(new) /\ Write(new) /\ archived' = archived
      /\ cache' = [q \in Procs |-> NoCache]
  BY DEF SyncDies
<1>2. PICK n \in 0..Len(missing) - 1 :
        /\ mirror' = mirror \o SubSeq(missing, 1, n)
        /\ unmirrored' = unmirrored \cup EntryIds(SubSeq(missing, n + 1, Len(missing)))
  BY DEF SyncDies
<1>3. new \in Seq(Entries) /\ NewLines(new)
  BY <1>1, AppendableIs
<1> HIDE DEF new
<1>4. /\ missing \in Seq(Entries) /\ NewCopies(new, missing)
      /\ EntryIds(new) \subseteq EntryIds(mirror) \cup EntryIds(missing)
  BY <1>3, MissingIs
<1> HIDE DEF missing
<1>5. n \in 0..Len(missing)
  BY <1>4
<1>6. SubSeq(missing, 1, n) \in Seq(Entries) /\ NewCopies(new, SubSeq(missing, 1, n))
  BY <1>4, <1>5, CopiesPrefix
<1>7. EntryIds(new) \subseteq EntryIds(mirror) \cup EntryIds(SubSeq(missing, 1, n)) \cup unmirrored'
  BY <1>2, <1>4, <1>5, SplitIds
<1>8. cache' \in Caches /\ Knows(cache', ledger', mirror') /\ MirrorNotNew(cache, cache')
  <2>1. cache' \in Caches
    BY <1>1, IndexType DEF Caches
  <2>2. \A q \in Procs : cache'[q].ledger = NoIndex /\ cache'[q].mirror = NoIndex
    BY <1>1, IndexType
  <2>3. QED
    BY <2>1, <2>2, IndexType DEF Knows, MirrorNotNew
<1>9. unmirrored \subseteq unmirrored'
  BY <1>2
<1>10. LedgerInv' /\ (Log!Record \/ Log!Restart)
  BY <1>1, <1>2, <1>3, <1>6, <1>7, <1>8, <1>9, Writes
<1>11. QED
  BY <1>8, <1>10, NotNewHolds, RecordHolds

LEMMA SyncBackupHolds ==
  ASSUME LedgerInv, NEW p \in Procs, SyncBackup(p)
  PROVE  StepHolds
<1> DEFINE missing == Lacking(Found, EntryIds(mirror))
           a == AfterRestore
           index == IndexOf(mirror)
           x == [index EXCEPT !.ids = @ \cup EntryIds(missing)]
<1>1. /\ Restore /\ mirror' = mirror \o missing
      /\ ledgerFile = "there" \/ Restoring
      /\ cache' = Remembered(a, p, missing, x)
      /\ archived' = archived /\ unmirrored' = unmirrored
  BY DEF SyncBackup, Remembered
<1>2. /\ Found \in Seq(Entries) /\ mirror \in Seq(Entries) /\ Once(Found)
      /\ Found = Standing
  BY <1>1, FoundIs, FoundOnce DEF LedgerInv, LedgerType
<1>3. /\ missing \in Seq(Entries) /\ Once(missing)
      /\ Lines(missing) = {e \in Lines(Found) : e.id \notin EntryIds(mirror)}
  BY <1>2, LackingIs
<1> HIDE DEF missing
<1>4. NewCopies(<<>>, missing)
  BY <1>3 DEF NewCopies, Lines
<1>5. /\ EntryIds(Found) \subseteq EntryIds(mirror) \cup EntryIds(missing)
      /\ EntryIds(mirror \o missing) = EntryIds(mirror) \cup EntryIds(missing)
  BY <1>2, <1>3, EntryIdsAre, ConcatLines
<1>6. a \in Caches /\ Knows(a, Found, mirror) /\ \A q \in Procs : a[q].mirror = cache[q].mirror
  BY AfterRestoreIs
<1>7. index \in Index /\ index.ids = EntryIds(mirror)
  BY <1>2, IndexType DEF IndexOf
<1> HIDE DEF a, index
<1>8. x \in Index /\ x.ids = EntryIds(mirror) \cup EntryIds(missing)
  <2>1. EntryIds(missing) \in SUBSET Ids
    BY <1>3, IndexType
  <2>2. QED
    BY <1>7, <2>1 DEF Index
<1> HIDE DEF x
<1>9. /\ cache' \in Caches /\ Knows(cache', Found, mirror \o missing)
      /\ \A q \in Procs \ {p} : cache'[q].mirror.fresh => a[q].mirror.fresh
  <2>1. cache' = Remembered(a, p, missing, x)
    BY <1>1
  <2>2. mirror \in Seq(Entries) /\ missing \in Seq(Entries)
    BY <1>2, <1>3
  <2>3. QED
    BY <1>6, <1>8, <2>1, <2>2, RemembersMirror
\* It writes no line: the file it leaves is the one it found.
<1>10. ledger' = Found /\ Found = Found \o <<>> /\ Write(<<>>)
  <2>1. /\ ledger' = Found /\ restarted' = restarted /\ ledgerFile' = "there"
    BY <1>1 DEF Restore
  <2>2. Found \o <<>> = Found
    BY <1>2, EmptyFile
  <2>3. restarted \in BOOLEAN
    BY DEF LedgerInv, LedgerType
  <2>4. QED
    BY <1>2, <2>1, <2>2, <2>3 DEF Write
<1>11. LedgerInv' /\ (Log!Record \/ Log!Restart) /\ Standing' = Found \o <<>>
  <2>1. Knows(cache', ledger', mirror')
    BY <1>1, <1>9, <1>10
  <2>2. EntryIds(<<>>) \subseteq EntryIds(mirror) \cup EntryIds(missing) \cup unmirrored'
    BY EmptyFile
  <2>3. QED
    BY <1>1, <1>3, <1>4, <1>9, <1>10, <2>1, <2>2, EmptyFile, Writes
<1>12. MirrorKnownStep
  <2>1. Standing' = Found
    BY <1>10, <1>11
  <2>2. EntryIds(Standing') \subseteq EntryIds(mirror')
    BY <1>1, <1>5, <2>1
  <2>3. QED
    BY <2>2 DEF MirrorKnownStep
<1>13. QED
  BY <1>11, <1>12, RecordHolds

LEMMA RetireHolds ==
  ASSUME LedgerInv', Log!Retire, MirrorKnownStep PROVE StepHolds
  BY DEF StepHolds, Log!LogNext

LEMMA ArchiveHolds ==
  ASSUME LedgerInv, NEW p \in Procs, NEW cutoff \in 1..MaxSeq, Archive(p, cutoff)
  PROVE  StepHolds
<1> DEFINE r == Replaced(cache, "ledger")
           s == Replaced(r, "mirror")
<1>1. /\ ArchivePlan(cutoff) /\ archived' = Archived(cutoff) /\ ledger' = Retained(cutoff)
      /\ mirror' = Lacking(mirror, EntryIds(ledger) \ EntryIds(Retained(cutoff)))
      /\ unmirrored' = unmirrored /\ cache' = [s EXCEPT ![p] = NoCache]
      /\ ledgerFile' = ledgerFile /\ restarted' = restarted
  BY DEF Archive
<1>2. /\ cache \in Caches /\ Knows(cache, ledger, mirror) /\ LedgerType
      /\ FilesInv /\ (~restarted => LinesInv)
  BY CoherentIs DEF LedgerInv, LedgerType, Caches
<1>3. r \in Caches /\ Knows(r, ledger', mirror) /\ MirrorNotNew(cache, r)
  BY <1>2, ForgetsKnows
<1> HIDE DEF r
<1>4. s \in Caches /\ Knows(s, ledger', mirror') /\ MirrorNotNew(r, s)
  BY <1>3, ForgetsKnows
<1> HIDE DEF s
<1>5. cache' \in Caches /\ Knows(cache', ledger', mirror') /\ MirrorNotNew(s, cache')
  BY <1>1, <1>4, ForgetsKnows
<1>6. MirrorNotNew(cache, cache')
  BY <1>3, <1>4, <1>5 DEF MirrorNotNew
<1>7. /\ mirror' \in Seq(Entries) /\ ledger' \in Seq(Entries) /\ archived' \in SUBSET Entries
      /\ ledgerFile = "there" /\ FilesInv' /\ (~restarted' => LinesInv') /\ Log!Retire
      /\ (EntryIds(Standing) \ EntryIds(mirror))' \subseteq EntryIds(Standing) \ EntryIds(mirror)
  BY <1>1, <1>2, ArchivesLines
<1>8. LedgerType'
  BY <1>1, <1>2, <1>5, <1>7 DEF LedgerType, Caches, Index, Entries, Ids
<1>9. GapsAreExplained'
  BY <1>1, <1>7 DEF LedgerInv, GapsAreExplained
<1>10. LedgerInv'
  BY <1>5, <1>7, <1>8, <1>9, CoherentIs DEF LedgerInv
<1>11. QED
  BY <1>6, <1>7, <1>10, NotNewHolds, RetireHolds

LEMMA ArchiveDiesHolds ==
  ASSUME LedgerInv, NEW p \in Procs, NEW cutoff \in 1..MaxSeq, ArchiveDies(p, cutoff)
  PROVE  StepHolds
<1>1. /\ ArchivePlan(cutoff) /\ archived' = Archived(cutoff)
      /\ UNCHANGED <<ledgerFile, mirror, unmirrored, restarted>>
  BY DEF ArchiveDies
<1>2. /\ cache \in Caches /\ Knows(cache, ledger, mirror) /\ LedgerType
      /\ FilesInv /\ (~restarted => LinesInv)
  BY CoherentIs DEF LedgerInv, LedgerType, Caches
<1>3. ASSUME ledger' = ledger, cache' = [cache EXCEPT ![p] = NoCache]
      PROVE  StepHolds
  <2>1. cache' \in Caches /\ Knows(cache', ledger', mirror') /\ MirrorNotNew(cache, cache')
    BY <1>1, <1>2, <1>3, ForgetsKnows
  <2>2. /\ archived' \in SUBSET Entries /\ FilesInv' /\ (~restarted' => LinesInv')
        /\ Log!Retire /\ Standing' = Standing
    BY <1>1, <1>2, <1>3, ArchiveStarts
  <2>3. LedgerType'
    BY <1>1, <1>2, <1>3, <2>1, <2>2 DEF LedgerType, Caches, Index, Entries, Ids
  <2>4. GapsAreExplained'
    BY <1>1, <2>2 DEF LedgerInv, GapsAreExplained, EntryIds
  <2>5. LedgerInv'
    BY <2>1, <2>2, <2>3, <2>4, CoherentIs DEF LedgerInv
  <2>6. QED
    BY <2>1, <2>2, <2>5, NotNewHolds, RetireHolds
<1>4. ASSUME ledger' = Retained(cutoff),
             cache' = [Replaced(cache, "ledger") EXCEPT ![p] = NoCache]
      PROVE  StepHolds
  <2> DEFINE r == Replaced(cache, "ledger")
  <2>1. r \in Caches /\ Knows(r, ledger', mirror) /\ MirrorNotNew(cache, r)
    BY <1>2, ForgetsKnows
  <2>2. cache' = [r EXCEPT ![p] = NoCache]
    BY <1>4
  <2> HIDE DEF r
  <2>3. cache' \in Caches /\ Knows(cache', ledger', mirror') /\ MirrorNotNew(r, cache')
    BY <1>1, <2>1, <2>2, ForgetsKnows
  <2>4. MirrorNotNew(cache, cache')
    BY <2>1, <2>3 DEF MirrorNotNew
  <2>5. /\ mirror' \in Seq(Entries) /\ ledger' \in Seq(Entries) /\ archived' \in SUBSET Entries
        /\ ledgerFile = "there" /\ FilesInv' /\ (~restarted' => LinesInv') /\ Log!Retire
        /\ (EntryIds(Standing) \ EntryIds(mirror))' \subseteq EntryIds(Standing) \ EntryIds(mirror)
    BY <1>1, <1>2, <1>4, ArchivesLines
  <2>6. LedgerType'
    BY <1>1, <1>2, <2>3, <2>5 DEF LedgerType, Caches, Index, Entries, Ids
  <2>7. GapsAreExplained'
    BY <1>1, <2>5 DEF LedgerInv, GapsAreExplained
  <2>8. LedgerInv'
    BY <2>3, <2>5, <2>6, <2>7, CoherentIs DEF LedgerInv
  <2>9. QED
    BY <2>4, <2>5, <2>8, NotNewHolds, RetireHolds
<1>5. QED
  BY <1>3, <1>4 DEF ArchiveDies

LEMMA ExitHolds ==
  ASSUME LedgerInv, NEW p \in Procs, Exit(p)
  PROVE  StepHolds
<1>1. /\ cache' = [cache EXCEPT ![p] = NoCache]
      /\ UNCHANGED <<ledger, ledgerFile, mirror, archived, unmirrored, restarted>>
  BY DEF Exit
<1>2. cache \in Caches /\ Knows(cache, ledger, mirror) /\ LedgerType
  BY CoherentIs DEF LedgerInv, LedgerType, Caches
<1>3. cache' \in Caches /\ Knows(cache', ledger', mirror) /\ MirrorNotNew(cache, cache')
  BY <1>1, <1>2, ForgetsKnows
<1>4. Standing' = Standing
  BY <1>1 DEF Standing
<1>5. QED
  BY <1>1, <1>2, <1>3, <1>4, Stays, NotNewHolds, StutterHolds DEF LedgerType, NoFile

\* Whether a restore works changes nothing of what a reader may get.
LEMMA RestoreTurnsHolds ==
  ASSUME LedgerInv, RestoreFails \/ RestoreWorks
  PROVE  StepHolds
<1>1. /\ ledgerFile # "there" /\ ledgerFile' \in {"missing", "stuck"}
      /\ UNCHANGED <<ledger, mirror, archived, unmirrored, restarted, cache>>
  BY DEF RestoreFails, RestoreWorks, Restoring
<1>2. cache \in Caches /\ Knows(cache, ledger, mirror) /\ LedgerType
  BY CoherentIs DEF LedgerInv, LedgerType, Caches
<1>3. Standing' = Standing
  BY <1>1 DEF Standing
<1>4. ledger' \in Seq(Entries) /\ ledger' = NoFile
  BY <1>1, <1>2 DEF LedgerType, NoFile
<1>5. cache' \in Caches /\ Knows(cache', ledger', mirror) /\ MirrorNotNew(cache, cache')
  BY <1>1, <1>2 DEF MirrorNotNew
<1>6. QED
  BY <1>1, <1>3, <1>4, <1>5, Stays, NotNewHolds, StutterHolds

LEMMA LedgerLostHolds ==
  ASSUME LedgerInv, LedgerLost
  PROVE  StepHolds
<1>1. /\ ledgerFile = "there" /\ ledgerFile' = "missing" /\ ledger' = NoFile
      /\ cache' = Replaced(cache, "ledger")
      /\ UNCHANGED <<mirror, archived, unmirrored, restarted>>
  BY DEF LedgerLost
<1>2. /\ cache \in Caches /\ Knows(cache, ledger, mirror) /\ LedgerType
      /\ FilesInv /\ (~restarted => LinesInv)
  BY CoherentIs DEF LedgerInv, LedgerType, Caches
<1>3. cache' \in Caches /\ Knows(cache', ledger', mirror') /\ MirrorNotNew(cache, cache')
  BY <1>1, <1>2, ForgetsKnows
<1>4. FilesInv' /\ (~restarted' => LinesInv') /\ Log!Lose /\ Standing' = mirror
  BY <1>1, <1>2, LosesLines
<1>5. LedgerType'
  BY <1>1, <1>2, <1>3 DEF LedgerType, Caches, Index, Entries, Ids, NoFile
<1>6. GapsAreExplained'
  BY <1>1, <1>4 DEF GapsAreExplained, EntryIds
<1>7. LedgerInv'
  BY <1>3, <1>4, <1>5, <1>6, CoherentIs DEF LedgerInv
<1>8. MirrorKnownStep
  BY <1>3, NotNewHolds
<1>9. QED
  BY <1>4, <1>7, <1>8 DEF StepHolds, Log!LogNext

LEMMA UnchangedHolds ==
  ASSUME LedgerInv, UNCHANGED vars
  PROVE  StepHolds
<1>1. UNCHANGED <<ledger, ledgerFile, mirror, archived, unmirrored, restarted, cache>>
  BY DEF vars
<1>2. cache \in Caches /\ Knows(cache, ledger, mirror) /\ LedgerType
  BY CoherentIs DEF LedgerInv, LedgerType, Caches
<1>3. Standing' = Standing /\ MirrorNotNew(cache, cache')
  BY <1>1 DEF Standing, MirrorNotNew
<1>4. QED
  BY <1>1, <1>2, <1>3, Stays, NotNewHolds, StutterHolds DEF LedgerType, NoFile

LEMMA StepsHold ==
  ASSUME LedgerInv, [Next]_vars
  PROVE  StepHolds
<1>1. ASSUME NEW p \in Procs, NEW batch \in Offers, AppendNothing(p, batch) PROVE StepHolds
  BY <1>1, AppendNothingHolds
<1>2. ASSUME NEW p \in Procs, NEW batch \in Offers, AppendConflict(p, batch) PROVE StepHolds
  BY <1>2, RestoreHolds DEF AppendConflict
<1>3. ASSUME NEW p \in Procs, NEW batch \in Offers, AppendNew(p, batch) PROVE StepHolds
  BY <1>3, AppendNewHolds
<1>4. ASSUME NEW p \in Procs, NEW batch \in Offers, AppendUnmirrored(p, batch) PROVE StepHolds
  BY <1>4, AppendUnmirroredHolds
<1>5. ASSUME NEW p \in Procs, NEW batch \in Offers, AppendDies(p, batch) PROVE StepHolds
  BY <1>5, AppendDiesHolds
<1>6. ASSUME NEW p \in Procs, NEW batch \in Offers, SyncDies(p, batch) PROVE StepHolds
  BY <1>6, SyncDiesHolds
<1>7. ASSUME NEW p \in Procs, NEW cutoff \in 1..MaxSeq, Archive(p, cutoff) PROVE StepHolds
  BY <1>7, ArchiveHolds
<1>8. ASSUME NEW p \in Procs, NEW cutoff \in 1..MaxSeq, ArchiveDies(p, cutoff) PROVE StepHolds
  BY <1>8, ArchiveDiesHolds
<1>9. ASSUME NEW p \in Procs, SyncBackup(p) PROVE StepHolds
  BY <1>9, SyncBackupHolds
<1>10. ASSUME NEW p \in Procs, Exit(p) PROVE StepHolds
  BY <1>10, ExitHolds
<1>11. ASSUME Read PROVE StepHolds
  BY <1>11, RestoreHolds DEF Read
<1>12. ASSUME LedgerLost PROVE StepHolds
  BY <1>12, LedgerLostHolds
<1>13. ASSUME RestoreFails \/ RestoreWorks PROVE StepHolds
  BY <1>13, RestoreTurnsHolds
<1>14. ASSUME UNCHANGED vars PROVE StepHolds
  BY <1>14, UnchangedHolds
<1>15. QED
  BY <1>1, <1>2, <1>3, <1>4, <1>5, <1>6, <1>7, <1>8, <1>9, <1>10, <1>11, <1>12, <1>13, <1>14
  DEF Next

LEMMA InitHolds ==
  ASSUME Init PROVE LedgerInv /\ Log!LogInit
<1>1. /\ ledger = <<>> /\ ledgerFile = "missing" /\ mirror = <<>> /\ archived = {}
      /\ unmirrored = {} /\ restarted = FALSE /\ cache = [p \in Procs |-> NoCache]
  BY DEF Init, NoFile
<1>2. Standing = <<>>
  BY <1>1 DEF Standing
<1>3. LedgerType
  <2>1. <<>> \in Seq(Entries) /\ {} \in SUBSET Entries
    OBVIOUS
  <2>2. cache \in [Procs -> [ledger : Index, mirror : Index]]
    BY <1>1, IndexType
  <2>3. QED
    BY <1>1, <2>1, <2>2 DEF LedgerType, NoFile
<1>4. FilesInv /\ LinesInv
  BY <1>1, <1>2 DEF FilesInv, LinesInv, Once, OneOfEach, Alike
<1>5. CacheIsCoherent
  BY <1>1, IndexType DEF CacheIsCoherent
<1>6. GapsAreExplained
  BY <1>1, <1>2 DEF GapsAreExplained, EntryIds
<1>7. Log!LogInit
  BY <1>1, <1>2 DEF Log!LogInit, EntryIds
<1>8. QED
  BY <1>3, <1>4, <1>5, <1>6, <1>7 DEF LedgerInv
-----------------------------------------------------------------------------
(* The results *)

\* No event is in the ledger or in the mirror twice, also where an append that
\* could not restore a lost ledger began a new one; and until one does, no
\* number is either, and the mirror never tells another story than the ledger,
\* or one the archive does not hold: what a restore brings back was recorded,
\* under the number it had.
THEOREM LedgerCorrect == Spec => []LedgerInv
<1>1. Init => LedgerInv
  BY InitHolds
<1>2. LedgerInv /\ [Next]_vars => LedgerInv'
  BY StepsHold DEF StepHolds
<1>3. QED
  BY <1>1, <1>2, PTL DEF Spec

\* An index a process still recognises by its fingerprint is an index of what
\* the file holds now, for any number of writers, restores and archive runs.
THEOREM IndexesAreCoherent == Spec => []CacheIsCoherent
<1>1. LedgerInv => CacheIsCoherent
  BY DEF LedgerInv
<1>2. QED
  BY <1>1, LedgerCorrect, PTL

\* What the mirror lacks was recorded by an append that died or that could not
\* write the mirror.
THEOREM GapsHaveReasons == Spec => []GapsAreExplained
<1>1. LedgerInv => GapsAreExplained
  BY DEF LedgerInv
<1>2. QED
  BY <1>1, LedgerCorrect, PTL

\* A process begins to recognise the mirror only in a step that leaves the
\* whole ledger in it.
THEOREM KnownMirrorIsComplete == Spec => MirrorKnownIsComplete
<1>1. LedgerInv /\ [Next]_vars => MirrorKnownStep
  BY StepsHold DEF StepHolds
<1>2. MirrorKnownStep =>
        [\A p \in Procs : ~cache[p].mirror.fresh /\ cache'[p].mirror.fresh
           => EntryIds(Standing') \subseteq EntryIds(mirror')]_vars
  BY DEF MirrorKnownStep
<1>3. QED
  BY <1>1, <1>2, LedgerCorrect, PTL DEF Spec, MirrorKnownIsComplete

\* The ledger, its mirror, its archive and the caches implement an event log:
\* recorded once, at the end, under growing numbers; a loss takes only what was
\* not mirrored; archiving takes only what is restated; and an append that could
\* not restore a lost ledger starts the log anew, from 1, after which each id
\* that was kept still comes back only once.
THEOREM LedgerIsAnEventLog == Spec => ImplementsEventLog
<1>1. Init => Log!LogInit
  BY InitHolds
<1>2. LedgerInv /\ [Next]_vars => [Log!LogNext]_(Log!logVars)
  BY StepsHold DEF StepHolds
<1>3. QED
  BY <1>1, <1>2, LedgerCorrect, PTL DEF Spec, ImplementsEventLog, Log!LogSpec
=============================================================================
