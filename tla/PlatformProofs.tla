--------------------------- MODULE PlatformProofs ---------------------------
(***************************************************************************)
(* Theorems about the contracts of the platform at work together, for any  *)
(* protocols, pools, earnings and transactions with admin.                 *)
(***************************************************************************)
EXTENDS Platform, FinanceProofs

-----------------------------------------------------------------------------
(* Sequences of messages *)

(***************************************************************************)
(* A sequence is one over its own elements.                                *)
(***************************************************************************)
LEMMA OverRange ==
    ASSUME NEW S, NEW s \in Seq(S)
    PROVE  s \in Seq(Range(s)) /\ Len(s) \in Nat /\ DOMAIN s = 1..Len(s)
<1>1. /\ Len(s) \in Nat /\ DOMAIN s = 1..Len(s)
      /\ s = [i \in 1..Len(s) |-> s[i]]
  OBVIOUS
<1>2. \A i \in 1..Len(s) : s[i] \in Range(s)
  BY <1>1 DEF Range
<1> HIDE DEF Range
<1>3. [i \in 1..Len(s) |-> s[i]] \in Seq(Range(s))
  BY <1>1, <1>2
<1> QED
  BY <1>1, <1>3

(***************************************************************************)
(* The concatenation of sequences of sequences, defined by recursion on    *)
(* their number, contains their elements only.                             *)
(***************************************************************************)
LEMMA FlattenSeqOver ==
    ASSUME NEW S, NEW seqs \in Seq(Seq(S))
    PROVE  FlattenSeq(seqs) \in Seq(S)
<1> DEFINE n == Len(seqs)
           step(g, i) == IF i = 1 THEN seqs[i] ELSE g[i - 1] \o seqs[i]
           G == {k \in Nat : \E g : g = [i \in 1..k |-> step(g, i)]}
           flatten == CHOOSE g : g = [i \in 1..n |-> step(g, i)]
<1>1. n \in Nat /\ \A i \in 1..n : seqs[i] \in Seq(S)
  OBVIOUS
<1>2. 0 \in G
  <2> DEFINE g == [i \in 1..0 |-> 0]
  <2>1. g = [i \in 1..0 |-> step(g, i)]
    OBVIOUS
  <2> HIDE DEF g, step
  <2>2. \E h : h = [i \in 1..0 |-> step(h, i)]
    BY <2>1
  <2> QED
    BY <2>2
<1>3. ASSUME NEW k \in Nat, k \in G PROVE k + 1 \in G
  <2> HIDE DEF step
  <2>1. PICK g : g = [i \in 1..k |-> step(g, i)]
    BY <1>3
  <2> DEFINE h == [i \in 1..(k + 1) |-> IF i \in 1..k THEN g[i] ELSE step(g, i)]
  <2>2. \A i \in 1..k : h[i] = g[i]
    OBVIOUS
  <2>3. \A i \in 1..(k + 1) : h[i] = step(g, i)
    BY <2>1
  <2>4. \A i \in 1..(k + 1) : step(h, i) = step(g, i)
    <3> TAKE i \in 1..(k + 1)
    <3>1. i # 1 => i - 1 \in 1..k
      OBVIOUS
    <3>2. i # 1 => h[i - 1] = g[i - 1]
      BY <2>2, <3>1
    <3> QED
      BY <3>2 DEF step
  <2>5. h = [i \in 1..(k + 1) |-> h[i]]
    OBVIOUS
  <2> HIDE DEF h
  <2>6. h = [i \in 1..(k + 1) |-> step(h, i)]
    BY <2>3, <2>4, <2>5
  <2>7. \E f : f = [i \in 1..(k + 1) |-> step(f, i)]
    BY <2>6
  <2> QED
    BY <2>7
<1>4. n \in G
  <2> HIDE DEF G, n
  <2> QED
    BY <1>1, <1>2, <1>3, NatSetInduction
<1>5. flatten = [i \in 1..n |-> step(flatten, i)]
  <2>1. \E g : g = [i \in 1..n |-> step(g, i)]
    BY <1>4
  <2> HIDE DEF step, n
  <2> QED
    BY <2>1
<1>6. \A i \in 1..n : flatten[i] = step(flatten, i)
  <2> HIDE DEF step, flatten, n
  <2> QED
    BY <1>5
<1>7. ASSUME n # 0 PROVE flatten[n] \in Seq(S)
  <2> DEFINE H == {k \in Nat : k \in 1..n => flatten[k] \in Seq(S)}
  <2> HIDE DEF flatten, n
  <2>1. 0 \in H
    OBVIOUS
  <2>2. ASSUME NEW k \in Nat, k \in H PROVE k + 1 \in H
    <3> SUFFICES ASSUME k + 1 \in 1..n PROVE flatten[k + 1] \in Seq(S)
      OBVIOUS
    <3>1. seqs[k + 1] \in Seq(S)
      BY <1>1
    <3>2. CASE k = 0
      <4>1. flatten[1] = seqs[1]
        BY <1>6, <3>2
      <4> QED
        BY <3>1, <3>2, <4>1
    <3>3. CASE k # 0
      <4>1. k \in 1..n /\ (k + 1) - 1 = k /\ k + 1 # 1
        BY <1>1, <3>3
      <4>2. flatten[k + 1] = flatten[k] \o seqs[k + 1]
        BY <1>6, <4>1
      <4>3. flatten[k] \in Seq(S)
        BY <2>2, <4>1
      <4> QED
        BY <3>1, <4>2, <4>3
    <3> QED
      BY <3>2, <3>3
  <2> HIDE DEF H
  <2>3. n \in H
    BY <1>1, <2>1, <2>2, NatSetInduction
  <2> QED
    BY <1>1, <1>7, <2>3 DEF H
<1>8. FlattenSeq(seqs) = IF n = 0 THEN seqs ELSE flatten[n]
  BY Zenon DEF FlattenSeq
<1>9. n = 0 => seqs \in Seq(S)
  <2> SUFFICES ASSUME n = 0 PROVE seqs \in Seq(S)
    OBVIOUS
  <2>1. seqs = << >>
    OBVIOUS
  <2> QED
    BY <2>1
<1> HIDE DEF n, flatten
<1> QED
  BY <1>7, <1>8, <1>9


(***************************************************************************)
(* A sequence of messages of one type only.                                *)
(***************************************************************************)
Only(s, type) == \E S : s \in Seq(S) /\ \A m \in S : m.type = type

\* A batch of messages of one type is a sequence, and each of them is of it.
LEMMA OnlyMeans ==
    ASSUME NEW s, NEW type, Only(s, type)
    PROVE  /\ s \in Seq(Range(s)) /\ Len(s) \in Nat /\ DOMAIN s = 1..Len(s)
           /\ \A i \in DOMAIN s : s[i].type = type
<1>1. PICK S : s \in Seq(S) /\ \A m \in S : m.type = type
  BY DEF Only
<1>2. \A i \in 1..Len(s) : s[i] \in S
  BY <1>1
<1> QED
  BY <1>1, <1>2, OverRange

(***************************************************************************)
(* A function on 1..n to messages of one type is such a sequence.          *)
(***************************************************************************)
LEMMA OnlyOfFunction ==
    ASSUME NEW n \in Nat, NEW s, NEW type, s = [i \in 1..n |-> s[i]],
           \A i \in 1..n : s[i].type = type
    PROVE  Only(s, type)
<1> DEFINE S == {s[i] : i \in 1..n}
<1>1. [i \in 1..n |-> s[i]] \in Seq(S)
  OBVIOUS
<1>2. \A m \in S : m.type = type
  OBVIOUS
<1> HIDE DEF S
<1>3. s \in Seq(S)
  BY <1>1
<1> QED
  BY <1>2, <1>3, Zenon DEF Only

(***************************************************************************)
(* Concatenation keeps the type.                                           *)
(***************************************************************************)
LEMMA OnlyConcat ==
    ASSUME NEW s, NEW t, NEW type, Only(s, type), Only(t, type)
    PROVE  Only(s \o t, type)
<1>1. PICK S : s \in Seq(S) /\ \A m \in S : m.type = type
  BY DEF Only
<1>2. PICK T : t \in Seq(T) /\ \A m \in T : m.type = type
  BY DEF Only
<1> DEFINE U == S \cup T
<1>3. s \in Seq(U)
  <2>1. /\ Len(s) \in Nat /\ s = [i \in 1..Len(s) |-> s[i]]
        /\ \A i \in 1..Len(s) : s[i] \in S
    BY <1>1
  <2>2. [i \in 1..Len(s) |-> s[i]] \in Seq(U)
    BY <2>1
  <2> QED
    BY <2>1, <2>2
<1>4. t \in Seq(U)
  <2>1. /\ Len(t) \in Nat /\ t = [i \in 1..Len(t) |-> t[i]]
        /\ \A i \in 1..Len(t) : t[i] \in T
    BY <1>2
  <2>2. [i \in 1..Len(t) |-> t[i]] \in Seq(U)
    BY <2>1
  <2> QED
    BY <2>1, <2>2
<1>5. \A m \in U : m.type = type
  BY <1>1, <1>2
<1> HIDE DEF U
<1>6. s \o t \in Seq(U)
  BY <1>3, <1>4
<1> QED
  BY <1>5, <1>6, Zenon DEF Only

(***************************************************************************)
(* So does that of any number of sequences.                                *)
(***************************************************************************)
LEMMA OnlyFlatten ==
    ASSUME NEW n \in Nat, NEW seqs, NEW type, seqs = [i \in 1..n |-> seqs[i]],
           \A i \in 1..n : Only(seqs[i], type)
    PROVE  Only(FlattenSeq(seqs), type)
<1> DEFINE S == {seqs[p[1]][p[2]] : p \in {q \in (1..n) \X Nat : q[2] \in DOMAIN seqs[q[1]]}}
<1>1. ASSUME NEW i \in 1..n PROVE seqs[i] \in Seq(S)
  <2>1. /\ seqs[i] \in Seq(Range(seqs[i])) /\ Len(seqs[i]) \in Nat
        /\ DOMAIN seqs[i] = 1..Len(seqs[i])
    BY OnlyMeans
  <2>2. seqs[i] = [j \in 1..Len(seqs[i]) |-> seqs[i][j]]
    BY <2>1
  <2>3. ASSUME NEW j \in 1..Len(seqs[i]) PROVE seqs[i][j] \in S
    <3>1. <<i, j>> \in (1..n) \X Nat /\ <<i, j>>[1] = i /\ <<i, j>>[2] = j
      BY <2>1
    <3> QED
      BY <2>1, <3>1
  <2> HIDE DEF S
  <2>4. [j \in 1..Len(seqs[i]) |-> seqs[i][j]] \in Seq(S)
    BY <2>1, <2>3
  <2> QED
    BY <2>2, <2>4
<1>2. \A m \in S : m.type = type
  <2>1. \A i \in 1..n : \A j \in DOMAIN seqs[i] : seqs[i][j].type = type
    BY OnlyMeans
  <2> QED
    BY <2>1
<1> HIDE DEF S
<1>3. [i \in 1..n |-> seqs[i]] \in Seq(Seq(S))
  BY <1>1
<1>4. seqs \in Seq(Seq(S))
  BY <1>3, Zenon
<1>5. FlattenSeq(seqs) \in Seq(S)
  BY <1>4, FlattenSeqOver
<1> QED
  BY <1>2, <1>5, Zenon DEF Only

-----------------------------------------------------------------------------
(* What the handlers of admin send *)

(***************************************************************************)
(* The kinds of contracts are sequences, and so is any selection of them.  *)
(***************************************************************************)
LEMMA KindsInSeq ==
    ASSUME NEW kinds, IsFiniteSet(DOMAIN kinds), NEW set
    PROVE  /\ \E n \in Nat : DOMAIN KindsIn(kinds, set) = 1..n
           /\ IsFiniteSet(DOMAIN KindsIn(kinds, set))
<1> DEFINE places == {i \in DOMAIN kinds : kinds[i] \in set}
<1>1. IsFiniteSet(places) /\ Cardinality(places) \in Nat
  BY FS_Subset, FS_CardinalityType
<1> HIDE DEF places
<1>2. DOMAIN Ascending(places) = 1..Cardinality(places)
  BY DEF Ascending
<1>3. DOMAIN KindsIn(kinds, set) = DOMAIN Ascending(places)
  BY DEF KindsIn, places
<1> QED
  BY <1>1, <1>2, <1>3, FS_Interval

\* There are finitely many kinds of contracts.
LEMMA KindsFinite ==
    /\ IsFiniteSet(DOMAIN PlatformKinds)
    /\ IsFiniteSet(DOMAIN ProtocolKinds)
    /\ IsFiniteSet(DOMAIN PlatformKindsWithoutAdmin)
<1>1. DOMAIN PlatformKinds = 1..3 /\ DOMAIN ProtocolKinds = 1..5
  BY DEF PlatformKinds, ProtocolKinds
<1>2. IsFiniteSet(1..3) /\ IsFiniteSet(1..5)
  <2>1. 1 \in Int /\ 3 \in Int /\ 5 \in Int
    OBVIOUS
  <2> QED
    BY <2>1, FS_Interval
<1>3. IsFiniteSet(DOMAIN PlatformKinds) /\ IsFiniteSet(DOMAIN ProtocolKinds)
  BY <1>1, <1>2, Zenon
<1> QED
  BY <1>3, KindsInSeq DEF PlatformKindsWithoutAdmin

(***************************************************************************)
(* The migrations of the contracts, what is executed past them, and what   *)
(* is executed alone.                                                      *)
(***************************************************************************)
LEMMA MigrateContractsOnly ==
    ASSUME NEW contracts, NEW kinds, IsFiniteSet(DOMAIN kinds), NEW granular,
           NEW release
    PROVE  Only(MigrateContracts(contracts, kinds, granular, release), "migrate")
<1> DEFINE paired == PairedWith(kinds, granular)
           s == MigrateContracts(contracts, kinds, granular, release)
<1>1. PICK n \in Nat : DOMAIN paired = 1..n
  BY KindsInSeq DEF PairedWith
<1>2. s = [i \in DOMAIN paired |->
             Migrate(contracts[paired[i]], granular[paired[i]].code, release)]
  BY DEF MigrateContracts
<1> HIDE DEF paired, s
<1>3. \A i \in 1..n : s[i].type = "migrate"
  BY <1>1, <1>2 DEF Migrate
<1>4. s = [i \in 1..n |-> s[i]]
  BY <1>1, <1>2
<1>5. Only(s, "migrate")
  BY <1>3, <1>4, OnlyOfFunction
<1> QED
  BY <1>5 DEF s

\* Admin's post_migrate sends nothing but messages to execute.
LEMMA PostMigrateOnly ==
    ASSUME NEW contracts, NEW kinds, IsFiniteSet(DOMAIN kinds), NEW granular
    PROVE  Only(PostMigrate(contracts, kinds, granular), "execute")
<1> DEFINE paired == PairedWith(kinds, Restrict(granular,
                       {kind \in DOMAIN granular : granular[kind].post # NoMessage}))
           s == PostMigrate(contracts, kinds, granular)
<1>1. PICK n \in Nat : DOMAIN paired = 1..n
  BY KindsInSeq DEF PairedWith
<1>2. s = [i \in DOMAIN paired |->
             Execute(contracts[paired[i]], granular[paired[i]].post)]
  BY DEF PostMigrate
<1> HIDE DEF paired, s
<1>3. \A i \in 1..n : s[i].type = "execute"
  BY <1>1, <1>2 DEF Execute
<1>4. s = [i \in 1..n |-> s[i]]
  BY <1>1, <1>2
<1>5. Only(s, "execute")
  BY <1>3, <1>4, OnlyOfFunction
<1> QED
  BY <1>5 DEF s

\* Admin's execute of some contracts sends nothing but messages to execute.
LEMMA ExecuteContractsOnly ==
    ASSUME NEW contracts, NEW kinds, IsFiniteSet(DOMAIN kinds), NEW granular
    PROVE  Only(ExecuteContractsOf(contracts, kinds, granular), "execute")
<1> DEFINE paired == PairedWith(kinds, granular)
           s == ExecuteContractsOf(contracts, kinds, granular)
<1>1. PICK n \in Nat : DOMAIN paired = 1..n
  BY KindsInSeq DEF PairedWith
<1>2. s = [i \in DOMAIN paired |-> Execute(contracts[paired[i]], granular[paired[i]])]
  BY DEF ExecuteContractsOf
<1> HIDE DEF paired, s
<1>3. \A i \in 1..n : s[i].type = "execute"
  BY <1>1, <1>2 DEF Execute
<1>4. s = [i \in 1..n |-> s[i]]
  BY <1>1, <1>2
<1>5. Only(s, "execute")
  BY <1>3, <1>4, OnlyOfFunction
<1> QED
  BY <1>5 DEF s

(***************************************************************************)
(* The same of all registered protocols.                                   *)
(***************************************************************************)
LEMMA RegisteredSeq ==
    ASSUME DOMAIN protocols \subseteq Names
    PROVE  \E n \in Nat : DOMAIN Registered = 1..n
<1>1. IsFiniteSet(DOMAIN protocols)
  BY AdminAssumption, FS_Subset
<1> QED
  BY <1>1, FS_CardinalityType DEF Registered, Ascending

\* The migrations of the platform and of all protocols are migrations only.
LEMMA MigrationBatchOnly ==
    ASSUME DOMAIN protocols \subseteq Names, NEW to_software, NEW spec
    PROVE  Only(MigrationBatch(to_software, spec), "migrate")
<1> DEFINE names == Registered
           One(n) == MigrateContracts(protocols[n], ProtocolKinds,
                         spec.protocol[n].contracts,
                         [software |-> to_software,
                          protocol |-> spec.protocol[n].release])
           seqs == [i \in DOMAIN names |-> One(names[i])]
           own == MigrateContracts(PlatformAddresses, PlatformKinds, spec.platform,
                                   [software |-> to_software])
<1>1. MigrationBatch(to_software, spec) = own \o FlattenSeq(seqs)
  BY Zenon DEF MigrationBatch, OfProtocols
<1>2. PICK n \in Nat : DOMAIN names = 1..n
  BY RegisteredSeq
<1>3. Only(own, "migrate") /\ \A p : Only(One(p), "migrate")
  BY KindsFinite, MigrateContractsOnly
<1> HIDE DEF names, One, own
<1>4. seqs = [i \in 1..n |-> seqs[i]] /\ \A i \in 1..n : Only(seqs[i], "migrate")
  BY <1>2, <1>3
<1> HIDE DEF seqs
<1>5. Only(FlattenSeq(seqs), "migrate")
  BY <1>4, OnlyFlatten
<1>6. Only(own \o FlattenSeq(seqs), "migrate")
  BY <1>3, <1>5, OnlyConcat
<1> QED
  BY <1>1, <1>6

\* What follows the migrations of all contracts is messages to execute only.
LEMMA PostMigrationBatchOnly ==
    ASSUME DOMAIN protocols \subseteq Names, NEW spec
    PROVE  Only(PostMigrationExecuteBatch(spec), "execute")
<1> DEFINE names == Registered
           One(n) == PostMigrate(protocols[n], ProtocolKinds,
                                 spec.protocol[n].contracts)
           seqs == [i \in DOMAIN names |-> One(names[i])]
           own == PostMigrate(PlatformAddresses, PlatformKinds, spec.platform)
<1>1. PostMigrationExecuteBatch(spec) = own \o FlattenSeq(seqs)
  BY Zenon DEF PostMigrationExecuteBatch, OfProtocols
<1>2. PICK n \in Nat : DOMAIN names = 1..n
  BY RegisteredSeq
<1>3. Only(own, "execute") /\ \A p : Only(One(p), "execute")
  BY KindsFinite, PostMigrateOnly
<1> HIDE DEF names, One, own
<1>4. seqs = [i \in 1..n |-> seqs[i]] /\ \A i \in 1..n : Only(seqs[i], "execute")
  BY <1>2, <1>3
<1> HIDE DEF seqs
<1>5. Only(FlattenSeq(seqs), "execute")
  BY <1>4, OnlyFlatten
<1>6. Only(own \o FlattenSeq(seqs), "execute")
  BY <1>3, <1>5, OnlyConcat
<1> QED
  BY <1>1, <1>6

\* An execution over all contracts is messages to execute only.
LEMMA ExecuteBatchOnly ==
    ASSUME DOMAIN protocols \subseteq Names, NEW spec
    PROVE  Only(ExecuteBatch(spec), "execute")
<1> DEFINE names == Registered
           One(n) == ExecuteContractsOf(protocols[n], ProtocolKinds, spec.protocol[n])
           seqs == [i \in DOMAIN names |-> One(names[i])]
           own == ExecuteContractsOf(PlatformAddresses, PlatformKindsWithoutAdmin,
                                     spec.platform)
<1>1. ExecuteBatch(spec) = own \o FlattenSeq(seqs)
  BY Zenon DEF ExecuteBatch, OfProtocols
<1>2. PICK n \in Nat : DOMAIN names = 1..n
  BY RegisteredSeq
<1>3. Only(own, "execute") /\ \A p : Only(One(p), "execute")
  BY KindsFinite, ExecuteContractsOnly
<1> HIDE DEF names, One, own
<1>4. seqs = [i \in 1..n |-> seqs[i]] /\ \A i \in 1..n : Only(seqs[i], "execute")
  BY <1>2, <1>3
<1> HIDE DEF seqs
<1>5. Only(FlattenSeq(seqs), "execute")
  BY <1>4, OnlyFlatten
<1>6. Only(own \o FlattenSeq(seqs), "execute")
  BY <1>3, <1>5, OnlyConcat
<1> QED
  BY <1>1, <1>6

-----------------------------------------------------------------------------
(* The messages of a transaction stay in order *)

(***************************************************************************)
(* What AdminInv says of the messages left.                                *)
(***************************************************************************)
InOrder(s) ==
    /\ s \in Seq(Range(s))
    /\ \A i, j \in DOMAIN s : i < j /\ s[i].type = "execute" => s[j].type # "migrate"
    /\ \A i \in DOMAIN s : s[i].type = "deregister" => Len(s) = 1

\* The inductive invariant of admin in terms of the order of its batch.
LEMMA AdminInvMeans ==
    AdminInv <=> /\ Quiet => batch = <<>>
                 /\ DOMAIN protocols \subseteq Names
                 /\ Quiet \/ DOMAIN saved.protocols \subseteq Names
                 /\ InOrder(batch)
BY Zenon DEF AdminInv, InOrder, MigratedBeforeTold, DeregistersFirst

\* A batch in order is a sequence.
LEMMA InOrderFacts ==
    ASSUME NEW s, InOrder(s)
    PROVE  Len(s) \in Nat /\ DOMAIN s = 1..Len(s)
<1>1. s \in Seq(Range(s))
  BY DEF InOrder
<1> QED
  BY <1>1, OverRange

(***************************************************************************)
(* One message, or none, is in order; migrations ahead of executions are.  *)
(***************************************************************************)
LEMMA FewInOrder ==
    ASSUME NEW m
    PROVE  InOrder(<<>>) /\ InOrder(<<m>>)
<1>1. <<>> \in Seq({m}) /\ <<m>> \in Seq({m})
  OBVIOUS
<1>2. /\ <<>> \in Seq(Range(<<>>)) /\ DOMAIN <<>> = {}
      /\ <<m>> \in Seq(Range(<<m>>)) /\ DOMAIN <<m>> = {1} /\ Len(<<m>>) = 1
  <2>1. <<>> \in Seq(Range(<<>>)) /\ <<m>> \in Seq(Range(<<m>>))
    BY <1>1, OverRange, Zenon
  <2>2. DOMAIN <<>> = {} /\ DOMAIN <<m>> = {1} /\ Len(<<m>>) = 1
    OBVIOUS
  <2> QED
    BY <2>1, <2>2, Zenon
<1>3. \A i \in {1} : \A j \in {1} : ~(i < j)
  OBVIOUS
<1>4. InOrder(<<>>)
  BY <1>2, Zenon DEF InOrder
<1> QED
  BY <1>2, <1>3, <1>4, Zenon DEF InOrder

\* Migrations merged with the messages to execute are in order.
LEMMA MergeInOrder ==
    ASSUME NEW s, NEW t, Only(s, "migrate"), Only(t, "execute")
    PROVE  InOrder(Merge(s, t)) /\ InOrder(Merge(s, t) \o <<>>) /\ InOrder(t)
<1>1. /\ s \in Seq(Range(s)) /\ Len(s) \in Nat /\ DOMAIN s = 1..Len(s)
      /\ \A i \in DOMAIN s : s[i].type = "migrate"
      /\ t \in Seq(Range(t)) /\ Len(t) \in Nat /\ DOMAIN t = 1..Len(t)
      /\ \A i \in DOMAIN t : t[i].type = "execute"
  BY OnlyMeans
<1>2. PICK S : s \in Seq(S) /\ t \in Seq(S)
  <2>1. PICK A : A = Range(s)
    OBVIOUS
  <2>2. PICK B : B = Range(t)
    OBVIOUS
  <2> DEFINE U == A \cup B
  <2>3. \A i \in 1..Len(s) : s[i] \in U
    BY <1>1, <2>1
  <2>4. \A i \in 1..Len(t) : t[i] \in U
    BY <1>1, <2>2
  <2> HIDE DEF U
  <2>5. [i \in 1..Len(s) |-> s[i]] \in Seq(U) /\ [i \in 1..Len(t) |-> t[i]] \in Seq(U)
    BY <1>1, <2>3, <2>4
  <2>6. s = [i \in 1..Len(s) |-> s[i]] /\ t = [i \in 1..Len(t) |-> t[i]]
    BY <1>1
  <2>7. s \in Seq(U) /\ t \in Seq(U)
    BY <2>5, <2>6
  <2> QED
    BY <2>7
<1> DEFINE u == s \o t
<1>3. /\ u \in Seq(S) /\ Len(u) = Len(s) + Len(t)
      /\ \A i \in 1..Len(s) : u[i] = s[i]
      /\ \A i \in 1..Len(u) : i > Len(s) => u[i] = t[i - Len(s)] /\ i - Len(s) \in 1..Len(t)
  BY <1>1, <1>2
<1> HIDE DEF u
<1>4. u \in Seq(Range(u)) /\ DOMAIN u = 1..Len(u)
  BY <1>3, OverRange
<1>5. ASSUME NEW i \in 1..Len(u)
      PROVE  u[i].type = (IF i <= Len(s) THEN "migrate" ELSE "execute")
  <2>1. CASE i <= Len(s)
    <3>1. i \in DOMAIN s
      BY <1>1, <2>1
    <3>2. u[i] = s[i]
      BY <1>1, <1>3, <3>1
    <3> QED
      BY <1>1, <2>1, <3>1, <3>2
  <2>2. CASE ~(i <= Len(s))
    <3>1. i > Len(s)
      BY <1>1, <1>3, <2>2
    <3>2. u[i] = t[i - Len(s)] /\ i - Len(s) \in DOMAIN t
      BY <1>1, <1>3, <3>1
    <3> QED
      BY <1>1, <2>2, <3>2
  <2> QED
    BY <2>1, <2>2
<1>6. /\ \A i, j \in 1..Len(u) : i < j /\ u[i].type = "execute" => u[j].type # "migrate"
      /\ \A i \in 1..Len(u) : u[i].type # "deregister"
  <2>1. ASSUME NEW i \in 1..Len(u), NEW j \in 1..Len(u), i < j,
               u[i].type = "execute"
        PROVE  u[j].type # "migrate"
    <3>1. ~(i <= Len(s))
      BY <1>5, <2>1
    <3>2. ~(j <= Len(s))
      BY <1>1, <1>3, <2>1, <3>1
    <3> QED
      BY <1>5, <3>2
  <2>2. \A i \in 1..Len(u) : u[i].type # "deregister"
    BY <1>5
  <2> QED
    BY <2>1, <2>2
<1>7. InOrder(u)
  BY <1>4, <1>6, Zenon DEF InOrder
<1>8. u \o <<>> = u
  BY <1>3
<1>9. InOrder(t)
  <2>1. /\ \A i, j \in DOMAIN t : i < j /\ t[i].type = "execute" => t[j].type # "migrate"
        /\ \A i \in DOMAIN t : t[i].type # "deregister"
    BY <1>1
  <2> QED
    BY <1>1, <2>1, Zenon DEF InOrder
<1> QED
  BY <1>7, <1>8, <1>9 DEF Merge, u

(***************************************************************************)
(* What is left once the first message is handled is in order, behind the  *)
(* reply to it as well.                                                    *)
(***************************************************************************)
LEMMA RestInOrder ==
    ASSUME NEW s, InOrder(s), s # <<>>, NEW address
    PROVE  /\ InOrder(<<>> \o Tail(s))
           /\ InOrder(<<InstantiateReply(address)>> \o Tail(s))
<1>1. /\ s \in Seq(Range(s)) /\ Len(s) \in Nat /\ DOMAIN s = 1..Len(s)
      /\ \A i, j \in DOMAIN s : i < j /\ s[i].type = "execute" => s[j].type # "migrate"
      /\ \A i \in DOMAIN s : s[i].type = "deregister" => Len(s) = 1
  BY InOrderFacts DEF InOrder
<1>2. PICK S : S = Range(s)
  OBVIOUS
<1> DEFINE t == Tail(s)
<1>3. /\ t \in Seq(S) /\ Len(t) = Len(s) - 1 /\ Len(t) \in Nat /\ DOMAIN t = 1..Len(t)
      /\ \A i \in 1..Len(t) : t[i] = s[i + 1]
  BY <1>1, <1>2
<1> HIDE DEF t
<1>4. /\ \A i, j \in 1..Len(t) : i < j /\ t[i].type = "execute" => t[j].type # "migrate"
      /\ \A i \in 1..Len(t) : t[i].type # "deregister"
  <2>1. ASSUME NEW i \in 1..Len(t)
        PROVE  i \in Nat /\ i + 1 \in DOMAIN s /\ t[i] = s[i + 1] /\ Len(s) # 1
    BY <1>1, <1>3
  <2>2. ASSUME NEW i \in 1..Len(t), NEW j \in 1..Len(t), i < j,
               t[i].type = "execute"
        PROVE  t[j].type # "migrate"
    <3>1. i + 1 < j + 1
      BY <2>1, <2>2
    <3>2. /\ i + 1 \in DOMAIN s /\ j + 1 \in DOMAIN s
          /\ t[i] = s[i + 1] /\ t[j] = s[j + 1]
      BY <2>1
    <3> HIDE DEF t
    <3>3. s[i + 1].type = "execute" => s[j + 1].type # "migrate"
      BY <1>1, <3>1, <3>2, Zenon
    <3> QED
      BY <2>2, <3>2, <3>3
  <2>3. ASSUME NEW i \in 1..Len(t), t[i].type = "deregister" PROVE FALSE
    <3>1. s[i + 1].type = "deregister" /\ i + 1 \in DOMAIN s /\ Len(s) # 1
      BY <2>1, <2>3
    <3> QED
      BY <1>1, <3>1, Zenon
  <2> QED
    BY <2>2, <2>3
<1>5. InOrder(<<>> \o t)
  <2>1. <<>> \o t = t
    BY <1>3
  <2>2. t \in Seq(Range(t))
    BY <1>3, OverRange
  <2>3. InOrder(t)
    BY <1>3, <1>4, <2>2, Zenon DEF InOrder
  <2> QED
    BY <2>1, <2>3
<1> DEFINE m == InstantiateReply(address)
           u == <<m>> \o t
<1>6. /\ u \in Seq(S \cup {m}) /\ Len(u) = Len(t) + 1 /\ u[1] = m
      /\ \A i \in 1..Len(u) : i # 1 => u[i] = t[i - 1] /\ i - 1 \in 1..Len(t)
  <2> HIDE DEF m
  <2>1. t \in Seq(S \cup {m}) /\ <<m>> \in Seq(S \cup {m}) /\ Len(<<m>>) = 1 /\ <<m>>[1] = m
    <3>1. \A i \in 1..Len(t) : t[i] \in S \cup {m}
      BY <1>3
    <3>2. [i \in 1..Len(t) |-> t[i]] \in Seq(S \cup {m}) /\ t = [i \in 1..Len(t) |-> t[i]]
      BY <1>3, <3>1
    <3> QED
      BY <3>2
  <2> QED
    BY <1>3, <2>1
<1>7. m.type = "reply"
  BY DEF InstantiateReply
<1> HIDE DEF u, m
<1>8. u \in Seq(Range(u)) /\ DOMAIN u = 1..Len(u)
  BY <1>6, OverRange
<1>9. /\ \A i, j \in 1..Len(u) : i < j /\ u[i].type = "execute" => u[j].type # "migrate"
      /\ \A i \in 1..Len(u) : u[i].type # "deregister"
  <2>1. \A i \in 1..Len(u) : i = 1 => u[i].type = "reply"
    BY <1>6, <1>7
  <2>2. ASSUME NEW i \in 1..Len(u), i # 1
        PROVE  i \in Nat /\ i - 1 \in 1..Len(t) /\ u[i] = t[i - 1]
    BY <1>6, <2>2
  <2>3. ASSUME NEW i \in 1..Len(u), NEW j \in 1..Len(u), i < j,
               u[i].type = "execute"
        PROVE  u[j].type # "migrate"
    <3>1. i # 1
      BY <2>1, <2>3
    <3>2. j # 1
      BY <1>3, <1>6, <2>3, <3>1
    <3>3. i \in Nat /\ j \in Nat
      BY <2>2, <3>1, <3>2
    <3>4. i - 1 < j - 1
      BY <2>3, <3>3
    <3>5. t[i - 1].type = "execute" => t[j - 1].type # "migrate"
      BY <1>4, <2>2, <3>1, <3>2, <3>4, Zenon
    <3> QED
      BY <2>2, <2>3, <3>1, <3>2, <3>5
  <2>4. \A i \in 1..Len(u) : u[i].type # "deregister"
    <3> TAKE i \in 1..Len(u)
    <3>1. i # 1 => t[i - 1].type # "deregister"
      BY <1>4, <2>2
    <3> QED
      BY <2>1, <2>2, <3>1
  <2> QED
    BY <2>3, <2>4
<1>10. InOrder(u)
  BY <1>8, <1>9, Zenon DEF InOrder
<1> QED
  BY <1>5, <1>10 DEF t, u, m

-----------------------------------------------------------------------------
(* The steps of admin *)

\* A transaction that starts with messages in order keeps the invariant of admin.
LEMMA BeginKeeps ==
    ASSUME AdminInv, NEW about, about # "none", NEW messages, InOrder(messages),
           Begin(about, messages), UNCHANGED protocols
    PROVE  AdminInv'
<1>1. /\ saved'.about = about /\ saved'.protocols = protocols
      /\ batch' = messages /\ protocols' = protocols
  BY DEF Begin
<1>2. DOMAIN protocols \subseteq Names
  BY AdminInvMeans
<1>3. saved' # NoTransaction
  <2>1. NoTransaction.about = "none"
    BY DEF NoTransaction
  <2> QED
    BY <1>1, <2>1
<1>4. InOrder(batch)'
  BY <1>1 DEF InOrder
<1>5. ~Quiet'
  BY <1>3 DEF Quiet
<1> QED
  BY <1>1, <1>2, <1>4, <1>5, Zenon
  DEF AdminInv, InOrder, MigratedBeforeTold, DeregistersFirst

\* So does a message handled, if what it sends and what is left are in order.
LEMMA ProceedKeeps ==
    ASSUME AdminInv, batch # <<>>, NEW messages, Proceed(messages),
           InOrder(messages \o Tail(batch)),
           DOMAIN protocols' \subseteq DOMAIN protocols
    PROVE  AdminInv'
<1>1. batch' = messages \o Tail(batch) /\ saved' = saved
  BY DEF Proceed
<1>2. ~Quiet /\ DOMAIN protocols \subseteq Names /\ DOMAIN saved.protocols \subseteq Names
  BY AdminInvMeans
<1>3. ~Quiet' /\ DOMAIN saved'.protocols \subseteq Names /\ DOMAIN protocols' \subseteq Names
  BY <1>1, <1>2 DEF Quiet
<1>4. InOrder(batch)'
  BY <1>1 DEF InOrder
<1> QED
  BY <1>3, <1>4, Zenon
  DEF AdminInv, InOrder, MigratedBeforeTold, DeregistersFirst

\* SudoMsg::MigrateContracts keeps the invariant of admin.
LEMMA MigrateAllKeeps ==
    ASSUME AdminInv, NEW software, NEW spec, MigrateAll(software, spec)
    PROVE  AdminInv'
<1> DEFINE messages == Merge(MigrationBatch(software, spec),
                             PostMigrationExecuteBatch(spec))
<1>1. DOMAIN protocols \subseteq Names
  BY AdminInvMeans
<1>2. InOrder(messages)
  BY <1>1, MigrationBatchOnly, PostMigrationBatchOnly, MergeInOrder
<1>3. Begin("migrate", messages) /\ UNCHANGED protocols
  BY Zenon DEF MigrateAll, stateVars
<1> HIDE DEF messages
<1> QED
  BY <1>2, <1>3, BeginKeeps

\* SudoMsg::ExecuteContracts keeps the invariant of admin.
LEMMA ExecuteAllKeeps ==
    ASSUME AdminInv, NEW spec, ExecuteAll(spec)
    PROVE  AdminInv'
<1> DEFINE messages == ExecuteBatch(spec)
<1>1. DOMAIN protocols \subseteq Names
  BY AdminInvMeans
<1>2. Only(<<>>, "migrate")
  <2>1. PICK S : S = {}
    OBVIOUS
  <2>2. <<>> \in Seq(S) /\ \A m \in S : m.type = "migrate"
    BY <2>1
  <2> QED
    BY <2>2, Zenon DEF Only
<1>3. InOrder(messages)
  BY <1>1, <1>2, ExecuteBatchOnly, MergeInOrder
<1>4. Begin("execute", messages) /\ UNCHANGED protocols
  BY Zenon DEF ExecuteAll, stateVars
<1> HIDE DEF messages
<1> QED
  BY <1>3, <1>4, BeginKeeps

\* ExecuteMsg::Instantiate keeps the invariant of admin.
LEMMA InstantiateKeeps ==
    ASSUME AdminInv, NEW sender, NEW to, NEW address, NEW salt,
           Instantiate(sender, to, address, salt)
    PROVE  AdminInv'
<1> DEFINE m == Instantiate2(to, salt)
<1>1. Begin("instantiate", <<m>>) /\ UNCHANGED protocols
  BY DEF Instantiate
<1> HIDE DEF m
<1> QED
  BY <1>1, FewInOrder, BeginKeeps

\* The closing of a protocol by its leaser keeps the invariant of admin.
LEMMA CloseProtocolKeeps ==
    ASSUME AdminInv, NEW leaser, NEW spec, CloseProtocol(leaser, spec)
    PROVE  AdminInv'
<1> DEFINE m == Deregister(leaser, spec)
<1>1. Begin("close", <<m>>) /\ UNCHANGED protocols
  BY DEF CloseProtocol, stateVars
<1> HIDE DEF m
<1> QED
  BY <1>1, FewInOrder, BeginKeeps

\* Handling the next message of a batch keeps the invariant of admin.
LEMMA HandleKeeps ==
    ASSUME AdminInv, AdminHandle
    PROVE  AdminInv'
<1>1. batch # <<>> /\ InOrder(batch)
  BY AdminInvMeans DEF AdminHandle
<1>2. \A address : /\ InOrder(<<>> \o Tail(batch))
                   /\ InOrder(<<InstantiateReply(address)>> \o Tail(batch))
  BY <1>1, RestInOrder
<1>3. CASE HandleInstantiate
  <2>1. PICK address : Proceed(<<InstantiateReply(address)>>) /\ UNCHANGED protocols
    BY <1>3 DEF HandleInstantiate
  <2> QED
    BY <1>1, <1>2, <2>1, ProceedKeeps
<1>4. CASE Reply \/ HandleMigrate \/ HandleExecute
  <2>1. Proceed(<<>>) /\ UNCHANGED protocols
    BY <1>4 DEF Reply, HandleMigrate, HandleExecute, stateVars
  <2> QED
    BY <1>1, <1>2, <2>1, ProceedKeeps
<1>5. CASE DeregisterProtocol
  <2> DEFINE m == Head(batch)
             name == NamesOfLeaser(m.sender)[1]
             messages == MigrateStandalone(protocols[name], VOID, m.spec)
  <2>1. /\ m.type = "deregister" /\ protocols' = RemoveProtocol(name)
        /\ Proceed(messages)
    BY <1>5, Zenon DEF DeregisterProtocol
  <2>2. DOMAIN protocols' \subseteq DOMAIN protocols
    BY <2>1 DEF RemoveProtocol
  <2>3. Len(batch) \in Nat /\ DOMAIN batch = 1..Len(batch) /\ batch \in Seq(Range(batch))
    BY <1>1, InOrderFacts DEF InOrder
  <2>4. 1 \in DOMAIN batch /\ Head(batch) = batch[1]
    BY <1>1, <2>3
  <2>5. Len(batch) = 1
    BY <1>1, <2>1, <2>4 DEF InOrder
  <2>6. Tail(batch) = <<>>
    <3>1. PICK S : batch \in Seq(S)
      BY <2>3
    <3>2. Tail(batch) \in Seq(S) /\ Len(Tail(batch)) = 0
      BY <2>5, <3>1
    <3>3. \A t \in Seq(S) : Len(t) = 0 => t = <<>>
      OBVIOUS
    <3> QED
      BY <3>2, <3>3, Zenon
  <2>7. InOrder(messages \o <<>>)
    <3>1. \A c, s : /\ Only(MigrateContracts(c, ProtocolKinds, s, VOID), "migrate")
                    /\ Only(PostMigrate(c, ProtocolKinds, s), "execute")
      BY KindsFinite, MigrateContractsOnly, PostMigrateOnly
    <3>2. \A c, s : InOrder(MigrateStandalone(c, VOID, s) \o <<>>)
      BY <3>1, MergeInOrder DEF MigrateStandalone
    <3> QED
      BY <3>2
  <2> HIDE DEF messages
  <2> QED
    BY <1>1, <2>1, <2>2, <2>6, <2>7, ProceedKeeps
<1> QED
  BY <1>3, <1>4, <1>5 DEF AdminHandle

(***************************************************************************)
(* Each step of admin keeps its invariant.                                 *)
(***************************************************************************)
LEMMA AdminKeeps ==
    ASSUME AdminInv, AdminNext
    PROVE  AdminInv'
<1>0. /\ Quiet => batch = <<>>
      /\ DOMAIN protocols \subseteq Names
      /\ Quiet \/ DOMAIN saved.protocols \subseteq Names
  BY AdminInvMeans
<1>1. ASSUME NEW account \in Accounts, ChangeDexAdmin(account) PROVE AdminInv'
  <2>1. UNCHANGED <<protocols, batch, saved>>
    BY <1>1 DEF ChangeDexAdmin
  <2> QED
    BY <2>1 DEF AdminInv, Quiet, MigratedBeforeTold, DeregistersFirst
<1>2. ASSUME NEW r \in Registrations, RegisterProtocol(r.name, r.contracts)
      PROVE  AdminInv'
  <2>1. UNCHANGED <<batch, saved>>
    BY <1>2 DEF RegisterProtocol
  <2>2. DOMAIN protocols' = DOMAIN protocols \cup {r.name}
    BY <1>2 DEF RegisterProtocol, AddProtocol
  <2>3. r.name \in Names
    BY AdminAssumption
  <2>4. DOMAIN protocols' \subseteq Names
    BY <1>0, <2>2, <2>3
  <2> QED
    BY <2>1, <2>4 DEF AdminInv, Quiet, MigratedBeforeTold, DeregistersFirst
<1>3. CASE Fail
  <2>1. /\ batch # <<>> /\ protocols' = saved.protocols /\ batch' = <<>>
        /\ saved' = NoTransaction
    BY <1>3 DEF Fail, Abort
  <2>2. Quiet' /\ DOMAIN protocols' \subseteq Names
    BY <1>0, <2>1 DEF Quiet
  <2>3. InOrder(batch)'
    BY <2>1, FewInOrder DEF InOrder
  <2> QED
    BY <2>1, <2>2, <2>3, Zenon
    DEF AdminInv, InOrder, MigratedBeforeTold, DeregistersFirst
<1>4. CASE Commit
  <2>1. protocols' = protocols /\ batch' = batch /\ batch = <<>> /\ saved' = NoTransaction
    BY <1>4 DEF Commit, stateVars
  <2>2. Quiet' /\ DOMAIN protocols' \subseteq Names
    BY <1>0, <2>1 DEF Quiet
  <2>3. batch' = <<>>
    BY <2>1
  <2>4. InOrder(batch)'
    BY <2>3, FewInOrder DEF InOrder
  <2> QED
    BY <2>2, <2>3, <2>4, Zenon
    DEF AdminInv, InOrder, MigratedBeforeTold, DeregistersFirst
<1> QED
  BY <1>1, <1>2, <1>3, <1>4, MigrateAllKeeps, ExecuteAllKeeps, InstantiateKeeps,
     CloseProtocolKeeps, HandleKeeps, Zenon
  DEF AdminNext, AdminRequest

-----------------------------------------------------------------------------
(* Rewards *)

(***************************************************************************)
(* Where the rest of the terms are zeros, the sum is over a subset.        *)
(***************************************************************************)
LEMMA SumRestricted ==
    ASSUME NEW S, IsFiniteSet(S), NEW D \in SUBSET S, NEW g,
           \A x \in S : g[x] \in Int, \A x \in S \ D : g[x] = 0
    PROVE  SumFunctionOnSet(g, S) = SumFunctionOnSet(g, D)
<1> DEFINE Sum(T) == SumFunctionOnSet(g, T)
           Good == {T \in SUBSET S : Sum(T) = Sum(T \cap D)}
<1>1. {} \in Good
  <2>1. {} \cap D = {}
    OBVIOUS
  <2> QED
    BY <2>1, Zenon
<1>2. ASSUME NEW T \in SUBSET S, T # {}, \A x \in T : T \ {x} \in Good
      PROVE  T \in Good
  <2>1. PICK a \in T : TRUE
    BY <1>2
  <2>2. IsFiniteSet(T) /\ IsFiniteSet(T \cap D)
    BY FS_Subset
  <2>3. Sum(T) = g[a] + Sum(T \ {a})
    BY <2>2, SumRemove
  <2>4. Sum(T \ {a}) = Sum((T \ {a}) \cap D)
    BY <1>2
  <2>5. CASE a \in D
    <3>1. a \in T \cap D /\ (T \ {a}) \cap D = (T \cap D) \ {a}
      BY <2>5
    <3>2. Sum(T \cap D) = g[a] + Sum((T \cap D) \ {a})
      BY <2>2, <3>1, SumRemove
    <3>3. Sum(T) = Sum(T \cap D)
      BY <2>3, <2>4, <3>1, <3>2, Zenon
    <3> QED
      BY <3>3
  <2>6. CASE a \notin D
    <3>1. (T \ {a}) \cap D = T \cap D
      BY <2>6
    <3>2. g[a] = 0 /\ Sum(T \cap D) \in Int
      BY <2>2, <2>6, SumInt
    <3>3. Sum(T \ {a}) = Sum(T \cap D)
      BY <2>4, <3>1, Zenon
    <3> HIDE DEF Sum
    <3>4. Sum(T) = Sum(T \cap D)
      BY <2>3, <3>2, <3>3
    <3> QED
      BY <3>4
  <2> QED
    BY <2>5, <2>6
<1>3. \A T \in SUBSET S : T \in Good
  <2> HIDE DEF Good
  <2> QED
    BY <1>1, <1>2, SubsetInduction
<1>4. S \in Good /\ S \cap D = D
  <2>1. S \cap D = D
    OBVIOUS
  <2> HIDE DEF Good
  <2> QED
    BY <1>3, <2>1
<1>5. Sum(S) = Sum(S \cap D)
  BY <1>4
<1> QED
  BY <1>4, <1>5, Zenon

(***************************************************************************)
(* The rate is that of a bar: there is one that any total value reaches,   *)
(* hence one that is the last of those.                                    *)
(***************************************************************************)
LEMMA AprNat ==
    ASSUME NEW bars \in RewardScales, TryFromBars(bars), NEW total \in Nat
    PROVE  GetApr(bars, total) \in Nat
<1> DEFINE upTo == BarsUpTo(bars, total)
           gaps == {total - bars[i].tvl : i \in upTo}
           last == CHOOSE i \in upTo : \A j \in upTo : bars[j].tvl <= bars[i].tvl
<1>1. \A i \in DOMAIN bars : bars[i].tvl \in Nat /\ bars[i].apr \in Nat
  <2>1. PICK Bar : Bar = [tvl : Nat, apr : Nat]
    OBVIOUS
  <2>2. bars \in Seq(Bar)
    BY <2>1, TreasuryAssumption
  <2>3. \A i \in DOMAIN bars : bars[i] \in Bar
    BY <2>2
  <2> QED
    BY <2>1, <2>3
<1>2. \A i \in upTo : i \in DOMAIN bars /\ bars[i].tvl <= total
  <2> SUFFICES ASSUME NEW i \in DOMAIN bars, AsCoin(bars[i].tvl) <= total
               PROVE  bars[i].tvl <= total
    BY DEF BarsUpTo
  <2>1. \A t \in Nat : t <= t * SCALE_FACTOR
    BY TreasuryAssumption
  <2>2. bars[i].tvl * SCALE_FACTOR \in Nat
    BY <1>1, TreasuryAssumption
  <2>3. bars[i].tvl \in Nat /\ bars[i].tvl * SCALE_FACTOR <= total
    BY <1>1 DEF AsCoin
  <2>4. bars[i].tvl <= bars[i].tvl * SCALE_FACTOR
    BY <2>1, <2>3
  <2> QED
    BY <2>2, <2>3, <2>4
<1>3. upTo # {}
  <2>1. PICK i \in DOMAIN bars : bars[i].tvl = 0
    BY DEF TryFromBars
  <2>2. AsCoin(0) = 0
    BY TreasuryAssumption DEF AsCoin
  <2>3. i \in upTo
    BY <2>1, <2>2 DEF BarsUpTo
  <2> QED
    BY <2>3
<1> HIDE DEF upTo
<1>4. gaps \in SUBSET Nat /\ gaps # {}
  BY <1>1, <1>2, <1>3
<1>5. PICK gap \in gaps : \A other \in gaps : gap <= other
  <2> HIDE DEF gaps
  <2> QED
    BY <1>4, NatMinimum
<1>6. PICK i \in upTo : gap = total - bars[i].tvl
  BY <1>5
<1>7. \A j \in upTo : bars[j].tvl <= bars[i].tvl
  <2> TAKE j \in upTo
  <2>1. total - bars[i].tvl <= total - bars[j].tvl
    BY <1>5, <1>6
  <2>2. bars[i].tvl \in Nat /\ bars[j].tvl \in Nat
    BY <1>1, <1>2
  <2> QED
    BY <2>1, <2>2
<1>8. last \in upTo
  BY <1>7, Zenon
<1>9. GetApr(bars, total) = bars[last].apr
  BY Zenon DEF GetApr, upTo
<1> HIDE DEF last
<1> QED
  BY <1>1, <1>2, <1>8, <1>9

(***************************************************************************)
(* The reward of a pool is a natural.                                      *)
(***************************************************************************)
LEMMA PoolRewardNat ==
    ASSUME NEW p, p.balance \in Nat, p.nls.amount \in Nat \ {0},
           p.nls.quote \in Nat \ {0}, NEW apr \in Nat, NEW period \in Nat
    PROVE  PoolReward(p, apr, period) \in Nat
<1>1. PercentOf(apr, p.balance) \in Nat
  BY PercentOfNat
<1> DEFINE interest == InterestOver(PercentOf(apr, p.balance), period)
<1>2. interest \in Nat
  BY <1>1, SafeMulNat, YearAssumption DEF InterestOver
<1> HIDE DEF interest
<1>3. Inv(p.nls).quote = p.nls.amount /\ Inv(p.nls).amount = p.nls.quote
  BY DEF Inv, Price
<1>4. Total(interest, Inv(p.nls)) = SafeMul(p.nls.amount, interest, p.nls.quote)
  BY <1>3 DEF Total
<1>5. SafeMul(p.nls.amount, interest, p.nls.quote) \in Nat
  BY <1>2, SafeMulNat
<1> QED
  BY <1>4, <1>5 DEF PoolReward, interest

(***************************************************************************)
(* So is that of each registered protocol, at the rate that they all give. *)
(***************************************************************************)
LEMMA RewardsNat ==
    ASSUME DOMAIN protocols \subseteq Names, PlatformTypes
    PROVE  LET rewards == Distribute(RegisteredPools,
                              AprOf(treasury_config.tvl_to_apr, RegisteredPools),
                              now - last_dispatch)
           IN  /\ DOMAIN rewards = DOMAIN protocols
               /\ \A n \in DOMAIN protocols : rewards[n] \in Nat
<1> DEFINE pools == RegisteredPools
           apr == AprOf(treasury_config.tvl_to_apr, pools)
           period == now - last_dispatch
           balances == [p \in DOMAIN pools |-> pools[p].balance]
<1>1. DOMAIN pools = DOMAIN protocols
  BY DEF RegisteredPools
<1>2. IsFiniteSet(DOMAIN protocols)
  BY AdminAssumption, FS_Subset
<1>3. ASSUME NEW n \in DOMAIN protocols
      PROVE  /\ pools[n].balance \in Nat /\ pools[n].nls.amount \in Nat \ {0}
             /\ pools[n].nls.quote \in Nat \ {0}
  <2>1. pool[n] \in PoolType
    BY DEF PlatformTypes
  <2>2. pools[n] = [pool[n] EXCEPT !.answers = @ /\ Answers(n)]
    BY DEF RegisteredPools
  <2>3. pools[n].balance = pool[n].balance /\ pools[n].nls = pool[n].nls
    BY <2>1, <2>2 DEF PoolType
  <2> QED
    BY <2>1, <2>3 DEF PoolType
<1>4. period \in Nat
  BY DEF PlatformTypes, START
<1> HIDE DEF pools, period
<1>5. TotalValue(pools) \in Nat
  <2>1. DOMAIN balances = DOMAIN protocols /\ \A n \in DOMAIN protocols : balances[n] \in Nat
    BY <1>1, <1>3
  <2>2. TotalValue(pools) = SumFunctionOnSet(balances, DOMAIN balances)
    BY Zenon DEF TotalValue, SumFunction
  <2> HIDE DEF balances
  <2>3. SumFunctionOnSet(balances, DOMAIN protocols) \in Nat
    BY <1>2, <2>1, SumNat
  <2> QED
    BY <2>1, <2>2, <2>3
<1>6. /\ treasury_config.tvl_to_apr \in RewardScales
      /\ TryFromBars(treasury_config.tvl_to_apr)
  BY DEF PlatformTypes
<1>7. apr \in Nat
  BY <1>5, <1>6, AprNat DEF AprOf
<1> HIDE DEF apr
<1>8. /\ DOMAIN Distribute(pools, apr, period) = DOMAIN protocols
      /\ \A n \in DOMAIN protocols :
           Distribute(pools, apr, period)[n] = PoolReward(pools[n], apr, period)
  BY <1>1 DEF Distribute
<1>9. \A n \in DOMAIN protocols : PoolReward(pools[n], apr, period) \in Nat
  BY <1>3, <1>4, <1>7, PoolRewardNat
<1> QED
  BY <1>8, <1>9 DEF pools, apr, period

-----------------------------------------------------------------------------
(* The steps of the platform *)

(***************************************************************************)
(* The parts of the invariant next to the types and that of admin.         *)
(***************************************************************************)
AbsentFromZero == \A n \in Names \ DOMAIN protocols : present[n] = 0

Books == AbsentFromZero /\ NlsAccountedFor /\ EachMomentRewardedOnce

\* The invariant of admin depends on its own state only.
LEMMA AdminSame ==
    ASSUME AdminInv, UNCHANGED <<protocols, batch, saved>>
    PROVE  AdminInv'
BY DEF AdminInv, Quiet, MigratedBeforeTold, DeregistersFirst

\* A dispatch of rewards moves NLS from treasury to the pools, and counts the
\* time since the previous one once.
LEMMA DispatchKeeps ==
    ASSUME PlatformInv, Dispatch
    PROVE  PlatformTypes' /\ Books'
<1> DEFINE D == DOMAIN protocols
           rewards == Distribute(RegisteredPools,
                          AprOf(treasury_config.tvl_to_apr, RegisteredPools),
                          now - last_dispatch)
           extra == [n \in Names |-> IF n \in D THEN rewards[n] ELSE 0]
<1>1. /\ PlatformTypes /\ AbsentFromZero /\ NlsAccountedFor /\ EachMomentRewardedOnce
      /\ D \subseteq Names
  BY AdminInvMeans DEF PlatformInv, AbsentFromZero
<1>2. DOMAIN rewards = D /\ \A n \in D : rewards[n] \in Nat
  BY <1>1, RewardsNat
<1>3. /\ TryDispatch(TIMEALARMS, now, RegisteredPools, rewards)
      /\ rewarded' = [n \in Names |-> rewarded[n] + IF n \in D THEN rewards[n] ELSE 0]
      /\ span' = [n \in Names |-> span[n] + IF n \in D THEN now - last_dispatch ELSE 0]
      /\ UNCHANGED <<adminVars, profitVars, now, pool, present, earned>>
  BY Zenon DEF Dispatch
<1> HIDE DEF rewards
<1>4. /\ last_dispatch' = now /\ Distributed(rewards) <= treasury_nls
      /\ treasury_nls' = treasury_nls - Distributed(rewards)
      /\ treasury_config' = treasury_config
  BY <1>3 DEF TryDispatch, UpdateLog
<1>5. UNCHANGED <<protocols, profit_nls, proceeds, locked, tipped, now, pool, present,
                  earned>>
  BY <1>3 DEF adminVars, stateVars, profitVars, tips
<1>6. /\ treasury_nls \in Nat /\ rewarded \in [Names -> Nat] /\ span \in [Names -> Nat]
      /\ now \in Nat /\ last_dispatch \in START .. now /\ now - last_dispatch \in Nat
  BY <1>1 DEF PlatformTypes, START
<1>7. IsFiniteSet(Names) /\ IsFiniteSet(D)
  BY <1>1, AdminAssumption, FS_Subset
<1>8. Distributed(rewards) \in Nat
  <2>1. Distributed(rewards) = SumFunctionOnSet(rewards, DOMAIN rewards)
    BY Zenon DEF Distributed, SumFunction
  <2> QED
    BY <1>2, <1>7, <2>1, SumNat
<1>9. \A n \in Names : extra[n] \in Nat
  BY <1>2
<1>10. Distributed(rewarded') = Distributed(rewarded) + Distributed(rewards)
  <2>1. /\ DOMAIN rewarded = Names /\ DOMAIN rewarded' = Names
        /\ \A n \in Names : rewarded'[n] = rewarded[n] + extra[n] /\ rewarded[n] \in Int
    BY <1>3, <1>6
  <2>2. /\ \A n \in Names \ D : extra[n] = 0
        /\ \A n \in D : extra[n] = rewards[n]
    BY <1>1
  <2> HIDE DEF extra, D
  <2>3. SumFunctionOnSet(rewarded', Names) =
            SumFunctionOnSet(rewarded, Names) + SumFunctionOnSet(extra, Names)
    BY <1>7, <1>9, <2>1, SumPlus
  <2>4. SumFunctionOnSet(extra, Names) = SumFunctionOnSet(extra, D)
    BY <1>1, <1>7, <1>9, <2>2, SumRestricted
  <2>5. SumFunctionOnSet(extra, D) = SumFunctionOnSet(rewards, D)
    BY <1>7, <2>2, SumSame
  <2>6. /\ Distributed(rewarded') = SumFunctionOnSet(rewarded', Names)
        /\ Distributed(rewarded) = SumFunctionOnSet(rewarded, Names)
        /\ Distributed(rewards) = SumFunctionOnSet(rewards, D)
    BY <1>2, <2>1, Zenon DEF Distributed, SumFunction
  <2> QED
    BY <2>3, <2>4, <2>5, <2>6, Zenon
<1>11. rewarded' \in [Names -> Nat] /\ span' \in [Names -> Nat]
  BY <1>2, <1>3, <1>6
<1>12. PlatformTypes'
  <2>1. treasury_nls' \in Nat
    BY <1>4, <1>6, <1>8
  <2>2. now' \in Nat /\ last_dispatch' \in START .. now'
    BY <1>4, <1>5, <1>6 DEF START
  <2>3. UNCHANGED <<treasury_config, profit_nls, proceeds, locked, tipped, pool, present,
                    earned>>
    BY <1>4, <1>5
  <2> QED
    BY <1>1, <1>11, <2>1, <2>2, <2>3 DEF PlatformTypes
<1>13. NlsAccountedFor'
  <2>1. Distributed(rewarded) \in Nat
    <3>1. DOMAIN rewarded = Names /\ \A n \in Names : rewarded[n] \in Nat
      BY <1>6
    <3>2. Distributed(rewarded) = SumFunctionOnSet(rewarded, Names)
      BY <3>1, Zenon DEF Distributed, SumFunction
    <3> QED
      BY <1>7, <3>1, <3>2, SumNat
  <2>2. /\ profit_nls \in Nat /\ proceeds.coming \in Nat
        /\ locked \in Nat /\ tipped \in Nat
    BY <1>1 DEF PlatformTypes
  <2> QED
    BY <1>1, <1>4, <1>5, <1>6, <1>8, <1>10, <2>1, <2>2 DEF NlsAccountedFor
<1>14. EachMomentRewardedOnce'
  <2> SUFFICES ASSUME NEW n \in Names
               PROVE  /\ span'[n] <= last_dispatch' - START
                      /\ n \in D => span'[n] >= present[n] - (now - last_dispatch')
    BY <1>5 DEF EachMomentRewardedOnce
  <2>1. /\ span[n] <= last_dispatch - START
        /\ n \in D => span[n] >= present[n] - (now - last_dispatch)
    BY <1>1 DEF EachMomentRewardedOnce
  <2>2. span[n] \in Nat /\ present[n] \in Nat
    BY <1>1 DEF PlatformTypes
  <2>3. span'[n] = span[n] + IF n \in D THEN now - last_dispatch ELSE 0
    BY <1>3
  <2> HIDE DEF D
  <2> QED
    BY <1>4, <1>6, <2>1, <2>2, <2>3 DEF START
<1>15. AbsentFromZero'
  BY <1>1, <1>5 DEF AbsentFromZero
<1> QED
  BY <1>12, <1>13, <1>14, <1>15 DEF Books


\* A change of the configuration of treasury moves no NLS.
LEMMA TreasurySudoKeeps ==
    ASSUME PlatformInv, TreasurySudo
    PROVE  PlatformTypes' /\ Books'
<1>1. PlatformTypes /\ AbsentFromZero /\ NlsAccountedFor /\ EachMomentRewardedOnce
  BY DEF PlatformInv, AbsentFromZero
<1>2. UNCHANGED <<protocols, profit_nls, proceeds, locked, tipped, platformVars,
                  last_dispatch, treasury_nls>>
  BY DEF TreasurySudo, UpdateCadenceHours, UpdateTvlToApr, adminVars, stateVars,
         profitVars, tips
<1>3. treasury_config' \in [cadence : Cadences,
                            tvl_to_apr : {bars \in RewardScales : TryFromBars(bars)}]
  <2>1. CASE \E cadence \in Cadences : UpdateCadenceHours(cadence)
    BY <1>1, <2>1 DEF UpdateCadenceHours, PlatformTypes
  <2>2. CASE \E bars \in RewardScales : UpdateTvlToApr(bars)
    BY <1>1, <2>2 DEF UpdateTvlToApr, PlatformTypes
  <2> QED
    BY <2>1, <2>2 DEF TreasurySudo
<1>4. PlatformTypes'
  BY <1>1, <1>2, <1>3 DEF PlatformTypes, platformVars
<1>5. AbsentFromZero' /\ NlsAccountedFor' /\ EachMomentRewardedOnce'
  BY <1>1, <1>2 DEF AbsentFromZero, NlsAccountedFor, EachMomentRewardedOnce, platformVars
<1> QED
  BY <1>4, <1>5 DEF Books

(***************************************************************************)
(* A step of profit leaves the registry, the time and the rewards alone,   *)
(* and its NLS is either accounted for still, or earned.                   *)
(***************************************************************************)
LEMMA ProfitStepKeeps ==
    ASSUME PlatformInv, ProfitStep
    PROVE  PlatformTypes' /\ Books'
<1>1. PlatformTypes /\ AbsentFromZero /\ NlsAccountedFor /\ EachMomentRewardedOnce
  BY DEF PlatformInv, AbsentFromZero
<1>2. UNCHANGED <<protocols, now, pool, rewarded, span, present>>
  BY DEF ProfitStep, adminVars, stateVars
<1>3. UNCHANGED <<treasury_config, last_dispatch>>
  BY DEF ProfitStep, ProfitSends, ProfitEarns, ProfitSwaps, ProfitAlone, treasuryVars
<1>4. Distributed(rewarded) \in Nat
  <2>1. IsFiniteSet(Names)
    BY AdminAssumption
  <2>2. DOMAIN rewarded = Names /\ \A n \in Names : rewarded[n] \in Nat
    BY <1>1 DEF PlatformTypes
  <2>3. Distributed(rewarded) = SumFunctionOnSet(rewarded, Names)
    BY <2>2, Zenon DEF Distributed, SumFunction
  <2> QED
    BY <2>1, <2>2, <2>3, SumNat
<1>5. /\ profit_nls \in Nat /\ treasury_nls \in Nat /\ earned \in Nat
      /\ proceeds \in [due : Nat, coming : Nat] /\ proceeds.coming \in Nat
      /\ locked \in Nat /\ tipped \in Nat
      /\ profit_nls + locked + tipped + proceeds.coming + treasury_nls
             + Distributed(rewarded) = earned
  BY <1>1 DEF PlatformTypes, NlsAccountedFor
<1>0. ACK_TIP \in Nat /\ TIMEOUT_TIP \in Nat /\ IbcFee = ACK_TIP + TIMEOUT_TIP
  BY ProfitAssumption DEF IbcFee
<1> DEFINE Balanced ==
             /\ profit_nls' \in Nat /\ treasury_nls' \in Nat /\ earned' \in Nat
             /\ proceeds' \in [due : Nat, coming : Nat]
             /\ locked' \in Nat /\ tipped' \in Nat
             /\ profit_nls' + locked' + tipped' + proceeds'.coming + treasury_nls'
                    + Distributed(rewarded) = earned'
<1>6. ASSUME ProfitSends PROVE Balanced
  <2>1. PICK sent \in 0 .. MaxEarned :
          /\ SendNls(now, sent) \/ FinishBuyBack(now, sent)
          /\ treasury_nls' = treasury_nls + sent
    BY <1>6, Zenon DEF ProfitSends, Sends
  <2>2. /\ sent = TransferNls(profit_nls) /\ profit_nls' = profit_nls - sent
        /\ earned' = earned /\ locked' = locked /\ tipped' = tipped
        /\ proceeds' = proceeds \/ proceeds' = [proceeds EXCEPT !.due = 0]
    BY <1>6, <2>1 DEF ProfitSends, SendNls, FinishBuyBack, tips
  <2>3. sent \in Nat /\ sent <= profit_nls
    BY <1>5, <2>2, ProfitAssumption DEF TransferNls
  <2>4. proceeds' \in [due : Nat, coming : Nat] /\ proceeds'.coming = proceeds.coming
    BY <1>5, <2>2
  <2>5. profit_nls' \in Nat /\ treasury_nls' \in Nat
    BY <1>5, <2>1, <2>2, <2>3
  <2> QED
    BY <1>4, <1>5, <2>1, <2>2, <2>3, <2>4, <2>5
<1>7. ASSUME ProfitEarns PROVE Balanced
  <2>1. PICK got \in Earnings :
          /\ profit_nls' = profit_nls + got.nls /\ earned' = earned + got.nls
          /\ UNCHANGED <<proceeds, locked, tipped, treasury_nls>>
    BY <1>7 DEF ProfitEarns, Earn, treasuryVars, tips
  <2>2. got.nls \in Nat
    BY PlatformAssumption
  <2> QED
    BY <1>4, <1>5, <2>1, <2>2
<1>8. ASSUME ProfitSwaps PROVE Balanced
  <2>1. PICK amount \in Nat :
          /\ proceeds = NoProceeds
          /\ proceeds' = [due |-> amount, coming |-> amount]
          /\ earned' = earned + amount
          /\ SubmitPacket
          /\ treasury_nls' = treasury_nls
    BY <1>8, PlatformAssumption DEF ProfitSwaps, SwappedBack, treasuryVars
  <2>2. /\ proceeds.coming = 0 /\ proceeds'.coming = amount
        /\ proceeds' \in [due : Nat, coming : Nat]
    BY <2>1 DEF NoProceeds
  <2>3. /\ IbcFee \in Nat /\ profit_nls >= IbcFee /\ tipped' = tipped
        /\ profit_nls' = profit_nls - IbcFee /\ locked' = locked + IbcFee
    BY <1>0, <2>1 DEF SubmitPacket
  <2>4. treasury_nls' = treasury_nls /\ earned' = earned + amount
    BY <2>1
  <2> QED
    BY <1>4, <1>5, <2>2, <2>3, <2>4
<1>9. ASSUME ProfitAlone PROVE Balanced
  <2>1. UNCHANGED <<treasury_nls, earned>>
    BY <1>9 DEF ProfitAlone, treasuryVars
  <2>2. CASE ProceedsArrive
    <3>1. /\ profit_nls' = profit_nls + proceeds.coming
          /\ proceeds' = [proceeds EXCEPT !.coming = 0]
          /\ UNCHANGED <<locked, tipped>>
      BY <2>2 DEF ProceedsArrive, tips
    <3>2. proceeds' \in [due : Nat, coming : Nat] /\ proceeds'.coming = 0
      BY <1>5, <3>1
    <3> QED
      BY <1>4, <1>5, <2>1, <3>1, <3>2
  <2>3. CASE OnOpenIca(now) \/ \E cadence \in ProfitCadences : TryUpdateConfig(now, cadence)
    <3>1. UNCHANGED <<profit_nls, proceeds, locked, tipped>>
      BY <2>3 DEF OnOpenIca, TryUpdateConfig, tips
    <3> QED
      BY <1>5, <2>1, <3>1
  <2>4. CASE TryEnterBuyBack(now) \/ NextPacket
    <3>1. SubmitPacket /\ proceeds' = proceeds
      BY <2>4 DEF TryEnterBuyBack, NextPacket
    <3>2. /\ profit_nls' \in Nat /\ locked' \in Nat /\ tipped' = tipped
          /\ profit_nls' + locked' = profit_nls + locked
      BY <1>5, <1>0, <3>1 DEF SubmitPacket
    <3> QED
      BY <1>4, <1>5, <2>1, <3>1, <3>2
  <2>5. ASSUME NEW tip \in {ACK_TIP, TIMEOUT_TIP}, PacketAnswered(tip) PROVE Balanced
    <3>1. /\ locked >= IbcFee /\ locked' = locked - IbcFee /\ tipped' = tipped + tip
          /\ profit_nls' = profit_nls + (IbcFee - tip) /\ proceeds' = proceeds
      BY <2>5 DEF PacketAnswered
    <3>2. tip \in Nat /\ IbcFee \in Nat /\ tip <= IbcFee
      BY <1>0
    <3>3. /\ profit_nls' \in Nat /\ locked' \in Nat /\ tipped' \in Nat
          /\ profit_nls' + locked' + tipped' = profit_nls + locked + tipped
      BY <1>5, <3>1, <3>2
    <3> QED
      BY <1>4, <1>5, <2>1, <3>1, <3>3
  <2> QED
    BY <1>9, <2>2, <2>3, <2>4, <2>5 DEF ProfitAlone
<1>10. Balanced
  BY <1>6, <1>7, <1>8, <1>9 DEF ProfitStep
<1> HIDE DEF Balanced
<1>11. PlatformTypes'
  BY <1>1, <1>2, <1>3, <1>10 DEF PlatformTypes, Balanced
<1>12. NlsAccountedFor'
  BY <1>2, <1>10 DEF NlsAccountedFor, Balanced
<1>13. AbsentFromZero' /\ EachMomentRewardedOnce'
  BY <1>1, <1>2, <1>3 DEF AbsentFromZero, EachMomentRewardedOnce
<1> QED
  BY <1>11, <1>12, <1>13 DEF Books

\* A step of admin moves no NLS; a protocol that has left counts from zero.
LEMMA AdminStepKeeps ==
    ASSUME PlatformInv, AdminStep
    PROVE  PlatformTypes' /\ Books'
<1>1. PlatformTypes /\ AbsentFromZero /\ NlsAccountedFor /\ EachMomentRewardedOnce
  BY DEF PlatformInv, AbsentFromZero
<1>2. /\ present' = [n \in Names |-> IF n \in DOMAIN protocols' THEN present[n] ELSE 0]
      /\ UNCHANGED <<treasuryVars, profitVars, now, pool, rewarded, span, earned>>
  BY DEF AdminStep
<1>3. UNCHANGED <<treasury_config, last_dispatch, treasury_nls, profit_nls, proceeds,
                  locked, tipped>>
  BY <1>2 DEF treasuryVars, profitVars, tips
<1>4. present' \in [Names -> Nat]
  BY <1>1, <1>2 DEF PlatformTypes
<1>5. PlatformTypes'
  BY <1>1, <1>2, <1>3, <1>4 DEF PlatformTypes
<1>6. NlsAccountedFor'
  BY <1>1, <1>2, <1>3 DEF NlsAccountedFor
<1>7. AbsentFromZero'
  BY <1>2 DEF AbsentFromZero
<1>8. EachMomentRewardedOnce'
  <2> SUFFICES ASSUME NEW n \in Names
               PROVE  /\ span[n] <= last_dispatch - START
                      /\ n \in DOMAIN protocols' =>
                           span[n] >= present'[n] - (now - last_dispatch)
    BY <1>2, <1>3 DEF EachMomentRewardedOnce
  <2>1. /\ span[n] <= last_dispatch - START
        /\ n \in DOMAIN protocols => span[n] >= present[n] - (now - last_dispatch)
        /\ n \notin DOMAIN protocols => present[n] = 0
    BY <1>1 DEF EachMomentRewardedOnce, AbsentFromZero
  <2>2. /\ span[n] \in Nat /\ now \in Nat /\ last_dispatch \in Nat
        /\ last_dispatch <= now
    BY <1>1 DEF PlatformTypes, START
  <2>3. n \in DOMAIN protocols' => present'[n] = present[n]
    BY <1>2
  <2> QED
    BY <2>1, <2>2, <2>3
<1> QED
  BY <1>5, <1>6, <1>7, <1>8 DEF Books

\* Time adds a moment to be rewarded to each registered protocol.
LEMMA TickKeeps ==
    ASSUME PlatformInv, Tick
    PROVE  PlatformTypes' /\ Books'
<1>1. PlatformTypes /\ AbsentFromZero /\ NlsAccountedFor /\ EachMomentRewardedOnce
  BY DEF PlatformInv, AbsentFromZero
<1>2. /\ now' = now + 1
      /\ present' = [n \in Names |-> IF n \in DOMAIN protocols THEN present[n] + 1 ELSE 0]
      /\ UNCHANGED <<adminVars, treasuryVars, profitVars, rewarded, span, earned>>
  BY DEF Tick
<1>3. UNCHANGED <<protocols, treasury_config, last_dispatch, treasury_nls, profit_nls,
                  proceeds, locked, tipped>>
  BY <1>2 DEF adminVars, stateVars, treasuryVars, profitVars, tips
<1>4. pool' \in [Names -> PoolType]
  <2>1. PICK n \in Names : \E answer \in Pools[n] : pool' = [pool EXCEPT ![n] = answer]
    BY DEF Tick
  <2>2. Pools[n] \subseteq PoolType
    BY PlatformAssumption
  <2>3. pool \in [Names -> PoolType]
    BY <1>1 DEF PlatformTypes
  <2> QED
    BY <2>1, <2>2, <2>3, Zenon
<1>5. present' \in [Names -> Nat]
  BY <1>1, <1>2 DEF PlatformTypes
<1>6. now \in Nat /\ last_dispatch \in START .. now
  BY <1>1 DEF PlatformTypes
<1>7. now' \in Nat /\ last_dispatch' \in START .. now'
  BY <1>2, <1>3, <1>6 DEF START
<1>8. PlatformTypes'
  BY <1>1, <1>2, <1>3, <1>4, <1>5, <1>7 DEF PlatformTypes
<1>9. NlsAccountedFor'
  BY <1>1, <1>2, <1>3 DEF NlsAccountedFor
<1>10. AbsentFromZero'
  BY <1>2, <1>3 DEF AbsentFromZero
<1>11. EachMomentRewardedOnce'
  <2> SUFFICES ASSUME NEW n \in Names
               PROVE  /\ span[n] <= last_dispatch - START
                      /\ n \in DOMAIN protocols =>
                           span[n] >= present'[n] - (now' - last_dispatch)
    BY <1>2, <1>3 DEF EachMomentRewardedOnce
  <2>1. /\ span[n] <= last_dispatch - START
        /\ n \in DOMAIN protocols => span[n] >= present[n] - (now - last_dispatch)
    BY <1>1 DEF EachMomentRewardedOnce
  <2>2. /\ span[n] \in Nat /\ present[n] \in Nat /\ now \in Nat /\ last_dispatch \in Nat
    BY <1>1 DEF PlatformTypes, START
  <2>3. n \in DOMAIN protocols => present'[n] = present[n] + 1
    BY <1>2
  <2> QED
    BY <1>2, <2>1, <2>2, <2>3
<1> QED
  BY <1>8, <1>9, <1>10, <1>11 DEF Books

-----------------------------------------------------------------------------
(* Theorems *)

\* The inductive invariant holds initially.
LEMMA PlatformStart ==
    ASSUME Init
    PROVE  PlatformInv
<1>1. /\ protocols = InitialProtocols /\ batch = <<>> /\ saved = NoTransaction
      /\ treasury_nls = 0 /\ profit_nls = 0 /\ proceeds = NoProceeds
      /\ locked = 0 /\ tipped = 0
      /\ now = START /\ last_dispatch = START /\ earned = 0
      /\ rewarded = [n \in Names |-> 0] /\ span = [n \in Names |-> 0]
      /\ present = [n \in Names |-> 0]
  BY DEF Init, AdminInit, TreasuryInit, ProfitInit
<1>2. AdminInv
  <2>1. InOrder(batch)
    BY <1>1, FewInOrder
  <2>2. DOMAIN protocols \subseteq Names
    BY <1>1, AdminAssumption
  <2> QED
    BY <1>1, <2>1, <2>2, AdminInvMeans DEF Quiet
<1>3. PlatformTypes
  <2>1. treasury_config \in [cadence : Cadences,
                             tvl_to_apr : {bars \in RewardScales : TryFromBars(bars)}]
    BY DEF Init, TreasuryInit, TreasuryConfig
  <2>2. pool \in [Names -> PoolType]
    <3>1. PICK p \in [Names -> UNION Range(Pools)] : /\ pool = p
                                                     /\ \A n \in Names : p[n] \in Pools[n]
      BY DEF Init
    <3>2. p \in [Names -> PoolType]
      BY <3>1, PlatformAssumption
    <3> QED
      BY <3>1, <3>2
  <2> QED
    BY <1>1, <2>1, <2>2 DEF PlatformTypes, NoProceeds, START
<1>4. Distributed(rewarded) = 0
  <2>1. DOMAIN rewarded = Names /\ \A n \in Names : rewarded[n] = 0
    BY <1>1
  <2>2. SumFunctionOnSet(rewarded, Names) = 0
    BY <2>1, AdminAssumption, SumZero
  <2>3. Distributed(rewarded) = SumFunctionOnSet(rewarded, Names)
    BY <2>1, Zenon DEF Distributed, SumFunction
  <2> QED
    BY <2>2, <2>3
<1>5. NlsAccountedFor
  BY <1>1, <1>4 DEF NlsAccountedFor, NoProceeds
<1>6. EachMomentRewardedOnce /\ AbsentFromZero
  BY <1>1 DEF EachMomentRewardedOnce, AbsentFromZero, START
<1> QED
  BY <1>2, <1>3, <1>5, <1>6 DEF PlatformInv, AbsentFromZero

\* The inductive invariant is kept by every step.
LEMMA PlatformStep ==
    ASSUME PlatformInv, [Next]_vars
    PROVE  PlatformInv'
<1>1. AdminInv
  BY DEF PlatformInv
<1>2. AdminInv'
  <2>1. CASE AdminStep
    BY <1>1, <2>1, AdminKeeps DEF AdminStep
  <2>2. CASE Dispatch \/ TreasurySudo \/ ProfitStep \/ Tick \/ UNCHANGED vars
    <3>1. UNCHANGED <<protocols, batch, saved>>
      BY <2>2 DEF Dispatch, TreasurySudo, ProfitStep, Tick, vars, adminVars, stateVars
    <3> QED
      BY <1>1, <3>1, AdminSame
  <2> QED
    BY <2>1, <2>2 DEF Next
<1>3. PlatformTypes' /\ Books'
  <2>1. CASE UNCHANGED vars
    <3>1. UNCHANGED <<protocols, treasury_config, treasury_nls, last_dispatch, profit_nls,
                      proceeds, locked, tipped, now, pool, rewarded, span, present,
                      earned>>
      BY <2>1 DEF vars, adminVars, stateVars, treasuryVars, profitVars, platformVars,
                  tips
    <3>2. PlatformTypes /\ NlsAccountedFor /\ EachMomentRewardedOnce /\ AbsentFromZero
      BY DEF PlatformInv, AbsentFromZero
    <3>3. PlatformTypes'
      BY <3>1, <3>2 DEF PlatformTypes
    <3>4. NlsAccountedFor' /\ EachMomentRewardedOnce' /\ AbsentFromZero'
      BY <3>1, <3>2 DEF NlsAccountedFor, EachMomentRewardedOnce, AbsentFromZero
    <3> QED
      BY <3>3, <3>4 DEF Books
  <2> QED
    BY <2>1, DispatchKeeps, TreasurySudoKeeps, ProfitStepKeeps, AdminStepKeeps,
       TickKeeps DEF Next
<1> QED
  BY <1>2, <1>3, Zenon DEF PlatformInv, Books, AbsentFromZero

(***************************************************************************)
(* The inductive invariant holds in all reachable states.                  *)
(***************************************************************************)
THEOREM PlatformInvariance == Spec => []PlatformInv
<1>1. Init => PlatformInv
  BY PlatformStart
<1>2. PlatformInv /\ [Next]_vars => PlatformInv'
  BY PlatformStep
<1> QED
  BY <1>1, <1>2, PTL DEF Spec

(***************************************************************************)
(* The balances, the rewards and the times counted are of their types: a   *)
(* dispatch in particular never computes with an earlier time than that of *)
(* the previous one.                                                       *)
(***************************************************************************)
THEOREM PlatformTypesCorrect == Spec => []PlatformTypes
<1>1. PlatformInv => PlatformTypes
  BY DEF PlatformInv
<1> QED
  BY <1>1, PlatformInvariance, PTL

(***************************************************************************)
(* Each NLS that profit has got is with profit, on its way back from the   *)
(* DEX, with treasury, or with a pool as a reward, whatever the protocols  *)
(* registered, removed and registered again in between.                    *)
(***************************************************************************)
THEOREM NlsAlwaysAccountedFor == Spec => []NlsAccountedFor
<1>1. PlatformInv => NlsAccountedFor
  BY DEF PlatformInv
<1> QED
  BY <1>1, PlatformInvariance, PTL

(***************************************************************************)
(* A dispatch rewards each pool for all the time since the previous one,   *)
(* and for no moment twice.                                                *)
(***************************************************************************)
THEOREM AlwaysRewardedOnce == Spec => []EachMomentRewardedOnce
<1>1. PlatformInv => EachMomentRewardedOnce
  BY DEF PlatformInv
<1> QED
  BY <1>1, PlatformInvariance, PTL

(***************************************************************************)
(* Admin tells no contract anything before the migrations of the same      *)
(* transaction, be it one of all contracts, of those of a protocol leaving *)
(* the registry, for any kinds that a specification leaves out.            *)
(***************************************************************************)
THEOREM AlwaysMigratedBeforeTold == Spec => []MigratedBeforeTold
<1>1. PlatformInv => MigratedBeforeTold
  BY DEF PlatformInv, AdminInv
<1> QED
  BY <1>1, PlatformInvariance, PTL


-----------------------------------------------------------------------------
(* A protocol leaves as a whole *)

(***************************************************************************)
(* A finite set of naturals has an element of each rank.                   *)
(***************************************************************************)
LEMMA EachRank ==
    ASSUME NEW S \in SUBSET Nat, IsFiniteSet(S)
    PROVE  \A k \in 1..Cardinality(S) :
               \E n \in S : Cardinality({m \in S : m < n}) = k - 1
<1> DEFINE Ranked(T) == \A k \in 1..Cardinality(T) :
                            \E n \in T : Cardinality({m \in T : m < n}) = k - 1
           Good == {T \in SUBSET S : Ranked(T)}
<1>1. {} \in Good
  <2>1. Cardinality({}) = 0
    BY FS_EmptySet
  <2>2. 1..Cardinality({}) = {}
    BY <2>1
  <2>3. Ranked({})
    BY <2>2, Zenon
  <2> QED
    BY <2>3
<1>2. ASSUME NEW T \in SUBSET S, T # {}, \A x \in T : T \ {x} \in Good
      PROVE  T \in Good
  <2>1. PICK x \in T : \A y \in T : x <= y
    BY <1>2, NatMinimum
  <2> DEFINE R == T \ {x}
  <2>2. IsFiniteSet(T) /\ Cardinality(T) \in Nat
    BY FS_Subset, FS_CardinalityType
  <2>3. IsFiniteSet(R) /\ Cardinality(R) = Cardinality(T) - 1
    BY <2>2, FS_RemoveElement
  <2>4. Ranked(R)
    BY <1>2
  <2>5. ASSUME NEW k \in 1..Cardinality(T)
        PROVE  \E n \in T : Cardinality({m \in T : m < n}) = k - 1
    <3>1. CASE k = 1
      <4>0. ASSUME NEW m \in T PROVE ~(m < x)
        <5>1. m \in Nat /\ x \in Nat /\ x <= m
          BY <2>1
        <5> QED
          BY <5>1
      <4>1. {m \in T : m < x} = {}
        BY <4>0, Zenon
      <4>2. Cardinality({m \in T : m < x}) = 0
        BY <4>1, FS_EmptySet
      <4> QED
        BY <3>1, <4>2
    <3>2. CASE k # 1
      <4>1. k - 1 \in 1..Cardinality(R)
        BY <2>2, <2>3, <3>2
      <4>2. PICK n \in R : Cardinality({m \in R : m < n}) = (k - 1) - 1
        BY <2>4, <4>1
      <4> DEFINE below == {m \in R : m < n}
      <4>3. {m \in T : m < n} = below \cup {x} /\ x \notin below /\ below \in SUBSET R
        BY <2>1, <4>2
      <4> HIDE DEF below, R
      <4>4. IsFiniteSet(below)
        BY <2>3, <4>3, FS_Subset
      <4>5. Cardinality(below \cup {x}) = Cardinality(below) + 1
        BY <4>3, <4>4, FS_AddElement
      <4>6. Cardinality(below) = (k - 1) - 1
        BY <4>2 DEF below
      <4>7. Cardinality({m \in T : m < n}) = k - 1
        BY <4>3, <4>5, <4>6
      <4>8. n \in T
        BY <4>2 DEF R
      <4> QED
        BY <4>7, <4>8
    <3> QED
      BY <3>1, <3>2
  <2> QED
    BY <2>5
<1> HIDE DEF Good
<1>3. S \in Good
  BY <1>1, <1>2, SubsetInduction
<1> QED
  BY <1>3 DEF Good

(***************************************************************************)
(* Ascending has the elements of the set, and all of them.                 *)
(***************************************************************************)
LEMMA AscendingOf ==
    ASSUME NEW S \in SUBSET Nat, IsFiniteSet(S)
    PROVE  /\ Cardinality(S) \in Nat
           /\ DOMAIN Ascending(S) = 1..Cardinality(S)
           /\ \A k \in DOMAIN Ascending(S) : Ascending(S)[k] \in S
           /\ \A n \in S : \E k \in DOMAIN Ascending(S) : Ascending(S)[k] = n
<1> DEFINE Below(n) == {m \in S : m < n}
           Rank(n) == Cardinality(Below(n))
<1>1. Cardinality(S) \in Nat /\ DOMAIN Ascending(S) = 1..Cardinality(S)
  BY FS_CardinalityType DEF Ascending
<1>2. ASSUME NEW k \in 1..Cardinality(S)
      PROVE  Ascending(S)[k] \in S /\ Rank(Ascending(S)[k]) = k - 1
  <2>1. Ascending(S)[k] = CHOOSE n \in S : Rank(n) = k - 1
    BY DEF Ascending
  <2>2. \E n \in S : Rank(n) = k - 1
    BY EachRank
  <2> HIDE DEF Rank
  <2> QED
    BY <2>1, <2>2
<1>3. \A n \in S : IsFiniteSet(Below(n)) /\ Rank(n) \in Nat /\ Rank(n) < Cardinality(S)
  <2> TAKE n \in S
  <2>1. Below(n) \in SUBSET S /\ n \in S /\ n \notin Below(n)
    OBVIOUS
  <2> HIDE DEF Below
  <2>2. IsFiniteSet(Below(n)) /\ Rank(n) \in Nat /\ Rank(n) <= Cardinality(S)
        /\ Rank(n) # Cardinality(S)
    BY <2>1, FS_Subset, FS_CardinalityType
  <2> QED
    BY <1>1, <2>2
<1>4. ASSUME NEW n \in S, NEW p \in S, n < p PROVE Rank(n) # Rank(p)
  <2>1. Below(n) \in SUBSET Below(p) /\ n \in Below(p) /\ n \notin Below(n)
    <3>1. n \in Nat /\ p \in Nat
      OBVIOUS
    <3>2. ASSUME NEW m \in S, m < n PROVE m < p
      <4>1. m \in Nat
        OBVIOUS
      <4> QED
        BY <1>4, <3>1, <3>2, <4>1
    <3>3. Below(n) \in SUBSET Below(p)
      BY <3>2
    <3>4. ~(n < n)
      BY <3>1
    <3> QED
      BY <1>4, <3>3, <3>4
  <2>2. IsFiniteSet(Below(p))
    BY <1>3
  <2> HIDE DEF Below
  <2> QED
    BY <2>1, <2>2, FS_Subset
<1>5. ASSUME NEW n \in S PROVE \E k \in 1..Cardinality(S) : Ascending(S)[k] = n
  <2> DEFINE k == Rank(n) + 1
  <2>1. k \in 1..Cardinality(S) /\ k - 1 = Rank(n)
    <3>1. PICK r : r = Rank(n)
      OBVIOUS
    <3>2. PICK c : c = Cardinality(S)
      OBVIOUS
    <3>3. r \in Nat /\ c \in Nat /\ r < c
      BY <1>1, <1>3, <3>1, <3>2
    <3>4. r + 1 \in 1..c /\ (r + 1) - 1 = r
      BY <3>3
    <3> QED
      BY <3>1, <3>2, <3>4
  <2> HIDE DEF k
  <2>2. Ascending(S)[k] \in S /\ Rank(Ascending(S)[k]) = Rank(n)
    BY <1>2, <2>1
  <2>3. n \in Nat /\ Ascending(S)[k] \in Nat
    BY <2>2
  <2> HIDE DEF Rank
  <2>4. ~(n < Ascending(S)[k]) /\ ~(Ascending(S)[k] < n)
    BY <1>4, <2>2
  <2>5. Ascending(S)[k] = n
    BY <2>3, <2>4
  <2> QED
    BY <2>1, <2>5
<1> QED
  BY <1>1, <1>2, <1>5

(***************************************************************************)
(* A selection of kinds has those that are in the set, and all of them.    *)
(***************************************************************************)
LEMMA KindsInOf ==
    ASSUME NEW kinds, DOMAIN kinds \in SUBSET Nat, IsFiniteSet(DOMAIN kinds), NEW set
    PROVE  /\ \A k \in DOMAIN KindsIn(kinds, set) :
                 KindsIn(kinds, set)[k] \in set \cap Range(kinds)
           /\ \A i \in DOMAIN kinds : kinds[i] \in set =>
                 \E k \in DOMAIN KindsIn(kinds, set) : KindsIn(kinds, set)[k] = kinds[i]
<1> DEFINE places == {i \in DOMAIN kinds : kinds[i] \in set}
           at == Ascending(places)
           picked == KindsIn(kinds, set)
<1>1. places \in SUBSET Nat /\ IsFiniteSet(places)
  BY FS_Subset
<1>2. /\ \A k \in DOMAIN at : at[k] \in places
      /\ \A i \in places : \E k \in DOMAIN at : at[k] = i
  <2> HIDE DEF places
  <2> QED
    BY <1>1, AscendingOf
<1>3. DOMAIN picked = DOMAIN at /\ \A k \in DOMAIN at : picked[k] = kinds[at[k]]
  BY DEF KindsIn
<1>4. \A i \in places : i \in DOMAIN kinds /\ kinds[i] \in set
  OBVIOUS
<1>5. \A i \in DOMAIN kinds : kinds[i] \in Range(kinds)
  BY DEF Range
<1>6. \A i \in DOMAIN kinds : kinds[i] \in set => i \in places
  OBVIOUS
<1> HIDE DEF at, places, picked
<1>7. \A k \in DOMAIN picked : picked[k] \in set \cap Range(kinds)
  BY <1>2, <1>3, <1>4, <1>5
<1>8. ASSUME NEW i \in DOMAIN kinds, kinds[i] \in set
      PROVE  \E k \in DOMAIN picked : picked[k] = kinds[i]
  <2>1. PICK k \in DOMAIN at : at[k] = i
    BY <1>2, <1>6, <1>8
  <2> QED
    BY <1>3, <2>1
<1> QED
  BY <1>7, <1>8 DEF picked

\* Sequences over a set are sequences over any larger one.
LEMMA SeqWider ==
    ASSUME NEW A, NEW B, A \subseteq B, NEW s \in Seq(A)
    PROVE  s \in Seq(B) /\ \A i \in DOMAIN s : s[i] \in B
<1>1. /\ Len(s) \in Nat /\ s = [i \in 1..Len(s) |-> s[i]] /\ DOMAIN s = 1..Len(s)
      /\ \A i \in 1..Len(s) : s[i] \in A
  OBVIOUS
<1>2. [i \in 1..Len(s) |-> s[i]] \in Seq(B)
  BY <1>1
<1> QED
  BY <1>1, <1>2

\* The kinds of contracts are numbered.
LEMMA KindsNumbered ==
    /\ DOMAIN PlatformKinds \in SUBSET Nat
    /\ DOMAIN ProtocolKinds \in SUBSET Nat
<1>1. DOMAIN PlatformKinds = 1..3 /\ DOMAIN ProtocolKinds = 1..5
  BY DEF PlatformKinds, ProtocolKinds
<1> QED
  BY <1>1

(***************************************************************************)
(* migrate_contract migrates each of the contracts that there is a         *)
(* specification for, and no other.                                        *)
(***************************************************************************)
LEMMA MigrateContractsOf ==
    ASSUME NEW contracts, NEW kinds, DOMAIN kinds \in SUBSET Nat,
           IsFiniteSet(DOMAIN kinds), NEW granular, NEW release
    PROVE  /\ \A i \in DOMAIN MigrateContracts(contracts, kinds, granular, release) :
                 \E kind \in DOMAIN granular \cap Range(kinds) :
                     MigrateContracts(contracts, kinds, granular, release)[i] =
                         Migrate(contracts[kind], granular[kind].code, release)
           /\ \A kind \in DOMAIN granular \cap Range(kinds) :
                 \E i \in DOMAIN MigrateContracts(contracts, kinds, granular, release) :
                     MigrateContracts(contracts, kinds, granular, release)[i] =
                         Migrate(contracts[kind], granular[kind].code, release)
<1> DEFINE paired == PairedWith(kinds, granular)
           s == MigrateContracts(contracts, kinds, granular, release)
           One(kind) == Migrate(contracts[kind], granular[kind].code, release)
           chosen == DOMAIN granular \cap Range(kinds)
<1>1. paired = KindsIn(kinds, DOMAIN granular)
  BY DEF PairedWith
<1>2. /\ \A k \in DOMAIN paired : paired[k] \in chosen
      /\ \A i \in DOMAIN kinds : kinds[i] \in DOMAIN granular =>
            \E k \in DOMAIN paired : paired[k] = kinds[i]
  <2> HIDE DEF paired
  <2> QED
    BY <1>1, KindsInOf
<1>3. DOMAIN s = DOMAIN paired /\ \A k \in DOMAIN paired : s[k] = One(paired[k])
  BY DEF MigrateContracts
<1>4. \A kind \in chosen : kind \in DOMAIN granular /\ \E i \in DOMAIN kinds : kinds[i] = kind
  BY DEF Range
<1> HIDE DEF paired, s, One, chosen
<1>5. \A i \in DOMAIN s : \E kind \in chosen : s[i] = One(kind)
  BY <1>2, <1>3
<1>6. ASSUME NEW kind \in chosen PROVE \E i \in DOMAIN s : s[i] = One(kind)
  <2>1. PICK i \in DOMAIN kinds : kinds[i] = kind /\ kind \in DOMAIN granular
    BY <1>4
  <2>2. PICK k \in DOMAIN paired : paired[k] = kind
    BY <1>2, <2>1
  <2> QED
    BY <1>3, <2>2
<1> QED
  BY <1>5, <1>6 DEF s, One, chosen

(***************************************************************************)
(* No proposal to migrate all contracts makes one of them void.            *)
(***************************************************************************)
LEMMA MigrationNotToVoid ==
    ASSUME VoidLeftToRemoval, NEW software, NEW spec \in MigrationSpecs,
           DOMAIN protocols \subseteq Names, ProtocolPairs(spec.protocol)
    PROVE  \A i \in DOMAIN MigrationBatch(software, spec) :
               MigrationBatch(software, spec)[i].code # VoidCode
<1> DEFINE names == Registered
           One(n) == MigrateContracts(protocols[n], ProtocolKinds,
                         spec.protocol[n].contracts,
                         [software |-> software,
                          protocol |-> spec.protocol[n].release])
           seqs == [i \in DOMAIN names |-> One(names[i])]
           own == MigrateContracts(PlatformAddresses, PlatformKinds, spec.platform,
                                   [software |-> software])
           S == Range(own) \cup UNION {Range(One(n)) : n \in DOMAIN protocols}
<1>1. MigrationBatch(software, spec) = own \o FlattenSeq(seqs)
  BY Zenon DEF MigrationBatch, OfProtocols
<1>2. /\ \A kind \in DOMAIN spec.platform : spec.platform[kind].code # VoidCode
      /\ \A n \in DOMAIN protocols : \A kind \in DOMAIN spec.protocol[n].contracts :
            spec.protocol[n].contracts[kind].code # VoidCode
  BY Zenon DEF VoidLeftToRemoval, ProtocolPairs
<1>3. ASSUME NEW c, NEW kinds, DOMAIN kinds \in SUBSET Nat, IsFiniteSet(DOMAIN kinds),
             NEW g, NEW r, \A kind \in DOMAIN g : g[kind].code # VoidCode
      PROVE  \A m \in Range(MigrateContracts(c, kinds, g, r)) : m.code # VoidCode
  <2>1. \A i \in DOMAIN MigrateContracts(c, kinds, g, r) : \E kind \in DOMAIN g :
            MigrateContracts(c, kinds, g, r)[i] = Migrate(c[kind], g[kind].code, r)
    BY <1>3, MigrateContractsOf
  <2>2. \A a, to : Migrate(a, to, r).code = to
    BY DEF Migrate
  <2> QED
    BY <1>3, <2>1, <2>2 DEF Range
<1>4. /\ \A m \in Range(own) : m.code # VoidCode
      /\ \A n \in DOMAIN protocols : \A m \in Range(One(n)) : m.code # VoidCode
  BY <1>2, <1>3, KindsFinite, KindsNumbered
<1>5. own \in Seq(Range(own)) /\ \A n : One(n) \in Seq(Range(One(n)))
  BY KindsFinite, MigrateContractsOnly, OnlyMeans
<1>6. PICK k \in Nat : DOMAIN names = 1..k /\ \A i \in 1..k : names[i] \in DOMAIN protocols
  <2>1. DOMAIN protocols \in SUBSET Nat /\ IsFiniteSet(DOMAIN protocols)
    BY AdminAssumption, FS_Subset
  <2> QED
    BY <2>1, AscendingOf DEF Registered
<1> HIDE DEF names, One, own
<1>7. \A m \in S : m.code # VoidCode
  BY <1>4
<1>8. own \in Seq(S) /\ \A i \in 1..k : One(names[i]) \in Seq(S)
  <2>1. Range(own) \subseteq S /\ \A n \in DOMAIN protocols : Range(One(n)) \subseteq S
    OBVIOUS
  <2> HIDE DEF S
  <2> QED
    BY <1>5, <1>6, <2>1, SeqWider
<1> HIDE DEF S
<1>9. [i \in 1..k |-> One(names[i])] \in Seq(Seq(S))
  BY <1>8
<1>10. seqs \in Seq(Seq(S))
  BY <1>6, <1>9
<1> HIDE DEF seqs
<1>11. own \o FlattenSeq(seqs) \in Seq(S)
  BY <1>8, <1>10, FlattenSeqOver
<1>12. \A i \in DOMAIN (own \o FlattenSeq(seqs)) : (own \o FlattenSeq(seqs))[i] \in S
  BY <1>11, SeqWider
<1> QED
  BY <1>1, <1>7, <1>12

(***************************************************************************)
(* What comes out of a merge is of either batch.                           *)
(***************************************************************************)
LEMMA MergeOf ==
    ASSUME NEW s, NEW t, Only(s, "migrate"), Only(t, "execute")
    PROVE  /\ \A i \in DOMAIN Merge(s, t) :
                 \/ Merge(s, t)[i].type = "execute"
                 \/ \E j \in DOMAIN s : Merge(s, t)[i] = s[j] /\ s[j].type = "migrate"
           /\ \A j \in DOMAIN s : \E i \in DOMAIN Merge(s, t) : Merge(s, t)[i] = s[j]
<1>1. /\ s \in Seq(Range(s)) /\ Len(s) \in Nat /\ DOMAIN s = 1..Len(s)
      /\ \A i \in DOMAIN s : s[i].type = "migrate"
      /\ t \in Seq(Range(t)) /\ Len(t) \in Nat /\ DOMAIN t = 1..Len(t)
      /\ \A i \in DOMAIN t : t[i].type = "execute"
  BY OnlyMeans
<1> DEFINE S == Range(s) \cup Range(t)
           u == s \o t
<1>2. s \in Seq(S) /\ t \in Seq(S)
  <2>1. Range(s) \subseteq S /\ Range(t) \subseteq S
    OBVIOUS
  <2> HIDE DEF S
  <2> QED
    BY <1>1, <2>1, SeqWider
<1> HIDE DEF S
<1>3. /\ u \in Seq(S) /\ Len(u) = Len(s) + Len(t)
      /\ \A i \in 1..Len(s) : u[i] = s[i] /\ i \in 1..Len(u)
      /\ \A i \in 1..Len(u) : i > Len(s) => u[i] = t[i - Len(s)] /\ i - Len(s) \in 1..Len(t)
  BY <1>1, <1>2
<1>4. u = Merge(s, t)
  BY DEF Merge
<1> HIDE DEF u
<1>5. DOMAIN u = 1..Len(u) /\ Len(u) \in Nat
  BY <1>1, <1>3
<1>6. ASSUME NEW i \in DOMAIN u
      PROVE  \/ u[i].type = "execute"
             \/ \E j \in DOMAIN s : u[i] = s[j] /\ s[j].type = "migrate"
  <2>1. CASE i > Len(s)
    BY <1>1, <1>3, <1>5, <2>1
  <2>2. CASE ~(i > Len(s))
    <3>1. i \in DOMAIN s
      BY <1>1, <1>5, <2>2
    <3> QED
      BY <1>1, <1>3, <3>1
  <2> QED
    BY <2>1, <2>2
<1>7. \A j \in DOMAIN s : \E i \in DOMAIN u : u[i] = s[j]
  BY <1>1, <1>3, <1>5
<1> QED
  BY <1>4, <1>6, <1>7

(***************************************************************************)
(* What is left of a batch past its first message.                         *)
(***************************************************************************)
LEMMA RestOf ==
    ASSUME NEW s, InOrder(s), s # <<>>, NEW m
    PROVE  LET rest == <<>> \o Tail(s)
               more == <<m>> \o Tail(s)
           IN  /\ 1 \in DOMAIN s /\ Head(s) = s[1]
               /\ \A i \in DOMAIN rest : \E j \in DOMAIN s : rest[i] = s[j]
               /\ \A j \in DOMAIN s : j = 1 \/ \E i \in DOMAIN rest : rest[i] = s[j]
               /\ \A i \in DOMAIN more : more[i] = m \/ \E j \in DOMAIN s : more[i] = s[j]
<1> DEFINE t == Tail(s)
           more == <<m>> \o t
<1>1. s \in Seq(Range(s)) /\ Len(s) \in Nat /\ DOMAIN s = 1..Len(s)
  BY InOrderFacts DEF InOrder
<1>2. PICK S : S = Range(s)
  OBVIOUS
<1>3. /\ 1 \in DOMAIN s /\ Head(s) = s[1]
      /\ t \in Seq(S) /\ Len(t) = Len(s) - 1 /\ Len(t) \in Nat /\ DOMAIN t = 1..Len(t)
      /\ \A i \in 1..Len(t) : t[i] = s[i + 1] /\ i + 1 \in 1..Len(s)
      /\ \A j \in 1..Len(s) : j # 1 => t[j - 1] = s[j] /\ j - 1 \in 1..Len(t)
  BY <1>1, <1>2
<1>4. t = <<>> \o Tail(s)
  BY <1>1, <1>2
<1> HIDE DEF t
<1>5. \A i \in DOMAIN t : \E j \in DOMAIN s : t[i] = s[j]
  BY <1>1, <1>3
<1>6. \A j \in DOMAIN s : j = 1 \/ \E i \in DOMAIN t : t[i] = s[j]
  BY <1>1, <1>3
<1>7. \A i \in DOMAIN more : more[i] = m \/ \E j \in DOMAIN s : more[i] = s[j]
  <2>1. t \in Seq(S \cup {m}) /\ <<m>> \in Seq(S \cup {m}) /\ Len(<<m>>) = 1 /\ <<m>>[1] = m
    <3>1. S \subseteq S \cup {m} /\ <<m>> \in Seq(S \cup {m})
          /\ Len(<<m>>) = 1 /\ <<m>>[1] = m
      OBVIOUS
    <3> QED
      BY <1>3, <3>1, SeqWider
  <2>2. /\ more \in Seq(S \cup {m}) /\ Len(more) = Len(t) + 1 /\ more[1] = m
        /\ \A i \in 1..Len(more) : i # 1 => more[i] = t[i - 1] /\ i - 1 \in 1..Len(t)
    BY <1>3, <2>1
  <2> HIDE DEF more
  <2>3. DOMAIN more = 1..Len(more)
    BY <2>2
  <2>4. ASSUME NEW i \in DOMAIN more, i # 1 PROVE \E j \in DOMAIN s : more[i] = s[j]
    <3>1. more[i] = t[i - 1] /\ i - 1 \in DOMAIN t
      BY <1>3, <2>2, <2>3, <2>4
    <3> QED
      BY <1>5, <3>1
  <2> QED
    BY <2>2, <2>4
<1>8. more = <<m>> \o Tail(s)
  BY DEF t
<1> HIDE DEF more
<1> QED
  BY <1>3, <1>4, <1>5, <1>6, <1>7, <1>8, Zenon

(***************************************************************************)
(* A transaction starts with no protocol leaving, if its messages make no  *)
(* contract void.                                                          *)
(***************************************************************************)
LEMMA BeginLeaving ==
    ASSUME LeavingInv, NEW about, about # "none", NEW messages, Begin(about, messages),
           UNCHANGED <<protocols, code>>,
           \A i \in DOMAIN messages :
               /\ messages[i].type = "migrate" => messages[i].code # VoidCode
               /\ messages[i].type = "deregister" => messages[i].spec \in VoidSpecs
    PROVE  LeavingInv'
<1>1. /\ saved'.protocols = protocols /\ saved'.code = code
      /\ batch' = messages /\ protocols' = protocols /\ code' = code
  BY DEF Begin
<1>2. code = [a \in Addresses |-> code[a]] /\ Range(protocols) \subseteq ProtocolContracts
  BY DEF LeavingInv
<1>3. Voided' = {}
  BY <1>1 DEF Voided
<1>4. NoneLeaves'
  BY <1>1, <1>3, Zenon DEF NoneLeaves
<1> QED
  BY <1>1, <1>2, <1>4, Zenon DEF LeavingInv

\* SudoMsg::MigrateContracts starts so.
LEMMA MigrateAllLeaving ==
    ASSUME VoidLeftToRemoval, AdminInv, LeavingInv, NEW software,
           NEW spec \in MigrationSpecs, MigrateAll(software, spec)
    PROVE  LeavingInv'
<1> DEFINE s == MigrationBatch(software, spec)
           t == PostMigrationExecuteBatch(spec)
           messages == Merge(s, t)
<1>1. DOMAIN protocols \subseteq Names
  BY AdminInvMeans
<1>2. ProtocolPairs(spec.protocol) /\ Begin("migrate", messages) /\ UNCHANGED <<protocols, code>>
  BY Zenon DEF MigrateAll, stateVars
<1>3. Only(s, "migrate") /\ Only(t, "execute")
  BY <1>1, MigrationBatchOnly, PostMigrationBatchOnly
<1>4. \A i \in DOMAIN s : s[i].code # VoidCode
  BY <1>1, <1>2, MigrationNotToVoid
<1> HIDE DEF s, t
<1>5. \A i \in DOMAIN messages :
        \/ messages[i].type = "execute"
        \/ \E j \in DOMAIN s : messages[i] = s[j] /\ s[j].type = "migrate"
  BY <1>3, MergeOf
<1> HIDE DEF messages
<1>6. \A i \in DOMAIN messages :
        /\ messages[i].type = "migrate" => messages[i].code # VoidCode
        /\ messages[i].type = "deregister" => messages[i].spec \in VoidSpecs
  <2> TAKE i \in DOMAIN messages
  <2>1. CASE messages[i].type = "execute"
    BY <2>1
  <2>2. CASE \E j \in DOMAIN s : messages[i] = s[j] /\ s[j].type = "migrate"
    BY <1>4, <2>2
  <2> QED
    BY <1>5, <2>1, <2>2
<1> QED
  BY <1>2, <1>6, BeginLeaving

\* So does each other handler that sends messages.
LEMMA OthersLeaving ==
    ASSUME AdminInv, LeavingInv,
           \/ \E spec : ExecuteAll(spec)
           \/ \E sender, to, address, salt : Instantiate(sender, to, address, salt)
           \/ \E leaser : \E spec \in VoidSpecs : CloseProtocol(leaser, spec)
    PROVE  LeavingInv'
<1> DEFINE Fine(messages) ==
               \A i \in DOMAIN messages :
                   /\ messages[i].type = "migrate" => messages[i].code # VoidCode
                   /\ messages[i].type = "deregister" => messages[i].spec \in VoidSpecs
<1>1. ASSUME NEW m, m.type \in {"instantiate", "deregister"},
             m.type = "deregister" => m.spec \in VoidSpecs
      PROVE  Fine(<<m>>)
  <2>1. DOMAIN <<m>> = {1} /\ <<m>>[1] = m
    OBVIOUS
  <2>2. m.type # "migrate" /\ (m.type = "deregister" => m.spec \in VoidSpecs)
    BY <1>1
  <2> QED
    BY <2>1, <2>2, Zenon
<1>2. ASSUME NEW spec, ExecuteAll(spec) PROVE LeavingInv'
  <2> DEFINE messages == ExecuteBatch(spec)
  <2>1. DOMAIN protocols \subseteq Names
    BY AdminInvMeans
  <2>2. Only(messages, "execute")
    BY <2>1, ExecuteBatchOnly
  <2>3. Begin("execute", messages) /\ UNCHANGED <<protocols, code>>
    BY <1>2, Zenon DEF ExecuteAll, stateVars
  <2> HIDE DEF messages
  <2>4. \A i \in DOMAIN messages : messages[i].type = "execute"
    BY <2>2, OnlyMeans
  <2>5. Fine(messages)
    BY <2>4
  <2> QED
    BY <2>3, <2>5, BeginLeaving
<1>3. ASSUME NEW sender, NEW to, NEW address, NEW salt,
             Instantiate(sender, to, address, salt)
      PROVE  LeavingInv'
  <2> DEFINE m == Instantiate2(to, salt)
  <2>1. Begin("instantiate", <<m>>) /\ UNCHANGED <<protocols, code>>
    BY <1>3 DEF Instantiate
  <2>2. m.type = "instantiate"
    BY DEF Instantiate2
  <2> HIDE DEF m
  <2>3. Fine(<<m>>)
    BY <1>1, <2>2
  <2> QED
    BY <2>1, <2>3, BeginLeaving
<1>4. ASSUME NEW leaser, NEW spec \in VoidSpecs, CloseProtocol(leaser, spec)
      PROVE  LeavingInv'
  <2> DEFINE m == Deregister(leaser, spec)
  <2>1. Begin("close", <<m>>) /\ UNCHANGED <<protocols, code>>
    BY <1>4 DEF CloseProtocol, stateVars
  <2>2. m.type = "deregister" /\ m.spec \in VoidSpecs
    BY DEF Deregister
  <2> HIDE DEF m
  <2>3. Fine(<<m>>)
    BY <1>1, <2>2
  <2> QED
    BY <2>1, <2>3, BeginLeaving
<1> QED
  BY <1>2, <1>3, <1>4

(***************************************************************************)
(* A message handled keeps the invariant, if the contracts of protocols    *)
(* stay such and what is said of the transaction holds past it.            *)
(***************************************************************************)
LEMMA HandledLeaving ==
    ASSUME LeavingInv, ~Quiet, saved' = saved, code' = [a \in Addresses |-> code'[a]],
           Range(protocols') \subseteq ProtocolContracts,
           NoneLeaves' \/ \E n \in DOMAIN saved.protocols : Leaves(n)'
    PROVE  LeavingInv'
<1>1. /\ saved.code = [a \in Addresses |-> saved.code[a]]
      /\ Range(saved.protocols) \subseteq ProtocolContracts
  BY DEF LeavingInv
<1> QED
  BY <1>1, Zenon DEF LeavingInv

(***************************************************************************)
(* As long as no protocol has left, a message that makes no contract void  *)
(* and sends nothing but a reply keeps it so.                              *)
(***************************************************************************)
LEMMA StillNoneLeaves ==
    ASSUME NoneLeaves, UNCHANGED <<protocols, saved>>,
           \A a \in Addresses : code'[a] = VoidCode => code[a] = VoidCode,
           \A i \in DOMAIN batch' :
               batch'[i].type = "reply" \/ \E j \in DOMAIN batch : batch'[i] = batch[j]
    PROVE  NoneLeaves'
<1>1. /\ protocols = saved.protocols /\ Voided = {}
      /\ \A i \in DOMAIN batch :
           /\ batch[i].type = "migrate" => batch[i].code # VoidCode
           /\ batch[i].type = "deregister" => batch[i].spec \in VoidSpecs
  BY Zenon DEF NoneLeaves
<1>2. Voided' = {}
  BY <1>1 DEF Voided
<1>3. ASSUME NEW i \in DOMAIN batch'
      PROVE  /\ batch'[i].type = "migrate" => batch'[i].code # VoidCode
             /\ batch'[i].type = "deregister" => batch'[i].spec \in VoidSpecs
  <2>1. CASE batch'[i].type = "reply"
    BY <2>1
  <2>2. CASE \E j \in DOMAIN batch : batch'[i] = batch[j]
    BY <1>1, <2>2
  <2> QED
    BY <2>1, <2>2
<1>4. protocols' = saved'.protocols
  BY <1>1
<1> QED
  BY <1>2, <1>3, <1>4, Zenon DEF NoneLeaves

(***************************************************************************)
(* The chain creates a contract: it is not void, since void refuses to be  *)
(* instantiated.                                                           *)
(***************************************************************************)
LEMMA InstantiateLeaving ==
    ASSUME AdminInv, LeavingInv, ~Quiet, batch # <<>>, InOrder(batch), HandleInstantiate
    PROVE  LeavingInv'
<1> DEFINE m == Head(batch)
           address == InstantiateAddress[m.code, m.salt]
           reply == InstantiateReply(address)
<1>1. /\ m.type = "instantiate" /\ m.code # VoidCode
      /\ code' = [code EXCEPT ![address] = m.code]
      /\ batch' = <<reply>> \o Tail(batch) /\ UNCHANGED <<saved, protocols>>
  BY Zenon DEF HandleInstantiate, CanInstantiate, Proceed
<1>2. reply.type = "reply"
  BY DEF InstantiateReply
<1>3. 1 \in DOMAIN batch /\ m = batch[1]
  BY RestOf
<1> HIDE DEF m, address, reply
<1>4. \A i \in DOMAIN batch' :
        batch'[i].type = "reply" \/ \E j \in DOMAIN batch : batch'[i] = batch[j]
  <2> DEFINE more == <<reply>> \o Tail(batch)
  <2>1. \A i \in DOMAIN more : more[i] = reply \/ \E j \in DOMAIN batch : more[i] = batch[j]
    BY RestOf
  <2> HIDE DEF more
  <2>2. \A i \in DOMAIN more :
          more[i].type = "reply" \/ \E j \in DOMAIN batch : more[i] = batch[j]
    BY <1>2, <2>1
  <2> QED
    BY <1>1, <2>2 DEF more
<1>5. /\ code = [a \in Addresses |-> code[a]] /\ Range(protocols) \subseteq ProtocolContracts
      /\ NoneLeaves \/ \E n \in DOMAIN saved.protocols : Leaves(n)
  BY Zenon DEF LeavingInv
<1>6. /\ code' = [a \in Addresses |-> code'[a]]
      /\ \A a \in Addresses : code'[a] = VoidCode => code[a] = VoidCode
  BY <1>1, <1>5
<1>7. ~\E n \in DOMAIN saved.protocols : Leaves(n)
  <2> SUFFICES ASSUME NEW n, Leaves(n) PROVE FALSE
    OBVIOUS
  <2>1. \A i \in DOMAIN batch : batch[i].type \in {"migrate", "execute"}
    BY DEF Leaves
  <2> QED
    BY <1>1, <1>3, <2>1
<1>8. NoneLeaves'
  BY <1>1, <1>4, <1>5, <1>6, <1>7, StillNoneLeaves
<1> QED
  BY <1>1, <1>5, <1>6, <1>8, HandledLeaving

(***************************************************************************)
(* A reply, or a message that a contract executes, leaves the codes and    *)
(* the migrations ahead as they are.                                       *)
(***************************************************************************)
LEMMA ExecuteLeaving ==
    ASSUME AdminInv, LeavingInv, ~Quiet, batch # <<>>, InOrder(batch),
           Reply \/ HandleExecute
    PROVE  LeavingInv'
<1> DEFINE m == Head(batch)
<1>1. /\ m.type \in {"reply", "execute"}
      /\ batch' = <<>> \o Tail(batch) /\ UNCHANGED <<saved, protocols, code>>
  BY Zenon DEF Reply, HandleExecute, Proceed, stateVars
<1>2. /\ 1 \in DOMAIN batch /\ m = batch[1]
      /\ \A i \in DOMAIN batch' : \E j \in DOMAIN batch : batch'[i] = batch[j]
      /\ \A j \in DOMAIN batch : j = 1 \/ \E i \in DOMAIN batch' : batch'[i] = batch[j]
  BY <1>1, RestOf
<1> HIDE DEF m
<1>3. /\ code = [a \in Addresses |-> code[a]] /\ Range(protocols) \subseteq ProtocolContracts
      /\ NoneLeaves \/ \E n \in DOMAIN saved.protocols : Leaves(n)
  BY Zenon DEF LeavingInv
<1>4. CASE NoneLeaves
  <2>1. NoneLeaves'
    BY <1>1, <1>2, <1>4, StillNoneLeaves
  <2> QED
    BY <1>1, <1>3, <2>1, HandledLeaving
<1>5. ASSUME NEW n \in DOMAIN saved.protocols, Leaves(n) PROVE LeavingInv'
  <2> DEFINE contracts == Range(saved.protocols[n])
  <2>1. /\ DOMAIN saved.protocols \ DOMAIN protocols = {n}
        /\ Voided \subseteq contracts
        /\ \A i \in DOMAIN batch : batch[i].type \in {"migrate", "execute"}
        /\ \A i \in DOMAIN batch : batch[i].type = "migrate" =>
              batch[i].release = VOID /\ batch[i].code \in Codes
              /\ batch[i].address \in contracts
        /\ \A a \in contracts : code[a] = VoidCode \/
              \E i \in DOMAIN batch : batch[i].type = "migrate" /\ batch[i].address = a
    BY <1>5, Zenon DEF Leaves
  <2>2. /\ DOMAIN saved'.protocols \ DOMAIN protocols' = {n}
        /\ contracts' = contracts
        /\ Voided' \subseteq contracts
    BY <1>1, <2>1 DEF Voided
  <2> HIDE DEF contracts
  <2>3. /\ \A i \in DOMAIN batch' : batch'[i].type \in {"migrate", "execute"}
        /\ \A i \in DOMAIN batch' : batch'[i].type = "migrate" =>
              batch'[i].release = VOID /\ batch'[i].code \in Codes
              /\ batch'[i].address \in contracts
    BY <1>2, <2>1
  <2>4. ASSUME NEW a \in contracts
        PROVE  code'[a] = VoidCode \/
               \E i \in DOMAIN batch' : batch'[i].type = "migrate" /\ batch'[i].address = a
    <3>1. CASE code[a] = VoidCode
      BY <1>1, <3>1
    <3>2. CASE code[a] # VoidCode
      <4>1. PICK j \in DOMAIN batch : batch[j].type = "migrate" /\ batch[j].address = a
        BY <2>1, <3>2
      <4>2. j # 1
        BY <1>1, <1>2, <4>1
      <4>3. PICK i \in DOMAIN batch' : batch'[i] = batch[j]
        BY <1>2, <4>2
      <4> QED
        BY <4>1, <4>3
    <3> QED
      BY <3>1, <3>2
  <2>5. Leaves(n)'
    BY <2>2, <2>3, <2>4, Zenon DEF Leaves, contracts
  <2> QED
    BY <1>1, <1>3, <2>5, HandledLeaving
<1> QED
  BY <1>3, <1>4, <1>5

(***************************************************************************)
(* Of those that admin sends with the void release, no migration succeeds  *)
(* but to void.                                                            *)
(***************************************************************************)
LEMMA OnlyVoidInVoidRelease ==
    ASSUME VoidLeftToRemoval, NEW m, m.release = VOID, m.code \in Codes, CanMigrate(m)
    PROVE  m.code = VoidCode
<1>1. "protocol" \in DOMAIN VOID /\ VOID.protocol = "void-release"
      /\ VOID.software = "void-release"
  BY DEF VOID
<1>2. MayMigrate(record[m.address], m.code, VOID)
  BY <1>1, Zenon DEF CanMigrate
<1> SUFFICES ASSUME MayUpdate(record[m.address], m.code, VOID), m.code # VoidCode
             PROVE  FALSE
  BY <1>2 DEF MayMigrate
<1> DEFINE release == Package[m.code].release
<1>3. release.protocol = VOID.protocol /\ release.software = VOID.software
  BY Zenon DEF MayUpdate, ProtocolUpdate, SoftwareUpdate, CheckReleaseMatch
<1>4. release \in [software : STRING, protocol : STRING]
  <2>1. Package[m.code] \in Packages
    BY VersioningAssumption
  <2> QED
    BY <2>1 DEF Packages, ReleaseIdsSet
<1>5. release # VOID
  BY Zenon DEF VoidLeftToRemoval
<1> HIDE DEF release
<1>6. release = [software |-> release.software, protocol |-> release.protocol]
  BY <1>4
<1> QED
  BY <1>3, <1>5, <1>6 DEF VOID

(***************************************************************************)
(* A migration makes a contract void if and only if its protocol leaves.   *)
(***************************************************************************)
LEMMA MigrateLeaving ==
    ASSUME VoidLeftToRemoval, AdminInv, LeavingInv, ~Quiet, batch # <<>>,
           InOrder(batch), HandleMigrate
    PROVE  LeavingInv'
<1> DEFINE m == Head(batch)
<1>1. /\ m.type = "migrate" /\ CanMigrate(m)
      /\ code' = [code EXCEPT ![m.address] = m.code]
      /\ batch' = <<>> \o Tail(batch) /\ UNCHANGED <<saved, protocols>>
  BY Zenon DEF HandleMigrate, Proceed
<1>2. /\ 1 \in DOMAIN batch /\ m = batch[1]
      /\ \A i \in DOMAIN batch' : \E j \in DOMAIN batch : batch'[i] = batch[j]
      /\ \A j \in DOMAIN batch : j = 1 \/ \E i \in DOMAIN batch' : batch'[i] = batch[j]
  BY <1>1, RestOf
<1> HIDE DEF m
<1>3. /\ code = [a \in Addresses |-> code[a]] /\ Range(protocols) \subseteq ProtocolContracts
      /\ Range(saved.protocols) \subseteq ProtocolContracts
      /\ NoneLeaves \/ \E n \in DOMAIN saved.protocols : Leaves(n)
  BY Zenon DEF LeavingInv
<1>4. /\ code' = [a \in Addresses |-> code'[a]]
      /\ \A a \in Addresses : code'[a] = IF a = m.address THEN m.code ELSE code[a]
  BY <1>1, <1>3
<1>5. CASE NoneLeaves
  <2>1. m.code # VoidCode
    BY <1>1, <1>2, <1>5 DEF NoneLeaves
  <2>2. NoneLeaves'
    BY <1>1, <1>2, <1>4, <1>5, <2>1, StillNoneLeaves
  <2> QED
    BY <1>1, <1>3, <1>4, <2>2, HandledLeaving
<1>6. ASSUME NEW n \in DOMAIN saved.protocols, Leaves(n) PROVE LeavingInv'
  <2> DEFINE contracts == Range(saved.protocols[n])
  <2>1. /\ DOMAIN saved.protocols \ DOMAIN protocols = {n}
        /\ Voided \subseteq contracts
        /\ \A i \in DOMAIN batch : batch[i].type \in {"migrate", "execute"}
        /\ \A i \in DOMAIN batch : batch[i].type = "migrate" =>
              batch[i].release = VOID /\ batch[i].code \in Codes
              /\ batch[i].address \in contracts
        /\ \A a \in contracts : code[a] = VoidCode \/
              \E i \in DOMAIN batch : batch[i].type = "migrate" /\ batch[i].address = a
    BY <1>6, Zenon DEF Leaves
  <2>2. contracts \subseteq Addresses
    <3>1. saved.protocols[n] \in Range(saved.protocols)
      BY DEF Range
    <3>2. saved.protocols[n] \in [Range(ProtocolKinds) -> Addresses]
      BY <1>3, <3>1 DEF ProtocolContracts
    <3> QED
      BY <3>2 DEF Range
  <2>3. DOMAIN saved'.protocols \ DOMAIN protocols' = {n} /\ contracts' = contracts
    BY <1>1, <2>1
  <2> HIDE DEF contracts
  <2>4. m.release = VOID /\ m.code \in Codes /\ m.address \in contracts
    BY <1>1, <1>2, <2>1
  <2>5. m.code = VoidCode
    BY <1>1, <2>4, OnlyVoidInVoidRelease
  <2>6. Voided' \subseteq contracts
    <3> SUFFICES ASSUME NEW a \in Addresses, code'[a] = VoidCode,
                        saved'.code[a] # VoidCode
                 PROVE  a \in contracts
      BY DEF Voided
    <3>1. CASE a = m.address
      BY <2>4, <3>1
    <3>2. CASE a # m.address
      <4>1. a \in Voided
        BY <1>1, <1>4, <3>2 DEF Voided
      <4> QED
        BY <2>1, <4>1
    <3> QED
      BY <3>1, <3>2
  <2>7. /\ \A i \in DOMAIN batch' : batch'[i].type \in {"migrate", "execute"}
        /\ \A i \in DOMAIN batch' : batch'[i].type = "migrate" =>
              batch'[i].release = VOID /\ batch'[i].code \in Codes
              /\ batch'[i].address \in contracts
    BY <1>2, <2>1
  <2>8. ASSUME NEW a \in contracts
        PROVE  code'[a] = VoidCode \/
               \E i \in DOMAIN batch' : batch'[i].type = "migrate" /\ batch'[i].address = a
    <3>1. CASE code[a] = VoidCode \/ a = m.address
      BY <1>4, <2>2, <2>5, <3>1
    <3>2. CASE code[a] # VoidCode /\ a # m.address
      <4>1. PICK j \in DOMAIN batch : batch[j].type = "migrate" /\ batch[j].address = a
        BY <2>1, <3>2
      <4>2. j # 1
        BY <1>2, <3>2, <4>1
      <4>3. PICK i \in DOMAIN batch' : batch'[i] = batch[j]
        BY <1>2, <4>2
      <4> QED
        BY <4>1, <4>3
    <3> QED
      BY <3>1, <3>2
  <2>9. Leaves(n)'
    BY <2>3, <2>6, <2>7, <2>8, Zenon DEF Leaves, contracts
  <2> QED
    BY <1>1, <1>3, <1>4, <2>9, HandledLeaving
<1> QED
  BY <1>3, <1>5, <1>6

(***************************************************************************)
(* A protocol leaves with a migration of each of its contracts under way,  *)
(* as the specification of its removal is of all kinds.                    *)
(***************************************************************************)
LEMMA DeregisterLeaving ==
    ASSUME AdminInv, LeavingInv, ~Quiet, batch # <<>>, InOrder(batch), DeregisterProtocol
    PROVE  LeavingInv'
<1> DEFINE m == Head(batch)
           names == NamesOfLeaser(m.sender)
           name == names[1]
           c == protocols[name]
           s == MigrateContracts(c, ProtocolKinds, m.spec, VOID)
           t == PostMigrate(c, ProtocolKinds, m.spec)
           messages == Merge(s, t)
<1>1. /\ m.type = "deregister" /\ names # <<>> /\ protocols' = RemoveProtocol(name)
      /\ batch' = messages \o Tail(batch) /\ UNCHANGED <<saved, code>>
  BY Zenon DEF DeregisterProtocol, Proceed, MigrateStandalone
<1>2. 1 \in DOMAIN batch /\ m = batch[1]
  BY RestOf
<1>3. name \in DOMAIN protocols
  <2> DEFINE S == {n \in DOMAIN protocols : protocols[n]["leaser"] = m.sender}
  <2>1. DOMAIN protocols \in SUBSET Nat /\ IsFiniteSet(DOMAIN protocols)
    BY AdminInvMeans, AdminAssumption, FS_Subset
  <2>2. S \in SUBSET Nat /\ IsFiniteSet(S) /\ S \subseteq DOMAIN protocols
    BY <2>1, FS_Subset
  <2>3. names = Ascending(S)
    BY DEF NamesOfLeaser
  <2> HIDE DEF S, names
  <2>4. /\ Cardinality(S) \in Nat /\ DOMAIN names = 1..Cardinality(S)
        /\ \A k \in DOMAIN names : names[k] \in S
    BY <2>2, <2>3, AscendingOf
  <2>5. Cardinality(S) # 0
    <3> SUFFICES ASSUME Cardinality(S) = 0 PROVE FALSE
      OBVIOUS
    <3>1. names = [k \in {} |-> names[k]]
      <4>1. 1..Cardinality(S) = {}
        OBVIOUS
      <4> QED
        BY <2>3, <4>1, Zenon DEF Ascending
    <3>2. names = <<>>
      BY <3>1
    <3> QED
      BY <1>1, <3>2
  <2>6. 1 \in DOMAIN names
    BY <2>4, <2>5
  <2> QED
    BY <2>2, <2>4, <2>6
<1>4. Only(s, "migrate") /\ Only(t, "execute")
  BY KindsFinite, MigrateContractsOnly, PostMigrateOnly
<1>5. /\ \A i \in DOMAIN s : \E kind \in Range(ProtocolKinds) :
            s[i] = Migrate(c[kind], m.spec[kind].code, VOID)
      /\ \A kind \in Range(ProtocolKinds) : kind \in DOMAIN m.spec =>
            \E i \in DOMAIN s : s[i] = Migrate(c[kind], m.spec[kind].code, VOID)
  <2> DEFINE spec == m.spec
             chosen == DOMAIN spec \cap Range(ProtocolKinds)
  <2> HIDE DEF c, spec
  <2>1. DOMAIN ProtocolKinds \in SUBSET Nat /\ IsFiniteSet(DOMAIN ProtocolKinds)
    BY KindsFinite, KindsNumbered
  <2>2. /\ \A i \in DOMAIN MigrateContracts(c, ProtocolKinds, spec, VOID) :
            \E kind \in chosen : MigrateContracts(c, ProtocolKinds, spec, VOID)[i] =
                                    Migrate(c[kind], spec[kind].code, VOID)
        /\ \A kind \in chosen :
            \E i \in DOMAIN MigrateContracts(c, ProtocolKinds, spec, VOID) :
               MigrateContracts(c, ProtocolKinds, spec, VOID)[i] =
                   Migrate(c[kind], spec[kind].code, VOID)
    BY <2>1, MigrateContractsOf
  <2>3. s = MigrateContracts(c, ProtocolKinds, spec, VOID)
    BY DEF spec
  <2> HIDE DEF s
  <2>4. /\ \A i \in DOMAIN s : \E kind \in chosen :
              s[i] = Migrate(c[kind], spec[kind].code, VOID)
        /\ \A kind \in chosen : \E i \in DOMAIN s :
              s[i] = Migrate(c[kind], spec[kind].code, VOID)
    BY <2>2, <2>3, Zenon
  <2> QED
    BY <2>4 DEF spec
<1> HIDE DEF m, names, name, s, t
<1>6. /\ code = [a \in Addresses |-> code[a]] /\ Range(protocols) \subseteq ProtocolContracts
      /\ NoneLeaves \/ \E n \in DOMAIN saved.protocols : Leaves(n)
  BY Zenon DEF LeavingInv
<1>7. NoneLeaves
  <2> SUFFICES ASSUME NEW n, Leaves(n) PROVE FALSE
    BY <1>6
  <2>1. \A i \in DOMAIN batch : batch[i].type \in {"migrate", "execute"}
    BY DEF Leaves
  <2> QED
    BY <1>1, <1>2, <2>1
<1>8. protocols = saved.protocols /\ Voided = {} /\ m.spec \in VoidSpecs
  BY <1>1, <1>2, <1>7 DEF NoneLeaves
<1>9. batch' = messages
  <2>1. Len(batch) \in Nat /\ DOMAIN batch = 1..Len(batch) /\ batch \in Seq(Range(batch))
    BY InOrderFacts DEF InOrder
  <2>2. Len(batch) = 1
    BY <1>1, <1>2 DEF InOrder
  <2>3. Tail(batch) = <<>>
    <3>1. PICK S : batch \in Seq(S)
      BY <2>1
    <3>2. Tail(batch) \in Seq(S) /\ Len(Tail(batch)) = 0
      BY <2>2, <3>1
    <3>3. \A u \in Seq(S) : Len(u) = 0 => u = <<>>
      OBVIOUS
    <3> QED
      BY <3>2, <3>3, Zenon
  <2>4. messages \in Seq(Range(messages))
    BY <1>4, MergeInOrder DEF InOrder
  <2> HIDE DEF messages
  <2>5. messages \o <<>> = messages
    <3>1. PICK S : messages \in Seq(S)
      BY <2>4
    <3> QED
      BY <3>1
  <2> QED
    BY <1>1, <2>3, <2>5
<1>10. /\ \A i \in DOMAIN messages :
            \/ messages[i].type = "execute"
            \/ \E j \in DOMAIN s : messages[i] = s[j] /\ s[j].type = "migrate"
       /\ \A j \in DOMAIN s : \E i \in DOMAIN messages : messages[i] = s[j]
  BY <1>4, MergeOf
<1>11. /\ DOMAIN c = Range(ProtocolKinds) /\ c \in ProtocolContracts
       /\ DOMAIN m.spec = Range(ProtocolKinds)
       /\ \A kind \in Range(ProtocolKinds) : m.spec[kind].code \in Codes
  <2>1. c \in Range(protocols)
    BY <1>3 DEF Range
  <2>2. c \in [Range(ProtocolKinds) -> Addresses]
    BY <1>6, <2>1 DEF ProtocolContracts
  <2>3. m.spec \in [Range(ProtocolKinds) -> [code : Codes, post : STRING]]
    BY <1>8, AdminAssumption DEF MigrationSpec
  <2> HIDE DEF c
  <2> QED
    BY <2>2, <2>3 DEF ProtocolContracts
<1> HIDE DEF messages
<1>12. \A i \in DOMAIN s :
         /\ s[i].release = VOID /\ s[i].code \in Codes /\ s[i].address \in Range(c)
  <2> TAKE i \in DOMAIN s
  <2>1. PICK kind \in Range(ProtocolKinds) :
          s[i] = Migrate(c[kind], m.spec[kind].code, VOID)
    BY <1>5
  <2>2. s[i].release = VOID /\ s[i].code = m.spec[kind].code /\ s[i].address = c[kind]
    BY <2>1 DEF Migrate
  <2>3. c[kind] \in Range(c)
    BY <1>11 DEF Range
  <2> QED
    BY <1>11, <2>2, <2>3
<1>13. ASSUME NEW a \in Range(c)
       PROVE  \E i \in DOMAIN messages : messages[i].type = "migrate" /\ messages[i].address = a
  <2>1. PICK kind \in Range(ProtocolKinds) : c[kind] = a
    BY <1>11 DEF Range
  <2>2. PICK j \in DOMAIN s : s[j] = Migrate(a, m.spec[kind].code, VOID)
    BY <1>5, <1>11, <2>1
  <2>3. s[j].type = "migrate" /\ s[j].address = a
    BY <2>2 DEF Migrate
  <2> QED
    BY <1>10, <2>3
<1>14. /\ DOMAIN protocols' = DOMAIN protocols \ {name}
       /\ \A n \in DOMAIN protocols' : protocols'[n] = protocols[n]
  BY <1>1 DEF RemoveProtocol
<1>15. Range(protocols') \subseteq ProtocolContracts
  BY <1>6, <1>14 DEF Range
<1>16. PICK n \in DOMAIN protocols : n = name
  BY <1>3
<1>17. Leaves(n)'
  <2>1. saved'.protocols[n] = c /\ DOMAIN saved'.protocols \ DOMAIN protocols' = {n}
    BY <1>1, <1>8, <1>14, <1>16
  <2>2. Voided' = {}
    BY <1>1, <1>8 DEF Voided
  <2>3. /\ \A i \in DOMAIN messages : messages[i].type \in {"migrate", "execute"}
        /\ \A i \in DOMAIN messages : messages[i].type = "migrate" =>
             messages[i].release = VOID /\ messages[i].code \in Codes
             /\ messages[i].address \in Range(c)
    <3> HIDE DEF c
    <3> QED
      BY <1>10, <1>12
  <2> HIDE DEF c
  <2> QED
    BY <1>9, <1>13, <2>1, <2>2, <2>3, Zenon DEF Leaves
<1> QED
  BY <1>1, <1>6, <1>8, <1>15, <1>17, HandledLeaving

(***************************************************************************)
(* Each step of admin keeps the invariant of those that leave.             *)
(***************************************************************************)
LEMMA AdminLeaving ==
    ASSUME VoidLeftToRemoval, AdminInv, LeavingInv, AdminNext
    PROVE  LeavingInv'
<1>0. /\ Quiet => batch = <<>>
      /\ code = [a \in Addresses |-> code[a]] /\ Range(protocols) \subseteq ProtocolContracts
      /\ ~Quiet => /\ saved.code = [a \in Addresses |-> saved.code[a]]
                   /\ Range(saved.protocols) \subseteq ProtocolContracts
  BY AdminInvMeans, Zenon DEF LeavingInv
<1>1. ASSUME Quiet', code' = [a \in Addresses |-> code'[a]],
             Range(protocols') \subseteq ProtocolContracts
      PROVE  LeavingInv'
  BY <1>1, Zenon DEF LeavingInv
<1>2. ASSUME NEW account \in Accounts, ChangeDexAdmin(account) PROVE LeavingInv'
  <2>1. Quiet' /\ UNCHANGED <<protocols, code>>
    BY <1>2 DEF ChangeDexAdmin, Quiet
  <2> QED
    BY <1>0, <1>1, <2>1
<1>3. ASSUME NEW r \in Registrations, RegisterProtocol(r.name, r.contracts)
      PROVE  LeavingInv'
  <2>1. Quiet' /\ code' = code
    BY <1>3 DEF RegisterProtocol, Quiet
  <2>2. protocols' = [n \in DOMAIN protocols \cup {r.name} |->
                        IF n = r.name THEN r.contracts ELSE protocols[n]]
    BY <1>3 DEF RegisterProtocol, AddProtocol
  <2>3. r.contracts \in ProtocolContracts
    BY AdminAssumption
  <2>4. Range(protocols') \subseteq ProtocolContracts
    BY <1>0, <2>2, <2>3 DEF Range
  <2> QED
    BY <1>0, <1>1, <2>1, <2>4
<1>4. CASE Fail
  <2>1. batch # <<>> /\ protocols' = saved.protocols /\ code' = saved.code
        /\ saved' = NoTransaction
    BY <1>4 DEF Fail, Abort
  <2>2. Quiet'
    BY <2>1 DEF Quiet
  <2> QED
    BY <1>0, <1>1, <2>1, <2>2
<1>5. CASE Commit
  <2>1. protocols' = protocols /\ code' = code /\ saved' = NoTransaction
    BY <1>5 DEF Commit, stateVars
  <2>2. Quiet'
    BY <2>1 DEF Quiet
  <2> QED
    BY <1>0, <1>1, <2>1, <2>2
<1>6. CASE AdminHandle
  <2>1. batch # <<>> /\ ~Quiet /\ InOrder(batch)
    BY <1>6, AdminInvMeans DEF AdminHandle
  <2> QED
    BY <1>6, <2>1, InstantiateLeaving, ExecuteLeaving, MigrateLeaving,
       DeregisterLeaving DEF AdminHandle
<1>7. ASSUME NEW software \in Softwares, NEW spec \in MigrationSpecs,
             MigrateAll(software, spec)
      PROVE  LeavingInv'
  BY <1>7, MigrateAllLeaving
<1>8. ASSUME \/ \E spec \in ExecuteSpecs : ExecuteAll(spec)
             \/ \E sender \in Accounts, to \in InstantiateCodes, n \in Names,
                   address \in Range(InstantiateAddress) :
                   Instantiate(sender, to, address, n)
             \/ \E r \in Registrations, spec \in VoidSpecs :
                   Exists(r.contracts["leaser"])
                   /\ CloseProtocol(r.contracts["leaser"], spec)
      PROVE  LeavingInv'
  <2>1. \/ \E spec : ExecuteAll(spec)
        \/ \E sender, to, address, salt : Instantiate(sender, to, address, salt)
        \/ \E leaser : \E spec \in VoidSpecs : CloseProtocol(leaser, spec)
    BY <1>8, Zenon
  <2> QED
    BY <2>1, OthersLeaving
<1> QED
  BY <1>2, <1>3, <1>4, <1>5, <1>6, <1>7, <1>8, Zenon DEF AdminNext, AdminRequest

(***************************************************************************)
(* At the end of a transaction the contracts made void are those of the    *)
(* protocol that has left, if any.                                         *)
(***************************************************************************)
LEMMA LeavingMeans ==
    ASSUME LeavingInv
    PROVE  LeavesAsAWhole
<1> DEFINE left == DOMAIN saved.protocols \ DOMAIN protocols
<1> SUFFICES ASSUME ~Quiet, batch = <<>>, NEW a \in Addresses
             PROVE  (code[a] = VoidCode /\ saved.code[a] # VoidCode) <=>
                    \E n \in left : a \in Range(saved.protocols[n])
                                    /\ saved.code[a] # VoidCode
  BY Zenon DEF LeavesAsAWhole
<1>1. DOMAIN batch = {}
  OBVIOUS
<1>2. CASE NoneLeaves
  <2>1. left = {} /\ a \notin Voided
    BY <1>2 DEF NoneLeaves
  <2> QED
    BY <2>1 DEF Voided
<1>3. ASSUME NEW n \in DOMAIN saved.protocols, Leaves(n)
      PROVE  (code[a] = VoidCode /\ saved.code[a] # VoidCode) <=>
             \E p \in left : a \in Range(saved.protocols[p]) /\ saved.code[a] # VoidCode
  <2>1. /\ left = {n} /\ Voided \subseteq Range(saved.protocols[n])
        /\ \A b \in Range(saved.protocols[n]) : code[b] = VoidCode
    BY <1>1, <1>3, Zenon DEF Leaves
  <2> HIDE DEF left
  <2> QED
    BY <2>1 DEF Voided
<1> QED
  BY <1>2, <1>3 DEF LeavingInv

(***************************************************************************)
(* Admin deregisters a protocol along with making all of its contracts     *)
(* void, and makes no other contract void, whatever fails on the way:      *)
(* provided that no proposal migrates a contract to void on its own, and   *)
(* that no other code passes for a part of the void release.               *)
(***************************************************************************)
THEOREM ProtocolsLeaveAsAWhole ==
    VoidLeftToRemoval => (Spec => []LeavesAsAWhole)
<1> SUFFICES ASSUME VoidLeftToRemoval PROVE Spec => []LeavesAsAWhole
  OBVIOUS
<1>1. Init => LeavingInv
  <2> SUFFICES ASSUME Init PROVE LeavingInv
    OBVIOUS
  <2>1. Quiet /\ code = InitialCodes /\ protocols = InitialProtocols
    BY DEF Init, AdminInit, Quiet
  <2>2. /\ InitialCodes = [a \in Addresses |-> InitialCodes[a]]
        /\ Range(InitialProtocols) \subseteq ProtocolContracts
    BY AdminAssumption
  <2> QED
    BY <2>1, <2>2, Zenon DEF LeavingInv
<1>2. PlatformInv /\ LeavingInv /\ [Next]_vars => LeavingInv'
  <2> SUFFICES ASSUME PlatformInv, LeavingInv, [Next]_vars PROVE LeavingInv'
    OBVIOUS
  <2>1. CASE AdminStep
    BY <2>1, AdminLeaving DEF AdminStep, PlatformInv
  <2>2. CASE Dispatch \/ TreasurySudo \/ ProfitStep \/ Tick \/ UNCHANGED vars
    <3>1. protocols' = protocols /\ code' = code /\ batch' = batch /\ saved' = saved
      BY <2>2 DEF Dispatch, TreasurySudo, ProfitStep, Tick, vars, adminVars, stateVars
    <3>2. Quiet' = Quiet /\ Voided' = Voided
      BY <3>1, Zenon DEF Quiet, Voided
    <3>3. NoneLeaves' <=> NoneLeaves
      BY <3>1, <3>2, Zenon DEF NoneLeaves
    <3>4. ASSUME NEW n PROVE Leaves(n)' <=> Leaves(n)
      BY <3>1, <3>2 DEF Leaves
    <3> QED
      BY <3>1, <3>2, <3>3, <3>4, Zenon DEF LeavingInv
  <2> QED
    BY <2>1, <2>2 DEF Next
<1>3. LeavingInv => LeavesAsAWhole
  BY LeavingMeans
<1> QED
  BY <1>1, <1>2, <1>3, PlatformInvariance, PTL DEF Spec
=============================================================================
