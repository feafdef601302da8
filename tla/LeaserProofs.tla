---------------------------- MODULE LeaserProofs ----------------------------
(***************************************************************************)
(* What the registry and the migration in batches of module Leaser         *)
(* promise, proved for any number of customers, leases, codes and batches. *)
(***************************************************************************)
EXTENDS Leaser, TLAPS, WellFoundedInduction

----------------------------------------------------------------------------
(* The inductive invariant *)

\* A lease under way is a contract
OpenHaveCode == \A l \in Open : code[l] # None

\* The pool and the reserve serve the code that the leaser makes leases of
CodesInStep ==
    /\ lpp_lease_code = config.lease_code
    /\ reserve_lease_code = config.lease_code

(***************************************************************************)
(* A lease that is not of that code yet belongs to a customer at or past   *)
(* the continuation key.                                                   *)
(***************************************************************************)
OthersAreAhead ==
    \A l \in Open :
        \/ code[l] = config.lease_code
        \/ next_customer # Done /\ next_customer <= lease[l].customer

LeaserInv ==
    /\ TypeOK
    /\ RegistryIsOpenLeases
    /\ OpenHaveCode
    /\ CodesInStep
    /\ OthersAreAhead

----------------------------------------------------------------------------
(* Lemmas *)

(***************************************************************************)
(* The first of the customers that a batch has no room for.                *)
(***************************************************************************)
LEMMA MinOfCustomers ==
    ASSUME NEW S \in SUBSET Nat, S # {}
    PROVE  Min(S) \in S /\ \A c \in S : Min(S) <= c
<1> DEFINE Less == {p \in Nat \X Nat : p[1] < p[2]}
<1>1. IsWellFoundedOn(Less, Nat)
  BY NatLessThanWellFounded, Zenon DEF OpToRel
<1> HIDE DEF Less
<1>2. PICK x \in S : \A y \in S : ~(<<y, x>> \in Less)
  BY <1>1, WFMin
<1>3. ASSUME NEW y \in S PROVE x <= y
  <2>1. ~(y < x)
    <3> SUFFICES ASSUME y < x PROVE FALSE
      OBVIOUS
    <3>1. <<y, x>> \in Nat \X Nat /\ <<y, x>>[1] = y /\ <<y, x>>[2] = x
      OBVIOUS
    <3>2. <<y, x>> \in Less
      BY <3>1 DEF Less
    <3> QED
      BY <1>2, <3>2
  <2> QED
    BY <2>1
<1> QED
  BY <1>2, <1>3 DEF Min

(***************************************************************************)
(* Of the leases under way.                                                *)
(***************************************************************************)
LEMMA OpenLeases ==
    ASSUME TypeOK, RegistryIsOpenLeases, NEW l \in Open
    PROVE  /\ l \in Leases
           /\ lease[l] \in LeaseRecords
           /\ lease[l].customer \in customers
           /\ lease[l].customer \in Customers
           /\ l \in customer_leases[lease[l].customer]
<1>1. l \in Leases /\ lease[l] \in LeaseRecords
  BY DEF Open, TypeOK
<1>2. PICK c \in customers : l \in customer_leases[c]
  BY DEF RegistryIsOpenLeases, LeasesOf
<1>3. c \in Customers /\ lease[l].customer = c
  BY <1>2 DEF RegistryIsOpenLeases, TypeOK
<1> QED
  BY <1>1, <1>2, <1>3

(***************************************************************************)
(* A batch migrates, or leaves to the next one, each lease of a customer   *)
(* at or past its key.                                                     *)
(***************************************************************************)
LEMMA BatchIsComplete ==
    ASSUME TypeOK, RegistryIsOpenLeases, NEW from \in Nat, NEW max_leases,
           NEW l \in Open, from <= lease[l].customer
    PROVE  \/ l \in MigratedFrom(from, max_leases)
           \/ /\ NextFrom(from, max_leases) # Done
              /\ NextFrom(from, max_leases) <= lease[l].customer
<1> DEFINE c == lease[l].customer
<1> DEFINE left == {d \in Iter(from) : ~Fits(from, d, max_leases)}
<1>1. c \in Iter(from) /\ l \in customer_leases[c] /\ c \in Nat
  BY OpenLeases, LeaserAssumption DEF Iter
<1>2. CASE Fits(from, c, max_leases)
  BY <1>1, <1>2 DEF MigratedFrom, LeasesOf
<1>3. CASE ~Fits(from, c, max_leases)
  <2>1. c \in left /\ left \in SUBSET Nat
    BY <1>1, <1>3, LeaserAssumption DEF Iter, TypeOK
  <2>2. NextFrom(from, max_leases) = Min(left)
    BY <2>1 DEF NextFrom
  <2>3. Min(left) \in Nat /\ Min(left) <= c
    BY <2>1, MinOfCustomers
  <2> QED
    BY <2>2, <2>3 DEF Done
<1> QED
  BY <1>2, <1>3

LEMMA KeyType ==
    ASSUME TypeOK, NEW from, NEW max_leases
    PROVE  NextFrom(from, max_leases) \in Customers \cup {Done}
<1> DEFINE left == {d \in Iter(from) : ~Fits(from, d, max_leases)}
<1>1. left \in SUBSET Nat /\ left \subseteq Customers
  BY LeaserAssumption DEF Iter, TypeOK
<1>2. CASE left = {}
  BY <1>2 DEF NextFrom
<1>3. CASE left # {}
  BY <1>1, <1>3, MinOfCustomers DEF NextFrom
<1> QED
  BY <1>2, <1>3

(***************************************************************************)
(* What a batch does: it is the heart of both messages.                    *)
(***************************************************************************)
LEMMA BatchKeepsInv ==
    ASSUME LeaserInv, NEW from \in Nat, NEW to \in Codes, NEW max_leases,
           NEW to_release,
           MigrateBatch(from, to, max_leases, to_release),
           UNCHANGED <<registryVars, lease>>,
           config' \in [lease_code : Codes, terms : Terms],
           config'.lease_code = to, lpp_lease_code' = to, reserve_lease_code' = to,
           registered' \in BOOLEAN,
           \A l \in Open : lease[l].customer < from => code[l] = to
    PROVE  LeaserInv'
<1> DEFINE migrated == MigratedFrom(from, max_leases)
<1>1. /\ code' = [l \in Leases |-> IF l \in migrated THEN to ELSE code[l]]
      /\ record' = [l \in Leases |-> IF l \in migrated
                                     THEN RecordAfter(record[l], to)
                                     ELSE record[l]]
      /\ next_customer' = NextFrom(from, max_leases)
  BY DEF MigrateBatch
<1>2. TypeOK /\ RegistryIsOpenLeases /\ OpenHaveCode
  BY DEF LeaserInv
<1>3. Open' = Open
  BY DEF Open
<1>4. TypeOK'
  <2>1. record' \in [Leases -> Codes \cup {NoRecord}]
    BY <1>1, <1>2 DEF TypeOK, RecordAfter
  <2>2. code' \in [Leases -> Codes \cup {None}]
    BY <1>1, <1>2 DEF TypeOK
  <2>3. next_customer' \in Customers \cup {Done}
    BY <1>1, <1>2, KeyType
  <2> QED
    BY <1>2, <2>1, <2>2, <2>3 DEF TypeOK, registryVars
<1>5. RegistryIsOpenLeases'
  BY <1>2, <1>3 DEF RegistryIsOpenLeases, LeasesOf, registryVars
<1>6. OpenHaveCode'
  <2>1. to # None
    BY LeaserAssumption
  <2> QED
    BY <1>1, <1>2, <1>3, <2>1 DEF OpenHaveCode, Open
<1>7. CodesInStep'
  BY DEF CodesInStep
<1>8. OthersAreAhead'
  <2> SUFFICES ASSUME NEW l \in Open
               PROVE  \/ code'[l] = to
                      \/ next_customer' # Done /\ next_customer' <= lease[l].customer
    BY <1>3 DEF OthersAreAhead
  <2>1. l \in Leases /\ lease[l].customer \in Nat
    BY <1>2, OpenLeases, LeaserAssumption
  <2>2. CASE lease[l].customer < from
    BY <1>1, <2>1, <2>2
  <2>3. CASE from <= lease[l].customer
    BY <1>1, <1>2, <2>1, <2>3, BatchIsComplete
  <2> QED
    BY <2>1, <2>2, <2>3
<1> QED
  BY <1>4, <1>5, <1>6, <1>7, <1>8 DEF LeaserInv

(***************************************************************************)
(* ExecuteMsg::MigrateLeases, and the closing of a protocol by force.      *)
(***************************************************************************)
LEMMA TryMigrateKeepsInv ==
    ASSUME LeaserInv, NEW new_code \in Codes, NEW max_leases, NEW to_release,
           TryMigrateLeases(new_code, max_leases, to_release),
           registered' \in BOOLEAN
    PROVE  LeaserInv'
<1>1. /\ config' = [config EXCEPT !.lease_code = new_code]
      /\ MigrateBatch(Start, new_code, max_leases, to_release)
      /\ lpp_lease_code' = new_code /\ reserve_lease_code' = new_code
      /\ UNCHANGED <<registryVars, lease>>
  BY DEF TryMigrateLeases, UpdateLeaseCode, UpdateRemoteRefs, PoolNewLeaseCode,
         ReserveNewLeaseCode
<1>2. config \in [lease_code : Codes, terms : Terms]
  BY DEF LeaserInv, TypeOK
<1>3. /\ config' \in [lease_code : Codes, terms : Terms]
      /\ config'.lease_code = new_code
  BY <1>1, <1>2
<1>4. Start \in Nat
  BY DEF Start
<1>5. ASSUME NEW l \in Open PROVE ~(lease[l].customer < Start)
  BY OpenLeases, LeaserAssumption DEF LeaserInv, Start
<1> QED
  BY <1>1, <1>3, <1>4, <1>5, BatchKeepsInv

(***************************************************************************)
(* ExecuteMsg::MigrateLeasesCont.                                          *)
(***************************************************************************)
LEMMA MigrateContKeepsInv ==
    ASSUME LeaserInv, NEW sender, NEW max_leases, NEW to_release,
           MigrateLeasesCont(sender, max_leases, to_release)
    PROVE  LeaserInv'
<1>1. /\ MigrateBatch(next_customer, config.lease_code, max_leases, to_release)
      /\ UNCHANGED <<config, registryVars, codeVars, lease, registered>>
      /\ next_customer # Done
  BY DEF MigrateLeasesCont, TryMigrateLeasesCont
<1>2. /\ config \in [lease_code : Codes, terms : Terms]
      /\ config.lease_code \in Codes /\ registered \in BOOLEAN
      /\ next_customer \in Nat
  BY <1>1, LeaserAssumption DEF LeaserInv, TypeOK
<1>3. /\ lpp_lease_code' = config.lease_code
      /\ reserve_lease_code' = config.lease_code
  BY <1>1 DEF LeaserInv, CodesInStep, codeVars
<1>4. ASSUME NEW l \in Open, lease[l].customer < next_customer
      PROVE  code[l] = config.lease_code
  <2>1. lease[l].customer \in Nat
    BY OpenLeases, LeaserAssumption DEF LeaserInv
  <2> QED
    BY <1>2, <1>4, <2>1 DEF LeaserInv, OthersAreAhead
<1> QED
  BY <1>1, <1>2, <1>3, <1>4, BatchKeepsInv

(***************************************************************************)
(* A new lease is of the code that the pool and the reserve serve.         *)
(***************************************************************************)
LEMMA OpenLeaseKeepsInv ==
    ASSUME LeaserInv, NEW customer \in Customers, NEW l \in Leases,
           OpenLease(customer, l)
    PROVE  LeaserInv'
<1> DEFINE new == [customer |-> customer, terms |-> config.terms]
<1>1. TypeOK /\ RegistryIsOpenLeases /\ OpenHaveCode /\ CodesInStep /\ OthersAreAhead
  BY DEF LeaserInv
<1>2. /\ code[l] = None
      /\ code' = [code EXCEPT ![l] = config.lease_code]
      /\ record' = [record EXCEPT ![l] = RecordOf(config.lease_code)]
      /\ lease' = [lease EXCEPT ![l] = new]
      /\ customers' = customers \cup {customer}
      /\ customer_leases' = [customer_leases EXCEPT ![customer] = @ \cup {l}]
      /\ UNCHANGED <<config, codeVars, next_customer, registered>>
  BY DEF OpenLease, Borrow, Save, ValidateCodeId
<1>3. config.lease_code \in Codes /\ config.terms \in Terms
      /\ config.lease_code # None
  BY <1>1, LeaserAssumption DEF TypeOK
<1>4. new \in LeaseRecords /\ new \notin {NotOpened, Finalized}
      /\ new.customer = customer
  <2>1. DOMAIN new # DOMAIN NotOpened /\ DOMAIN new # DOMAIN Finalized
    BY DEF NotOpened, Finalized
  <2> QED
    BY <1>3, <2>1 DEF LeaseRecords
<1> HIDE DEF new
<1>5. l \notin Open
  BY <1>1, <1>2 DEF OpenHaveCode
<1>6. /\ lease'[l] = new /\ \A k \in Leases \ {l} : lease'[k] = lease[k]
      /\ code'[l] = config.lease_code /\ \A k \in Leases \ {l} : code'[k] = code[k]
  BY <1>1, <1>2 DEF TypeOK
<1>7. Open' = Open \cup {l}
  BY <1>4, <1>6 DEF Open
<1>8. TypeOK'
  <2>1. record' \in [Leases -> Codes \cup {NoRecord}]
    BY <1>1, <1>2, <1>3 DEF TypeOK, RecordOf
  <2>2. code' \in [Leases -> Codes \cup {None}]
    BY <1>1, <1>2, <1>3 DEF TypeOK
  <2>3. lease' \in [Leases -> LeaseRecords \cup {NotOpened, Finalized}]
    BY <1>1, <1>2, <1>4 DEF TypeOK
  <2>4. customer_leases' \in [Customers -> SUBSET Leases]
    BY <1>1, <1>2 DEF TypeOK
  <2> QED
    BY <1>1, <1>2, <2>1, <2>2, <2>3, <2>4 DEF TypeOK, codeVars
<1>9. RegistryIsOpenLeases'
  <2>1. ASSUME NEW c \in Customers
        PROVE  customer_leases'[c] = {k \in Open' : lease'[k].customer = c}
    <3>1. customer_leases[c] = {k \in Open : lease[k].customer = c}
      BY <1>1 DEF RegistryIsOpenLeases
    <3>2. {k \in Open' : lease'[k].customer = c}
             = {k \in Open : lease[k].customer = c}
                  \cup IF c = customer THEN {l} ELSE {}
      BY <1>4, <1>5, <1>6, <1>7 DEF Open
    <3> QED
      BY <1>1, <1>2, <3>1, <3>2 DEF TypeOK
  <2>2. ASSUME NEW k \in Open'
        PROVE  \E c \in customers' : k \in customer_leases'[c]
    <3>1. CASE k = l
      BY <1>1, <1>2, <3>1 DEF TypeOK
    <3>2. CASE k \in Open
      <4>1. PICK c \in customers : k \in customer_leases[c]
        BY <1>1, <3>2 DEF RegistryIsOpenLeases, LeasesOf
      <4> QED
        BY <1>1, <1>2, <4>1 DEF TypeOK
    <3> QED
      BY <1>7, <2>2, <3>1, <3>2
  <2>3. customers' \subseteq Customers
    BY <1>8 DEF TypeOK
  <2> QED
    BY <2>1, <2>2, <2>3 DEF RegistryIsOpenLeases, LeasesOf
<1>10. OpenHaveCode'
  BY <1>1, <1>3, <1>5, <1>6, <1>7 DEF OpenHaveCode, Open
<1>11. CodesInStep'
  BY <1>1, <1>2 DEF CodesInStep, codeVars
<1>12. OthersAreAhead'
  BY <1>1, <1>2, <1>5, <1>6, <1>7 DEF OthersAreAhead, Open
<1> QED
  BY <1>8, <1>9, <1>10, <1>11, <1>12 DEF LeaserInv

(***************************************************************************)
(* A lease that ends leaves the registry.                                  *)
(***************************************************************************)
LEMMA FinalizeKeepsInv ==
    ASSUME LeaserInv, NEW l \in Leases, NEW with_loss, FinalizeLease(l, with_loss)
    PROVE  LeaserInv'
<1> DEFINE customer == lease[l].customer
<1>1. TypeOK /\ RegistryIsOpenLeases /\ OpenHaveCode /\ CodesInStep /\ OthersAreAhead
  BY DEF LeaserInv
<1>2. /\ l \in Open
      /\ lease' = [lease EXCEPT ![l] = Finalized]
      /\ customers' = customers \cup {customer}
      /\ customer_leases' = [customer_leases EXCEPT ![customer] = @ \ {l}]
      /\ UNCHANGED <<config, codeVars, next_customer, registered, code, record>>
  BY DEF FinalizeLease, Remove
<1>3. customer \in Customers /\ customer \in customers
  BY <1>1, <1>2, OpenLeases
<1>4. lease'[l] = Finalized /\ \A k \in Leases \ {l} : lease'[k] = lease[k]
  BY <1>1, <1>2 DEF TypeOK
<1>5. Open' = Open \ {l}
  BY <1>4 DEF Open
<1>6. TypeOK'
  <2>1. lease' \in [Leases -> LeaseRecords \cup {NotOpened, Finalized}]
    BY <1>1, <1>2 DEF TypeOK
  <2>2. customer_leases' \in [Customers -> SUBSET Leases]
    BY <1>1, <1>2, <1>3 DEF TypeOK
  <2> QED
    BY <1>1, <1>2, <1>3, <2>1, <2>2 DEF TypeOK, codeVars
<1>7. RegistryIsOpenLeases'
  <2>1. ASSUME NEW c \in Customers
        PROVE  customer_leases'[c] = {k \in Open' : lease'[k].customer = c}
    <3>1. customer_leases[c] = {k \in Open : lease[k].customer = c}
      BY <1>1 DEF RegistryIsOpenLeases
    <3>2. {k \in Open' : lease'[k].customer = c}
             = {k \in Open : lease[k].customer = c} \ {l}
      BY <1>4, <1>5 DEF Open
    <3>3. CASE c = customer
      BY <1>1, <1>2, <3>1, <3>2, <3>3 DEF TypeOK
    <3>4. CASE c # customer
      BY <1>1, <1>2, <3>1, <3>2, <3>4 DEF TypeOK
    <3> QED
      BY <3>3, <3>4
  <2>2. ASSUME NEW k \in Open'
        PROVE  \E c \in customers' : k \in customer_leases'[c]
    <3>1. PICK c \in customers : k \in customer_leases[c]
      BY <1>1, <1>5, <2>2 DEF RegistryIsOpenLeases, LeasesOf
    <3> QED
      BY <1>1, <1>2, <1>3, <1>5, <2>2, <3>1 DEF TypeOK
  <2>3. customers' \subseteq Customers
    BY <1>6 DEF TypeOK
  <2> QED
    BY <2>1, <2>2, <2>3 DEF RegistryIsOpenLeases, LeasesOf
<1>8. OpenHaveCode'
  BY <1>1, <1>2, <1>5 DEF OpenHaveCode
<1>9. CodesInStep'
  BY <1>1, <1>2 DEF CodesInStep, codeVars
<1>10. OthersAreAhead'
  BY <1>1, <1>2, <1>4, <1>5 DEF OthersAreAhead, Open
<1> QED
  BY <1>6, <1>7, <1>8, <1>9, <1>10 DEF LeaserInv

(***************************************************************************)
(* Neither new terms nor a refusal to close a protocol touch the leases.   *)
(***************************************************************************)
LEMMA SameLeasesKeepInv ==
    ASSUME LeaserInv, registered' \in BOOLEAN,
           config' \in [lease_code : Codes, terms : Terms],
           config'.lease_code = config.lease_code,
           UNCHANGED <<registryVars, codeVars, next_customer, leaseVars>>
    PROVE  LeaserInv'
<1>1. Open' = Open
  BY DEF Open, leaseVars
<1>2. TypeOK'
  BY DEF LeaserInv, TypeOK, registryVars, codeVars, leaseVars
<1>3. RegistryIsOpenLeases'
  BY <1>1 DEF LeaserInv, RegistryIsOpenLeases, LeasesOf, registryVars, leaseVars
<1>4. OpenHaveCode' /\ CodesInStep' /\ OthersAreAhead'
  BY <1>1 DEF LeaserInv, OpenHaveCode, CodesInStep, OthersAreAhead, codeVars,
              leaseVars
<1> QED
  BY <1>2, <1>3, <1>4 DEF LeaserInv

----------------------------------------------------------------------------
(* The theorems *)

(***************************************************************************)
(* The invariant is one, whatever the sizes of the batches and whatever    *)
(* comes between them.                                                     *)
(***************************************************************************)
THEOREM Invariance == Spec => []LeaserInv
<1>1. Init => LeaserInv
  <2> SUFFICES ASSUME Init PROVE LeaserInv
    OBVIOUS
  <2>1. Open = {}
    BY DEF Init, Open
  <2>2. PICK terms \in Terms : config = [lease_code |-> InitialCode, terms |-> terms]
    BY DEF Init, ConfigNew
  <2>3. TypeOK
    BY <2>2, LeaserAssumption DEF Init, TypeOK
  <2>4. RegistryIsOpenLeases
    BY <2>1 DEF Init, RegistryIsOpenLeases, LeasesOf
  <2>5. OpenHaveCode /\ CodesInStep /\ OthersAreAhead
    BY <2>1, <2>2 DEF Init, OpenHaveCode, CodesInStep, OthersAreAhead
  <2> QED
    BY <2>3, <2>4, <2>5 DEF LeaserInv
<1>2. LeaserInv /\ [Next]_vars => LeaserInv'
  <2> SUFFICES ASSUME LeaserInv, [Next]_vars PROVE LeaserInv'
    OBVIOUS
  <2>1. /\ config \in [lease_code : Codes, terms : Terms]
        /\ registered \in BOOLEAN
    BY DEF LeaserInv, TypeOK
  <2>2. ASSUME NEW c \in Customers, NEW l \in Leases, OpenLease(c, l)
        PROVE  LeaserInv'
    BY <2>2, OpenLeaseKeepsInv
  <2>3. ASSUME NEW l \in Leases, NEW with_loss \in BOOLEAN,
               FinalizeLease(l, with_loss)
        PROVE  LeaserInv'
    BY <2>3, FinalizeKeepsInv
  <2>4. ASSUME NEW terms \in Terms, Configure(terms)
        PROVE  LeaserInv'
    <3>1. /\ config' \in [lease_code : Codes, terms : Terms]
          /\ config'.lease_code = config.lease_code
      BY <2>1, <2>4 DEF Configure, Update
    <3> QED
      BY <2>1, <2>4, <3>1, SameLeasesKeepInv DEF Configure
  <2>5. ASSUME NEW sender \in Senders, NEW new_code \in NewCodes,
               NEW max_leases \in MaxLeasesSet, NEW to_release \in ReleaseIds,
               MigrateLeases(sender, new_code, max_leases, to_release)
        PROVE  LeaserInv'
    BY <2>1, <2>5, TryMigrateKeepsInv, LeaserAssumption DEF MigrateLeases
  <2>6. CASE Continue
    BY <2>6, MigrateContKeepsInv DEF Continue
  <2>7. ASSUME NEW force \in ForceClose, CloseProtocol(force)
        PROVE  LeaserInv'
    <3>1. registered' \in BOOLEAN /\ VoidCode \in Codes
      BY <2>7, VersioningAssumption DEF CloseProtocol, TryCloseProtocol
    <3>2. CASE TryMigrateLeases(VoidCode, Cardinality(Leases), VOID)
      BY <3>1, <3>2, TryMigrateKeepsInv
    <3>3. CASE UNCHANGED <<config, registryVars, codeVars, next_customer, leaseVars>>
      BY <2>1, <3>1, <3>3, SameLeasesKeepInv
    <3> QED
      BY <2>7, <3>2, <3>3 DEF CloseProtocol, TryCloseProtocol
  <2>8. CASE UNCHANGED vars
    BY <2>1, <2>8, SameLeasesKeepInv DEF vars
  <2> QED
    BY <2>2, <2>3, <2>4, <2>5, <2>6, <2>7, <2>8 DEF Next
<1> QED
  BY <1>1, <1>2, PTL DEF Spec

(***************************************************************************)
(* The registry has just the leases under way: the debug assertions of     *)
(* Leases::save and Leases::remove hold.                                   *)
(***************************************************************************)
THEOREM RegistryExact == Spec => []RegistryIsOpenLeases
<1>1. LeaserInv => RegistryIsOpenLeases
  BY DEF LeaserInv
<1> QED
  BY <1>1, Invariance, PTL

(***************************************************************************)
(* A migration that reports done has left no lease that anybody refuses,   *)
(* for any sizes of its batches and any leases opened or closed meanwhile. *)
(***************************************************************************)
THEOREM DoneIsServed == Spec => []DoneMeansServed
<1>1. LeaserInv => DoneMeansServed
  BY DEF LeaserInv, OthersAreAhead, CodesInStep, DoneMeansServed, Served, PoolServes,
         ReserveServes, LeaserServes, ValidateCodeId
<1> QED
  BY <1>1, Invariance, PTL
=============================================================================
