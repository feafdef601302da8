------------------------------- MODULE Leaser -------------------------------
(***************************************************************************)
(* Contract leaser: the registry of leases of a protocol, and their        *)
(* migration to a new code in batches.  The pool and the reserve serve     *)
(* only leases of the code that the leaser tells them of.                  *)
(*                                                                         *)
(* A message to the leaser and the messages that it sends in turn are one  *)
(* transaction: an error anywhere undoes all of it.  An action below is a  *)
(* transaction that goes through.                                          *)
(***************************************************************************)
EXTENDS Versioning, FiniteSets, FiniteSetsExt

CONSTANTS
    Customers,      \* addresses, in their order
    SmartContracts, \* the customers that are contracts
    Leases,         \* addresses of lease contracts
    InitialCode,    \* of leases
    NewCodes,       \* the codes leases get migrated to
    ReleaseIds,     \* the releases that the owner names
    MaxLeasesSet,   \* the max_leases of batches
    Senders,        \* of messages that only the owner may send
    Terms           \* margin interest, position specification and due period

\* The code at an address with no contract
None == "none"

ASSUME LeaserAssumption ==
    /\ None \notin Codes
    /\ Customers \subseteq Nat
    /\ SmartContracts \subseteq Customers
    /\ IsFiniteSet(Leases)
    /\ InitialCode \in Codes \ {VoidCode}
    /\ NewCodes \subseteq Codes
    /\ MaxLeasesSet \subseteq Nat

VARIABLES
    config,         \* of the leaser: the code and the terms of new leases
    customers,      \* the keys of CUSTOMER_LEASES
    customer_leases,\* its values
    lpp_lease_code, \* the code of the leases that the pool serves
    reserve_lease_code, \* the code of the leases that the reserve serves
    next_customer,  \* the last continuation key emitted, or Done
    registered,     \* whether admin knows the protocol, external
    code,           \* that a lease runs, external: kept by the chain
    record,         \* that a lease has under "contract_version"
    lease           \* of each lease: its customer and terms, if any

registryVars == <<customers, customer_leases>>
codeVars == <<lpp_lease_code, reserve_lease_code>>
leaseVars == <<code, record, lease>>
vars == <<config, registryVars, codeVars, next_customer, registered, leaseVars>>

\* No continuation key
Done == -1

NotOpened == [status |-> "not opened"]

Finalized == [status |-> "finalized"]

\* The leases that are under way
Open == {l \in Leases : lease[l] \notin {NotOpened, Finalized}}

\* The address of the leaser, and that of its owner
LEASER == "leaser"

OWNER == "owner"

\* Config::new
ConfigNew(lease_code, terms) == [lease_code |-> lease_code, terms |-> terms]

\* The instantiation of the leaser, the pool and the reserve
Init ==
    /\ config \in {ConfigNew(InitialCode, terms) : terms \in Terms}
    /\ customers = {}
    /\ customer_leases = [c \in Customers |-> {}]
    /\ lpp_lease_code = InitialCode
    /\ reserve_lease_code = InitialCode
    /\ next_customer = Done
    /\ registered = TRUE
    /\ code = [l \in Leases |-> None]
    /\ record = [l \in Leases |-> NoRecord]
    /\ lease = [l \in Leases |-> NotOpened]

----------------------------------------------------------------------------
(* The registry, Leases *)

\* Leases::save, for the customer of Leases::cache_open_req
Save(customer, l) ==
    /\ customers' = customers \cup {customer}
    /\ customer_leases' = [customer_leases EXCEPT ![customer] = @ \cup {l}]

\* Leases::remove; the entry of the customer stays, maybe with no lease
Remove(customer, l) ==
    /\ customers' = customers \cup {customer}
    /\ customer_leases' = [customer_leases EXCEPT ![customer] = @ \ {l}]

\* Leases::iter
Iter(from) == {c \in customers : from <= c}

HasLease == customers # {}

----------------------------------------------------------------------------
(* Opening and closing a lease *)

\* platform::contract::validate_code_id
ValidateCodeId(l, lease_code) == code[l] = lease_code

\* Validate_customer, which opening a lease does not call
ValidateCustomer(customer) == customer \notin SmartContracts

\* Borrow: the instantiation of a lease, on the terms of now
Borrow(customer, l) ==
    /\ ValidateCodeId(l, None)          \* the chain makes up a new address
    /\ config.lease_code # VoidCode     \* which refuses to be instantiated
    /\ code' = [code EXCEPT ![l] = config.lease_code]
    /\ record' = [record EXCEPT ![l] = RecordOf(config.lease_code)]
    /\ lease' = [lease EXCEPT ![l] = [customer |-> customer,
                                      terms |-> config.terms]]

(***************************************************************************)
(* ExecuteMsg::OpenLease and the reply to the instantiation.  Until the    *)
(* lease gets the loan, the asset, and an address on the dex, it is        *)
(* migrated as any other, so these steps are left to module Lease.         *)
(***************************************************************************)
OpenLease(customer, l) ==
    /\ registered
    /\ Borrow(customer, l)
    /\ Save(customer, l)
    /\ UNCHANGED <<config, codeVars, next_customer, registered>>

\* ExecuteMsg::RepayLoan and OpenLoan of the pool
PoolServes(l) == ValidateCodeId(l, lpp_lease_code)

\* ExecuteMsg::CoverLiquidationLosses of the reserve
ReserveServes(l) == ValidateCodeId(l, reserve_lease_code)

\* Validate_lease
LeaserServes(l) == ValidateCodeId(l, config.lease_code)

Served(l) == PoolServes(l) /\ ReserveServes(l) /\ LeaserServes(l)

(***************************************************************************)
(* The last step of a lease: the pool takes the repayment, or the reserve  *)
(* covers the loss before it, then ExecuteMsg::FinalizeLease to the leaser. *)
(***************************************************************************)
FinalizeLease(l, with_loss) ==
    /\ registered
    /\ l \in Open
    /\ code[l] # VoidCode               \* which finalizes nothing
    /\ with_loss => ReserveServes(l)
    /\ PoolServes(l)
    /\ ValidateCustomer(lease[l].customer)
    /\ LeaserServes(l)
    /\ Remove(lease[l].customer, l)
    /\ lease' = [lease EXCEPT ![l] = Finalized]
    /\ UNCHANGED <<config, codeVars, next_customer, registered, code, record>>

\* Config::update
Update(terms) == config' = [config EXCEPT !.terms = terms]

\* SudoMsg::Config
Configure(terms) ==
    /\ registered
    /\ Update(terms)
    /\ UNCHANGED <<registryVars, codeVars, next_customer, registered, leaseVars>>

----------------------------------------------------------------------------
(* Migrating the leases *)

LeasesOf(cs) == UNION {customer_leases[c] : c \in cs}

\* mutant: a batch has to be larger than its leases
FitsAmply(from, c, max_leases) ==
    Cardinality(LeasesOf({d \in Iter(from) : d <= c})) < max_leases

(***************************************************************************)
(* MigrateBatch: customers go one by one, each with all of its leases,     *)
(* until one does not fit in what is left of the batch.                    *)
(***************************************************************************)
Fits(from, c, max_leases) ==
    Cardinality(LeasesOf({d \in Iter(from) : d <= c})) <= max_leases

MigratedFrom(from, max_leases) ==
    LeasesOf({c \in Iter(from) : Fits(from, c, max_leases)})

\* mutant: the key is past the first customer that is left
NextAfter(from, max_leases) ==
    LET left == {c \in Iter(from) : ~Fits(from, c, max_leases)}
    IN  IF left = {} THEN Done ELSE Min(left) + 1

NextFrom(from, max_leases) ==
    LET left == {c \in Iter(from) : ~Fits(from, c, max_leases)}
    IN  IF left = {} THEN Done ELSE Min(left)

\* The batch of WasmMsg::Migrate, each handled by the new code
MigrateBatch(from, to, max_leases, to_release) ==
    LET migrated == MigratedFrom(from, max_leases)
    IN  /\ \A l \in migrated : MayMigrate(record[l], to, to_release)
        /\ code' = [l \in Leases |-> IF l \in migrated THEN to ELSE code[l]]
        /\ record' = [l \in Leases |-> IF l \in migrated
                                       THEN RecordAfter(record[l], to)
                                       ELSE record[l]]
        /\ next_customer' = NextFrom(from, max_leases)

\* ExecuteMsg::NewLeaseCode of the pool
PoolNewLeaseCode(sender, new_code) ==
    /\ Check(LEASER, sender)
    /\ lpp_lease_code' = new_code

\* ExecuteMsg::NewLeaseCode of the reserve
ReserveNewLeaseCode(sender, new_code) ==
    /\ Check(LEASER, sender)
    /\ reserve_lease_code' = new_code

\* Update_remote_refs
UpdateRemoteRefs(new_code) ==
    /\ PoolNewLeaseCode(LEASER, new_code)
    /\ ReserveNewLeaseCode(LEASER, new_code)

\* Config::update_lease_code
UpdateLeaseCode(new_code) == config' = [config EXCEPT !.lease_code = new_code]

\* No key to start from
Start == 0

\* Try_migrate_leases
TryMigrateLeases(new_code, max_leases, to_release) ==
    /\ UpdateLeaseCode(new_code)
    /\ MigrateBatch(Start, new_code, max_leases, to_release)
    /\ UpdateRemoteRefs(new_code)
    /\ UNCHANGED <<registryVars, lease>>

\* ExecuteMsg::MigrateLeases
MigrateLeases(sender, new_code, max_leases, to_release) ==
    /\ registered
    /\ CheckOwner(OWNER, sender)
    /\ TryMigrateLeases(new_code, max_leases, to_release)
    /\ UNCHANGED registered

\* Try_migrate_leases_cont, on to the code of the first batch
TryMigrateLeasesCont(key, max_leases, to_release) ==
    /\ MigrateBatch(key, config.lease_code, max_leases, to_release)
    /\ UNCHANGED <<config, registryVars, codeVars, lease>>

\* ExecuteMsg::MigrateLeasesCont, with the key that has been provided
MigrateLeasesCont(sender, max_leases, to_release) ==
    /\ registered
    /\ CheckOwner(OWNER, sender)
    /\ next_customer # Done
    /\ ValidateCustomer(next_customer)
    /\ TryMigrateLeasesCont(next_customer, max_leases, to_release)
    /\ UNCHANGED registered

ForceClose == {"No", "KillProtocol"}

(***************************************************************************)
(* Try_close_protocol.  MaxLeases::MAX is beyond what gas allows for.      *)
(* DeregisterProtocol makes void the leaser, the pool and the rest: module *)
(* Admin.                                                                  *)
(***************************************************************************)
TryCloseProtocol(new_code, to_release, force) ==
    /\ \/ /\ force = "KillProtocol"
          /\ TryMigrateLeases(new_code, Cardinality(Leases), to_release)
       \/ /\ force = "No"
          /\ ~HasLease
          /\ UNCHANGED <<config, registryVars, codeVars, next_customer, leaseVars>>
    /\ registered' = FALSE

\* SudoMsg::CloseProtocol, with the code of void
CloseProtocol(force) ==
    /\ registered
    /\ TryCloseProtocol(VoidCode, VOID, force)

Continue ==
    \E sender \in Senders, max_leases \in MaxLeasesSet, to_release \in ReleaseIds :
        MigrateLeasesCont(sender, max_leases, to_release)

Next ==
    \/ \E c \in Customers, l \in Leases : OpenLease(c, l)
    \/ \E l \in Leases, with_loss \in BOOLEAN : FinalizeLease(l, with_loss)
    \/ \E terms \in Terms : Configure(terms)
    \/ \E sender \in Senders, new_code \in NewCodes,
          max_leases \in MaxLeasesSet, to_release \in ReleaseIds :
           MigrateLeases(sender, new_code, max_leases, to_release)
    \/ Continue
    \/ \E force \in ForceClose : CloseProtocol(force)

Spec == Init /\ [][Next]_vars

(***************************************************************************)
(* The owner goes on with a migration as it has been told, ExecuteMsg of   *)
(* the leaser, "until no key is provided": a batch that may go through     *)
(* does, sooner or later.                                                  *)
(***************************************************************************)
FairSpec == Spec /\ WF_vars(Continue)

----------------------------------------------------------------------------
(* Properties *)

LeaseRecords == [customer : Customers, terms : Terms]

TypeOK ==
    /\ config \in [lease_code : Codes, terms : Terms]
    /\ customers \subseteq Customers
    /\ customer_leases \in [Customers -> SUBSET Leases]
    /\ lpp_lease_code \in Codes
    /\ reserve_lease_code \in Codes
    /\ next_customer \in Customers \cup {Done}
    /\ registered \in BOOLEAN
    /\ code \in [Leases -> Codes \cup {None}]
    /\ record \in [Leases -> Codes \cup {NoRecord}]
    /\ lease \in [Leases -> LeaseRecords \cup {NotOpened, Finalized}]

(***************************************************************************)
(* The registry has every lease under way, once, under the customer that   *)
(* opened it, and no other: neither of the debug assertions of the leaser, *)
(* that a lease is stored and that it is removed, may fail.                *)
(***************************************************************************)
RegistryIsOpenLeases ==
    /\ \A c \in Customers :
           customer_leases[c] = {l \in Open : lease[l].customer = c}
    /\ LeasesOf(customers) = Open

(***************************************************************************)
(* Once a migration has reported that it is done, in however many batches, *)
(* with leases opened and closed between them, there is no lease that the  *)
(* pool, the reserve or the leaser refuses for its code.                   *)
(***************************************************************************)
DoneMeansServed == next_customer = Done => \A l \in Open : Served(l)

(***************************************************************************)
(* What stands in the way of the batches: a lease past the continuation    *)
(* key that the new code refuses to take over, as it does with each lease  *)
(* opened while the migration is under way, for it has no record to pull,  *)
(* and a key that is a smart contract.                                     *)
(***************************************************************************)
Blocked ==
    \/ \E l \in LeasesOf(Iter(next_customer)) :
           \A to_release \in ReleaseIds :
               ~MayMigrate(record[l], config.lease_code, to_release)
    \/ ~ValidateCustomer(next_customer)

(***************************************************************************)
(* A lease refused while it waits for its batch is served again, unless the *)
(* batches are blocked.                                                    *)
(***************************************************************************)
RefusedIsServedAgain ==
    \A l \in Leases :
        (l \in Open /\ ~Served(l)) ~> (l \notin Open \/ Served(l) \/ Blocked)
=============================================================================
