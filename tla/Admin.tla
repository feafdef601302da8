------------------------------- MODULE Admin -------------------------------
(***************************************************************************)
(* Contract admin: the registry of the protocols on the platform, their    *)
(* instantiation, migration and removal.                                   *)
(*                                                                         *)
(* The messages that a handler sends are executed in their order, one      *)
(* after another, each followed at once by those that it sends in turn.    *)
(* They form one transaction: an error of any of them, but of those with a *)
(* reply on error, restores the state from before it.                      *)
(***************************************************************************)
EXTENDS Versioning, FiniteSets, SequencesExt

CONSTANTS
    Names,              \* of protocols, in their order
    Addresses,          \* of contracts
    InitialCodes,       \* of the contracts there are in the beginning
    InitialProtocols,   \* registered in the beginning
    PlatformAddresses,  \* of the contracts of the platform
    Registrations,      \* the names and contracts that protocols get registered with
    InstantiateAddress, \* instantiate2_address of codes and salts, external
    InstantiateCodes,   \* the codes of contracts to instantiate
    MigrationSpecs,     \* the specifications of migrations
    ExecuteSpecs,       \* the specifications of executions
    VoidSpecs,          \* the specifications that protocols get removed with
    Softwares,          \* the releases that migrations are told of
    Accounts            \* of owners

\* No contract at an address
None == "none"

\* platform::Contracts and protocol::Contracts, in the order of try_for_each
PlatformKinds == <<"admin", "timealarms", "treasury">>

ProtocolKinds == <<"leaser", "lpp", "oracle", "profit", "reserve">>

\* A finite set of naturals, ascending
Ascending(set) ==
    [k \in 1 .. Cardinality(set) |->
        CHOOSE n \in set : Cardinality({m \in set : m < n}) = k - 1]

\* Those of some kinds that are in a set, in the same order
KindsIn(kinds, set) ==
    LET at == Ascending({i \in DOMAIN kinds : kinds[i] \in set})
    IN  [k \in DOMAIN at |-> kinds[at[k]]]

\* Those that PlatformContractsWithoutAdmin keeps
PlatformKindsWithoutAdmin == KindsIn(PlatformKinds, Range(PlatformKinds) \ {"admin"})

\* platform::Contracts and protocol::Contracts of addresses
PlatformContracts == [Range(PlatformKinds) -> Addresses]

ProtocolContracts == [Range(ProtocolKinds) -> Addresses]

\* MigrationSpec: the code, and what to execute past the migration
MigrationSpec == [code : Codes, post : STRING]

(***************************************************************************)
(* Granularity::Some gives a unit for some of the contracts, All(Some) for *)
(* all of them, and All(None) for none.  All three are functions on the    *)
(* kinds that they are about.                                              *)
(***************************************************************************)
Granularity(granular, kinds, unit) ==
    /\ DOMAIN granular \subseteq Range(kinds)
    /\ Range(granular) \subseteq unit

\* ContractsMigration, with the release of each protocol
ContractsMigration(spec) ==
    /\ Granularity(spec.platform, PlatformKinds, MigrationSpec)
    /\ DOMAIN spec.protocol \subseteq Names
    /\ \A n \in DOMAIN spec.protocol :
         Granularity(spec.protocol[n].contracts, ProtocolKinds, MigrationSpec)

\* ContractsExecute
ContractsExecute(spec) ==
    /\ Granularity(spec.platform, PlatformKindsWithoutAdmin, STRING)
    /\ DOMAIN spec.protocol \subseteq Names
    /\ \A n \in DOMAIN spec.protocol :
         Granularity(spec.protocol[n], ProtocolKinds, STRING)

ASSUME AdminAssumption ==
    /\ Names \subseteq Nat /\ IsFiniteSet(Names)
    /\ InitialCodes \in [Addresses -> Codes \cup {None}]
    /\ DOMAIN InitialProtocols \subseteq Names
    /\ Range(InitialProtocols) \subseteq ProtocolContracts
    /\ PlatformAddresses \in PlatformContracts
    /\ Registrations \subseteq [name : Names, contracts : ProtocolContracts]
    /\ InstantiateAddress \in [InstantiateCodes \X Names -> Addresses]
    /\ \A spec \in MigrationSpecs : ContractsMigration(spec)
    /\ \A spec \in ExecuteSpecs : ContractsExecute(spec)
    /\ VoidSpecs \subseteq [Range(ProtocolKinds) -> MigrationSpec]

VARIABLES
    owner,      \* dex_admin
    protocols,  \* PROTOCOL: the contracts of the registered ones, by name
    expected,   \* ExpectedInstantiation
    code,       \* of each address, external: kept by the chain
    record,     \* of each address, under "contract_version"
    batch,      \* the messages of the transaction under way
    saved       \* what it started from, and what it is about

stateVars == <<owner, protocols, expected, code, record>>
adminVars == <<stateVars, batch, saved>>

NoExpectation == [address |-> None, code |-> None]

NoTransaction == [about |-> "none"]

Exists(address) == code[address] # None

----------------------------------------------------------------------------
(* Messages *)

\* WasmMsg::Migrate of a contract of the platform: release is of software only
Migrate(address, to, release) ==
    [type |-> "migrate", address |-> address, code |-> to, release |-> release]

\* WasmMsg::Execute
Execute(address, message) ==
    [type |-> "execute", address |-> address, message |-> message]

\* WasmMsg::Instantiate2
Instantiate2(to, salt) == [type |-> "instantiate", code |-> to, salt |-> salt]

\* The reply on success of it
InstantiateReply(address) == [type |-> "reply", address |-> address]

\* DeregisterProtocol
Deregister(sender, spec) ==
    [type |-> "deregister", sender |-> sender, spec |-> spec]

\* mutant: the messages after a migration go out ahead of all migrations
MergeReversed(migration_batch, post_migration_execute_batch) ==
    post_migration_execute_batch \o migration_batch

\* Batches::merge of migration_batch and post_migration_execute_batch
Merge(migration_batch, post_migration_execute_batch) ==
    migration_batch \o post_migration_execute_batch

\* try_paired_with_granular: those contracts that there is a specification for
PairedWith(kinds, granular) == KindsIn(kinds, DOMAIN granular)

\* Nothing is told of a contract
NoMessage == "no message"

\* migrate_contract: what comes into migration_batch ...
MigrateContracts(contracts, kinds, granular, release) ==
    LET paired == PairedWith(kinds, granular)
    IN  [i \in DOMAIN paired |->
            Migrate(contracts[paired[i]], granular[paired[i]].code, release)]

\* ... and into post_migration_execute_batch
PostMigrate(contracts, kinds, granular) ==
    LET paired == PairedWith(kinds, Restrict(granular,
                      {kind \in DOMAIN granular : granular[kind].post # NoMessage}))
    IN  [i \in DOMAIN paired |->
            Execute(contracts[paired[i]], granular[paired[i]].post)]

\* execute_contract of those that have a message
ExecuteContractsOf(contracts, kinds, granular) ==
    LET paired == PairedWith(kinds, granular)
    IN  [i \in DOMAIN paired |-> Execute(contracts[paired[i]], granular[paired[i]])]

(***************************************************************************)
(* try_for_each_protocol_pair: there must be a specification for each      *)
(* registered protocol, and no other.                                      *)
(***************************************************************************)
ProtocolPairs(paired_with) == DOMAIN paired_with = DOMAIN protocols

\* The registered names, ascending
Registered == Ascending(DOMAIN protocols)

\* What the protocols add to a batch, one after another
OfProtocols(Of(_)) ==
    LET names == Registered
    IN  FlattenSeq([i \in DOMAIN names |-> Of(names[i])])

\* Contracts::migrate, migrate_platform and migrate_protocols
MigrationBatch(to_software, spec) ==
    MigrateContracts(PlatformAddresses, PlatformKinds, spec.platform,
                     [software |-> to_software])
    \o OfProtocols(LAMBDA n :
         MigrateContracts(protocols[n], ProtocolKinds, spec.protocol[n].contracts,
                          [software |-> to_software,
                           protocol |-> spec.protocol[n].release]))

PostMigrationExecuteBatch(spec) ==
    PostMigrate(PlatformAddresses, PlatformKinds, spec.platform)
    \o OfProtocols(LAMBDA n : PostMigrate(protocols[n], ProtocolKinds,
                                          spec.protocol[n].contracts))

\* Contracts::execute, execute_platform and execute_protocols
ExecuteBatch(spec) ==
    ExecuteContractsOf(PlatformAddresses, PlatformKindsWithoutAdmin, spec.platform)
    \o OfProtocols(LAMBDA n : ExecuteContractsOf(protocols[n], ProtocolKinds,
                                                 spec.protocol[n]))

\* ProtocolContracts::migrate_standalone
MigrateStandalone(contracts, to_release, spec) ==
    Merge(MigrateContracts(contracts, ProtocolKinds, spec, to_release),
          PostMigrate(contracts, ProtocolKinds, spec))

----------------------------------------------------------------------------
(* Transactions *)

\* The instantiation of admin, next to contracts set up beforehand
AdminInit ==
    /\ owner \in Accounts
    /\ protocols = InitialProtocols
    /\ expected = NoExpectation
    /\ code = InitialCodes
    /\ record = [a \in Addresses |->
                    IF InitialCodes[a] = None THEN NoRecord
                                              ELSE RecordOf(InitialCodes[a])]
    /\ batch = <<>>
    /\ saved = NoTransaction

Quiet == saved = NoTransaction

\* A handler starts a transaction, and sends messages
Begin(about, messages) ==
    /\ Quiet
    /\ saved' = [about |-> about, owner |-> owner, protocols |-> protocols,
                 expected |-> expected, code |-> code, record |-> record]
    /\ batch' = messages

\* One of the messages has been handled, and has sent more
Proceed(messages) ==
    /\ batch' = messages \o Tail(batch)
    /\ UNCHANGED saved

\* All have been
Commit ==
    /\ ~Quiet
    /\ batch = <<>>
    /\ saved' = NoTransaction
    /\ UNCHANGED <<stateVars, batch>>

\* One of them has not
Abort ==
    /\ owner' = saved.owner
    /\ protocols' = saved.protocols
    /\ expected' = saved.expected
    /\ code' = saved.code
    /\ record' = saved.record
    /\ batch' = <<>>
    /\ saved' = NoTransaction

----------------------------------------------------------------------------
(* Messages to admin *)

\* SudoMsg::ChangeDexAdmin
ChangeDexAdmin(new_dex_admin) ==
    /\ Quiet
    /\ owner' = GrantTo(new_dex_admin)
    /\ UNCHANGED <<protocols, expected, code, record, batch, saved>>

\* Validate for the contracts of a protocol: there is one at each address
Validate(contracts) == \A kind \in Range(ProtocolKinds) : Exists(contracts[kind])

\* add_protocol
AddProtocol(name, contracts) ==
    /\ name \notin DOMAIN protocols
    /\ protocols' = [n \in DOMAIN protocols \cup {name} |->
                        IF n = name THEN contracts ELSE protocols[n]]

\* register_protocol, of SudoMsg and, if the sender is the owner, of ExecuteMsg
RegisterProtocol(name, contracts) ==
    /\ Quiet
    /\ Validate(contracts)
    /\ AddProtocol(name, contracts)
    /\ UNCHANGED <<owner, expected, code, record, batch, saved>>

\* SudoMsg::MigrateContracts
MigrateAll(to_software, spec) ==
    /\ ProtocolPairs(spec.protocol)
    /\ Begin("migrate", Merge(MigrationBatch(to_software, spec),
                              PostMigrationExecuteBatch(spec)))
    /\ UNCHANGED stateVars

\* SudoMsg::ExecuteContracts
ExecuteAll(spec) ==
    /\ ProtocolPairs(spec.protocol)
    /\ Begin("execute", ExecuteBatch(spec))
    /\ UNCHANGED stateVars

\* ExecuteMsg::Instantiate
Instantiate(sender, to, expected_address, salt) ==
    /\ CheckOwner(owner, sender)
    /\ Begin("instantiate", <<Instantiate2(to, salt)>>)
    /\ expected' = [address |-> expected_address, code |-> to]
    /\ UNCHANGED <<owner, protocols, code, record>>

----------------------------------------------------------------------------
(* Handling of the messages sent *)

\* The chain creates the contract unless there is one at the address; contract
\* void refuses to be instantiated
CanInstantiate(m) ==
    ~Exists(InstantiateAddress[m.code, m.salt]) /\ m.code # VoidCode

HandleInstantiate ==
    LET m == Head(batch)
        address == InstantiateAddress[m.code, m.salt]
    IN  /\ m.type = "instantiate"
        /\ CanInstantiate(m)
        /\ code' = [code EXCEPT ![address] = m.code]
        /\ record' = [record EXCEPT ![address] = RecordOf(m.code)]
        /\ Proceed(<<InstantiateReply(address)>>)
        /\ UNCHANGED <<owner, protocols, expected>>

\* instantiate_reply, without having cleared the expectation
AsExpected(address) ==
    /\ address = expected.address
    /\ code[address] = expected.code

\* ExpectedInstantiation::clear
Clear == NoExpectation

\* reply
Reply ==
    LET m == Head(batch)
    IN  /\ m.type = "reply"
        /\ AsExpected(m.address)
        /\ expected' = Clear
        /\ Proceed(<<>>)
        /\ UNCHANGED <<owner, protocols, code, record>>

\* The entry point 'migrate' of the new code, which void accepts from any contract
CanMigrate(m) ==
    /\ Exists(m.address)
    /\ IF "protocol" \in DOMAIN m.release
       THEN MayMigrate(record[m.address], m.code, m.release)
       ELSE \/ m.code = VoidCode
            \/ MayUpdatePlatform(record[m.address], m.code, m.release.software)

HandleMigrate ==
    LET m == Head(batch)
    IN  /\ m.type = "migrate"
        /\ CanMigrate(m)
        /\ code' = [code EXCEPT ![m.address] = m.code]
        /\ record' = [record EXCEPT ![m.address] = RecordAfter(@, m.code)]
        /\ Proceed(<<>>)
        /\ UNCHANGED <<owner, protocols, expected>>

\* ExecuteAlarmMsg::TimeAlarm
TimeAlarm == "time alarm"

\* A contract executes a message; contract void only consumes a time alarm
CanExecute(m) ==
    Exists(m.address) /\ (code[m.address] = VoidCode => m.message = TimeAlarm)

HandleExecute ==
    LET m == Head(batch)
    IN  /\ m.type = "execute"
        /\ CanExecute(m)
        /\ Proceed(<<>>)
        /\ UNCHANGED stateVars

\* The first protocol by name whose leaser is the sender
NamesOfLeaser(sender) ==
    Ascending({n \in DOMAIN protocols : protocols[n]["leaser"] = sender})

\* mutant: it stays registered
RemoveNoProtocol(name) == protocols

\* remove_protocol
RemoveProtocol(name) ==
    [n \in DOMAIN protocols \ {name} |-> protocols[n]]

\* deregister_protocol
DeregisterProtocol ==
    LET m == Head(batch)
        names == NamesOfLeaser(m.sender)
    IN  /\ m.type = "deregister"
        /\ names # <<>>
        /\ protocols' = RemoveProtocol(names[1])
        /\ Proceed(MigrateStandalone(protocols[names[1]], VOID, m.spec))
        /\ UNCHANGED <<owner, expected, code, record>>

\* A message gets an error
Failing(m) ==
    \/ m.type = "instantiate" /\ ~CanInstantiate(m)
    \/ m.type = "reply" /\ ~AsExpected(m.address)
    \/ m.type = "migrate" /\ ~CanMigrate(m)
    \/ m.type = "execute"
    \/ m.type = "deregister" /\ NamesOfLeaser(m.sender) = <<>>

Fail ==
    /\ batch # <<>>
    /\ Failing(Head(batch))
    /\ Abort

(***************************************************************************)
(* SudoMsg::CloseProtocol of a leaser: past its own part, not looked at    *)
(* here, it turns to admin.                                                *)
(***************************************************************************)
CloseProtocol(leaser, spec) ==
    /\ code[leaser] # VoidCode
    /\ Begin("close", <<Deregister(leaser, spec)>>)
    /\ UNCHANGED stateVars

AdminHandle ==
    /\ batch # <<>>
    /\ \/ HandleInstantiate
       \/ Reply
       \/ HandleMigrate
       \/ HandleExecute
       \/ DeregisterProtocol

\* What starts a transaction, one at a time
AdminRequest ==
    /\ Quiet
    /\ \/ \E account \in Accounts : ChangeDexAdmin(account)
       \/ \E r \in Registrations : RegisterProtocol(r.name, r.contracts)
       \/ \E software \in Softwares, spec \in MigrationSpecs : MigrateAll(software, spec)
       \/ \E spec \in ExecuteSpecs : ExecuteAll(spec)
       \/ \E sender \in Accounts, to \in InstantiateCodes, n \in Names,
             address \in Range(InstantiateAddress) : Instantiate(sender, to, address, n)
       \/ \E r \in Registrations, spec \in VoidSpecs :
             Exists(r.contracts["leaser"]) /\ CloseProtocol(r.contracts["leaser"], spec)

AdminNext ==
    \/ AdminRequest
    \/ AdminHandle
    \/ Fail
    \/ Commit

----------------------------------------------------------------------------
(***************************************************************************)
(* No message follows a migration of a contract while a contract of the    *)
(* same batch is yet to be migrated: whomever it makes its addressee turn  *)
(* to runs the new code by then.                                           *)
(***************************************************************************)
MigratedBeforeTold ==
    \A i, j \in DOMAIN batch :
        i < j /\ batch[i].type = "execute" => batch[j].type # "migrate"

(***************************************************************************)
(* A protocol leaves the registry together with all of its contracts: a    *)
(* transaction makes void the contracts of those that leave, and of no     *)
(* other.  Treasury relies on it, as it asks the pools and the oracles of  *)
(* all registered ones.                                                    *)
(***************************************************************************)
LeavesAsAWhole ==
    LET left == DOMAIN saved.protocols \ DOMAIN protocols
        of(n) == Range(saved.protocols[n])
    IN  ~Quiet /\ batch = <<>> =>
          \A a \in Addresses :
             (code[a] = VoidCode /\ saved.code[a] # VoidCode)
                <=> \E n \in left : a \in of(n) /\ saved.code[a] # VoidCode

----------------------------------------------------------------------------
(***************************************************************************)
(* The inductive invariant.  A protocol gets deregistered by the first     *)
(* message of its transaction, so nothing but what that message sends      *)
(* follows.                                                                *)
(***************************************************************************)
DeregistersFirst ==
    \A i \in DOMAIN batch : batch[i].type = "deregister" => Len(batch) = 1

AdminInv ==
    /\ Quiet => batch = <<>>
    /\ DOMAIN protocols \subseteq Names
    /\ Quiet \/ DOMAIN saved.protocols \subseteq Names
    /\ batch \in Seq(Range(batch))
    /\ MigratedBeforeTold
    /\ DeregistersFirst

(***************************************************************************)
(* LeavesAsAWhole rests on what the proposals and the releases are: none   *)
(* migrates contracts to void but by the removal of their protocol, and no *)
(* code but void may pass for part of the void release.                    *)
(***************************************************************************)
VoidLeftToRemoval ==
    /\ \A spec \in MigrationSpecs :
         /\ \A kind \in DOMAIN spec.platform : spec.platform[kind].code # VoidCode
         /\ \A n \in DOMAIN spec.protocol :
              \A kind \in DOMAIN spec.protocol[n].contracts :
                 spec.protocol[n].contracts[kind].code # VoidCode
    /\ \A c \in Codes \ {VoidCode} : Package[c].release # VOID

\* The contracts that have become void since the transaction started
Voided == {a \in Addresses : code[a] = VoidCode /\ saved.code[a] # VoidCode}

\* No protocol has left, and neither a contract has become void nor is to
NoneLeaves ==
    /\ protocols = saved.protocols
    /\ Voided = {}
    /\ \A i \in DOMAIN batch :
         /\ batch[i].type = "migrate" => batch[i].code # VoidCode
         /\ batch[i].type = "deregister" => batch[i].spec \in VoidSpecs

\* A protocol has left, and each of its contracts is void or is to become
Leaves(n) ==
    LET contracts == Range(saved.protocols[n])
        toMigrate == {i \in DOMAIN batch : batch[i].type = "migrate"}
    IN  /\ DOMAIN saved.protocols \ DOMAIN protocols = {n}
        /\ Voided \subseteq contracts
        /\ \A i \in DOMAIN batch : batch[i].type \in {"migrate", "execute"}
        /\ \A i \in toMigrate : batch[i].release = VOID /\ batch[i].code \in Codes
                                 /\ batch[i].address \in contracts
        /\ \A a \in contracts :
             code[a] = VoidCode \/ \E i \in toMigrate : batch[i].address = a

\* The inductive invariant of LeavesAsAWhole, on top of AdminInv
LeavingInv ==
    /\ code = [a \in Addresses |-> code[a]]
    /\ Range(protocols) \subseteq ProtocolContracts
    /\ ~Quiet => /\ saved.code = [a \in Addresses |-> saved.code[a]]
                 /\ Range(saved.protocols) \subseteq ProtocolContracts
                 /\ NoneLeaves \/ \E n \in DOMAIN saved.protocols : Leaves(n)
=============================================================================
