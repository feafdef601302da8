----------------------------- MODULE Versioning -----------------------------
(***************************************************************************)
(* What contracts check before they change: the code that may replace      *)
(* theirs and the sender's permission.                                     *)
(*                                                                         *)
(* Which code may replace which: package versioning, as the migrate entry  *)
(* points of all contracts use it.  A code is built from a package of some *)
(* version and storage layout, and carries the identifiers of the software *)
(* and of the protocol release it is part of.                              *)
(*                                                                         *)
(* Codes of this source tree keep no record of themselves in the storage   *)
(* of a contract.  Their predecessors, the legacy codes, did, under the    *)
(* key "contract_version".  The first code of this tree to come takes that *)
(* record away.                                                            *)
(***************************************************************************)
EXTENDS Integers

CONSTANTS
    Codes,          \* uploaded to the chain
    LegacyCodes,    \* the predecessors among them, external
    Package,        \* of each code: its name, version, storage and release
    VoidCode        \* of contract void

\* SemVer: major, minor and patch segments
SemVers == Nat \X Nat \X Nat

\* ProtocolPackageReleaseId
ReleaseIdsSet == [software : STRING, protocol : STRING]

\* software::Package and the releases that it is part of
Packages == [name : STRING, version : SemVers, storage : Nat,
             release : ReleaseIdsSet]

ASSUME VersioningAssumption ==
    /\ VoidCode \in Codes
    /\ LegacyCodes \subseteq Codes \ {VoidCode}
    /\ Package \in [Codes -> Packages]

\* ProtocolPackageReleaseId::VOID
VOID == [software |-> "void-release", protocol |-> "void-release"]

\* There is no "contract_version" in the storage
NoRecord == "no record"

\* What the instantiation of a contract leaves under "contract_version"
RecordOf(code) == IF code \in LegacyCodes THEN code ELSE NoRecord

----------------------------------------------------------------------------
(* software::PackageRelease *)

CheckReleaseMatch(to, to_software) == Package[to].release.software = to_software

\* The name of the previous package is given by the new code
CheckNameMatch(from, to) == Package[from].name = Package[to].name

\* The derived order of SemVer
VersionLe(v, w) ==
    \/ v[1] < w[1]
    \/ v[1] = w[1] /\ v[2] < w[2]
    \/ v[1] = w[1] /\ v[2] = w[2] /\ v[3] <= w[3]

CheckCodeSameOrNewer(from, to) ==
    VersionLe(Package[from].version, Package[to].version)

CheckStorageMatch(from, to) == Package[from].storage = Package[to].storage

\* PackageRelease::update_software
SoftwareUpdate(from, to, to_software) ==
    /\ CheckReleaseMatch(to, to_software)
    /\ CheckNameMatch(from, to)
    /\ CheckCodeSameOrNewer(from, to)
    /\ CheckStorageMatch(from, to)

(***************************************************************************)
(* protocol::Release.  Previously, no protocol has been kept.  It is       *)
(* assumed to be that of the new code.                                     *)
(***************************************************************************)
ProtocolUpdate(to, to_release) == Package[to].release.protocol = to_release.protocol

\* PackageRelease::pull_prev
MayPullPrev(record) == record # NoRecord

\* The entry point 'migrate' of the contracts of a protocol
MayUpdate(record, to, to_release) ==
    /\ MayPullPrev(record)
    /\ ProtocolUpdate(to, to_release)
    /\ SoftwareUpdate(record, to, to_release.software)

\* The entry point 'migrate' of the contracts of the platform
MayUpdatePlatform(record, to, to_software) ==
    /\ MayPullPrev(record)
    /\ SoftwareUpdate(record, to, to_software)

\* The entry point 'migrate' of contract void asks for nothing
MayMigrate(record, to, to_release) ==
    to = VoidCode \/ MayUpdate(record, to, to_release)

\* What a migration leaves under "contract_version"; void touches nothing
RecordAfter(record, to) == IF to = VoidCode THEN record ELSE NoRecord
----------------------------------------------------------------------------
(* Package access-control: a permission has a single user, kept in the     *)
(* storage of a contract.                                                  *)

\* SingleUserAccess::grant_to, whoever has had it
GrantTo(user) == user

\* Check: the user of the permission is the sender
Check(permitted_to, accessed_by) == permitted_to = accessed_by

\* ContractOwnerAccess, as SingleUserAccess under a key of its own
CheckOwner(owner, sender) == Check(owner, sender)
=============================================================================
