----------------------------- MODULE MCPlatform -----------------------------
(***************************************************************************)
(* One protocol is registered, another is to be: its pool is not there yet *)
(* and gets instantiated with the previous or with the present code.  All  *)
(* other contracts run the previous codes.                                 *)
(***************************************************************************)
EXTENDS Platform

Kinds == Range(PlatformKinds) \cup Range(ProtocolKinds)

Previous(kind) == kind \o "-1"

Present(kind) == kind \o "-2"

MCVoidCode == "void"

MCLegacyCodes == {Previous(kind) : kind \in Kinds}

MCCodes == MCLegacyCodes \cup {Present(kind) : kind \in Kinds} \cup {MCVoidCode}

PackageOf(kind, patch, software) ==
    [name |-> kind, version |-> <<0, 8, patch>>, storage |-> 1,
     release |-> [software |-> software, protocol |-> "p"]]

MCPackage ==
    [c \in MCCodes |->
        IF c = MCVoidCode THEN PackageOf("void", 1, "s2")
        ELSE LET kind == CHOOSE k \in Kinds : c \in {Previous(k), Present(k)}
             IN  IF c = Previous(kind) THEN PackageOf(kind, 1, "s1")
                                       ELSE PackageOf(kind, 2, "s2")]

MCNames == {1, 2}

\* Of contracts: the protocol, or 0, and the kind; there may be two pools
MCPlatformAddresses == [kind \in Range(PlatformKinds) |-> <<0, kind>>]

SetOf(n, lpp) ==
    [kind \in Range(ProtocolKinds) |-> IF kind = "lpp" THEN <<n, lpp>> ELSE <<n, kind>>]

MCRegistrations ==
    {[name |-> 1, contracts |-> SetOf(1, "lpp")],
     [name |-> 2, contracts |-> SetOf(2, "lpp")],
     [name |-> 2, contracts |-> SetOf(2, "new lpp")]}

MCAddresses ==
    Range(MCPlatformAddresses) \cup UNION {Range(r.contracts) : r \in MCRegistrations}

NotYet == {<<2, "lpp">>, <<2, "new lpp">>}

MCInitialCodes ==
    [a \in MCAddresses |-> IF a \in NotYet THEN None ELSE Previous(a[2])]

MCInitialProtocols == [n \in {1} |-> SetOf(1, "lpp")]

MCInstantiateCodes == {Previous("lpp"), Present("lpp")}

MCInstantiateAddress ==
    [pair \in MCInstantiateCodes \X MCNames |->
        CASE pair[2] = 1 -> <<1, "lpp">>
          [] pair = <<Previous("lpp"), 2>> -> <<2, "lpp">>
          [] pair = <<Present("lpp"), 2>> -> <<2, "new lpp">>]

SpecOf(kind, post) == [code |-> Present(kind), post |-> post]

\* All but one of the contracts are told nothing past their migration
AllOf(kinds, one, post) ==
    [kind \in Range(kinds) |-> SpecOf(kind, IF kind = one THEN post ELSE NoMessage)]

NoneOf == [kind \in {} |-> NoMessage]

ForProtocols(set, release, granular) ==
    [n \in set |-> [release |-> release, contracts |-> granular]]

MCMigrationSpecs ==
    {[platform |-> AllOf(PlatformKinds, "timealarms", "message"),
      protocol |-> ForProtocols(set, release,
                                 AllOf(ProtocolKinds, "leaser", "message"))] :
        set \in {{1}, {1, 2}}, release \in {"p", "q"}}
    \cup
    {[platform |-> NoneOf,
      protocol |-> [n \in {1, 2} |-> [release |-> "p",
                        contracts |-> IF n = 1 THEN NoneOf
                                      ELSE [kind \in {"oracle"} |-> SpecOf(kind, NoMessage)]]]]}

MCExecuteSpecs ==
    {[platform |-> [kind \in {"treasury"} |-> "message"],
      protocol |-> [n \in {1, 2} |->
                        [kind \in {"leaser", "reserve"} |-> "message"]]],
     [platform |-> NoneOf, protocol |-> [n \in {1} |-> [kind \in {"lpp"} |-> "message"]]]}

MCVoidSpecs ==
    {[kind \in Range(ProtocolKinds) |-> [code |-> MCVoidCode, post |-> NoMessage]],
     [kind \in Range(ProtocolKinds) |-> [code |-> Present(kind), post |-> NoMessage]]}

\* The packages and the specifications above are such
ASSUME ProperRemoval == VoidLeftToRemoval

Pool(answers) == [answers |-> answers, balance |-> 10, nls |-> Price(1, 1)]

MCPools == <<{Pool(TRUE), Pool(FALSE)}, {Pool(TRUE)}>>

Bar(value, rate) == [tvl |-> value, apr |-> rate]

MCRewardScales ==
    {<<Bar(1, 100), Bar(0, 200)>>, <<Bar(1, 300)>>}

MCEarnings == {[nls |-> 4, rest |-> 1]}
=============================================================================
