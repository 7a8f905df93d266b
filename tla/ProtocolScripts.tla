---------------------------- MODULE ProtocolScripts ----------------------------
(* The scripts of deploy/ and js-helpers/configProtocol.js as sequences of    *)
(* steps for ScriptRunner, and what has to hold while an operator runs them.  *)
(* A slot is named after the contract that keeps it and the setter's subject. *)
EXTENDS ScriptRunner, SequencesExt, FiniteSetsExt

Load(C) == <<[op |-> "load", contracts |-> C]>>
DeployNew(c) == [op |-> "deploy", contracts |-> {c}]
Save(C) == <<[op |-> "save", contracts |-> C]>>
Throws == <<[op |-> "throw"]>>

Tx(id, retried, holder, puts, adds, record) ==
    [op |-> "tx", id |-> id, retried |-> retried, holder |-> holder,
     puts |-> puts, adds |-> adds, once |-> FALSE, draws |-> {}, record |-> record]

(* The transaction can land once; as often as what it takes has been given.   *)
Once(tx) == [tx EXCEPT !.once = TRUE]
DrawsOn(tx, holder, slot) == [tx EXCEPT !.draws = {<<holder, slot>>}]

(* executeTx(id, ...) of a setter, of an adding call; the same without it.    *)
Set(id, holder, slot, value) == Tx(id, TRUE, holder, {<<slot, value>>}, {}, NoRecord)
Add(id, holder, slot) == Tx(id, TRUE, holder, {}, {slot}, NoRecord)
RawSet(holder, slot, value) == Tx("raw", FALSE, holder, {<<slot, value>>}, {}, NoRecord)
RawAdd(holder, slot) == Tx("raw", FALSE, holder, {}, {slot}, NoRecord)
Enable(id, C) == Tx(id, TRUE, "ChargedSettings", {<<"settings.enabled " \o c, c>> : c \in C}, {}, NoRecord)

DeployAndSave(c) == <<DeployNew(c)>> \o Save({c})
InTurn(Op(_), cs) == FlattenSeq([i \in DOMAIN cs |-> Op(cs[i])])

MAINNET == 1
HARDHAT == 31337
IsProd(chain) == chain \in {1, 137}
IsHardhat(chain) == chain \notin {1, 137, 3, 4, 5, 42, 1442, 80001}

-------------------------------------------------------------------------------
(* deploy-fresh-v2: contracts, then configProtocol.                           *)

ProtocolPlan == InTurn(DeployAndSave, <<"Universe", "ChargedState", "ChargedSettings",
    "ChargedManagers", "ChargedParticles", "TokenInfoProxy", "ParticleSplitter">>)

GenericPlan == InTurn(DeployAndSave, <<"GenericWalletManager", "GenericWalletManagerB",
    "GenericBasketManager", "GenericBasketManagerB">>)

AavePlan == InTurn(DeployAndSave, <<"AaveWalletManager", "AaveWalletManagerB">>)

(* Unlike the others, this script saves once, when everything is deployed.    *)
Tokens(chain) ==
    <<"Proton", "ProtonB", "ProtonC">>
      \o (IF IsHardhat(chain) THEN <<"Lepton">> ELSE <<>>)
      \o <<"Lepton2", "Ionx">>
      \o (IF IsProd(chain) THEN <<>> ELSE <<"ExternalERC721", "NonFungibleERC1155", "FungibleERC1155">>)
TokensPlan(chain) ==
    [i \in DOMAIN Tokens(chain) |-> DeployNew(Tokens(chain)[i])] \o Save(ToSet(Tokens(chain)))

SetupLoads(chain) == Load(
    {"Universe", "ChargedState", "ChargedSettings", "ChargedManagers", "ChargedParticles",
     "ParticleSplitter", "TokenInfoProxy", "AaveWalletManager", "AaveWalletManagerB",
     "GenericWalletManager", "GenericWalletManagerB", "GenericBasketManager",
     "GenericBasketManagerB", "Proton", "ProtonB", "Lepton2", "Ionx"}
      \cup IF IsHardhat(chain) THEN {"Lepton"} ELSE {})

SetupProtocol == <<
    Set("1-a", "Universe", "universe.chargedParticles", "ChargedParticles"),
    Set("1-b", "ChargedParticles", "escrow.universe", "Universe"),
    Set("1-c", "ChargedParticles", "escrow.state", "ChargedState"),
    Set("1-d", "ChargedParticles", "escrow.settings", "ChargedSettings"),
    Set("1-e", "ChargedParticles", "escrow.managers", "ChargedManagers"),
    Set("1-f", "ChargedParticles", "escrow.tokeninfo", "TokenInfoProxy"),
    Set("1-h", "ChargedSettings", "settings.tokeninfo", "TokenInfoProxy"),
    Set("1-i", "ChargedState", "state.settings", "ChargedSettings"),
    Set("1-j", "ChargedState", "state.tokeninfo", "TokenInfoProxy"),
    Set("1-k", "ChargedManagers", "managers.settings", "ChargedSettings"),
    Set("1-l", "ChargedManagers", "managers.state", "ChargedState"),
    Set("1-m", "ChargedManagers", "managers.tokeninfo", "TokenInfoProxy"),
    Set("1-n", "ParticleSplitter", "splitter.managers", "ChargedManagers"),
    Set("1-o", "ParticleSplitter", "splitter.tokeninfo", "TokenInfoProxy"),
    Set("1-p", "ChargedSettings", "settings.tempLockExpiryBlocks", "given") >>

SetupGeneric == <<
    Set("2-a", "GenericWalletManager", "generic wallets.controller", "ChargedParticles"),
    Set("2-b", "ChargedManagers", "managers.wallets generic", "GenericWalletManager"),
    Set("2-c", "GenericWalletManagerB", "generic.B wallets.controller", "ChargedParticles"),
    Set("2-d", "ChargedManagers", "managers.wallets generic.B", "GenericWalletManagerB"),
    Set("2-e", "GenericBasketManager", "generic baskets.controller", "ChargedParticles"),
    Set("2-f", "ChargedManagers", "managers.baskets generic", "GenericBasketManager"),
    Set("2-g", "GenericBasketManagerB", "generic.B baskets.controller", "ChargedParticles"),
    Set("2-h", "ChargedManagers", "managers.baskets generic.B", "GenericBasketManagerB"),
    Set("2-i", "GenericBasketManagerB", "generic.B baskets.tokeninfo", "TokenInfoProxy") >>

SetupAave == <<
    Set("3-a", "AaveWalletManager", "aave wallets.controller", "ChargedParticles"),
    Set("3-c", "ChargedManagers", "managers.wallets aave", "AaveWalletManager"),
    Set("3-e", "AaveWalletManagerB", "aave.B wallets.controller", "ChargedParticles"),
    Set("3-g", "ChargedManagers", "managers.wallets aave.B", "AaveWalletManagerB"),
    Set("3-h", "AaveWalletManagerB", "aave.B wallets.settings", "ChargedSettings") >>

SetupProton == <<
    Set("4-a", "Proton", "proton.universe", "Universe"),
    Set("4-b", "Proton", "proton.state", "ChargedState"),
    Set("4-c", "Proton", "proton.settings", "ChargedSettings"),
    Set("4-d", "Proton", "proton.particles", "ChargedParticles"),
    Enable("4-e", {"Proton"}) >>

(* The ids 4-a to 4-e a second time.                                          *)
SetupProtonB == <<
    Set("4-a", "ProtonB", "protonB.universe", "Universe"),
    Set("4-b", "ProtonB", "protonB.state", "ChargedState"),
    Set("4-c", "ProtonB", "protonB.settings", "ChargedSettings"),
    Set("4-d", "ProtonB", "protonB.particles", "ChargedParticles"),
    Enable("4-e", {"ProtonB"}),
    Set("4-f", "Proton", "proton.universe", "zero"),
    Set("4-g", "Universe", "universe.protonToken", "ProtonB") >>

(* addLeptonType appends one after the other of presets.Lepton.types, 6.      *)
LeptonTypes == 6
AddLeptonTypes(prefix, lepton) ==
    [i \in 1 .. LeptonTypes |-> Add(prefix \o ToString(i - 1), lepton, lepton \o " types")]

SetupLepton2 == <<
    Set("9-a", "Lepton2", "lepton2.maxMintPerTx", "given"),
    Set("9-b", "ChargedParticles", "escrow.leptons", "Lepton2"),
    Enable("9-c", {"Lepton2"}) >>
      \o AddLeptonTypes("9-d-", "Lepton2")

SetupExecutors == <<
    Set("11-a", "GenericWalletManagerB", "generic.B wallets.executor", "ParticleSplitter"),
    Set("11-b", "GenericBasketManagerB", "generic.B baskets.executor", "ParticleSplitter") >>

SetupPlan(chain) ==
    SetupLoads(chain) \o SetupProtocol \o SetupGeneric \o SetupAave
      \o SetupProton \o SetupProtonB \o SetupLepton2 \o SetupExecutors

-------------------------------------------------------------------------------
(* The scripts that change a running protocol.                                *)

(* The proxy keeps its address; what follows is configProtocol once more.     *)
UpgradePlan(chain) ==
    Load({"Universe"}) \o <<RawAdd("Universe", "universe.upgraded")>> \o Save({"Universe"})
      \o SetupPlan(chain)

(* The universe and the program are wired to each other before the escrow     *)
(* calls the universe, all but the program's check of its caller.             *)
PrepareProgram(id, universe, program, ionx, lepton) == <<
    Set(id[1], program, program \o ".rewardToken", ionx),
    Set(id[2], program, program \o ".baseMultiplier", "given"),
    Set(id[3], program, program \o ".managers", "ChargedManagers"),
    Set(id[4], program, program \o ".rewardNft", lepton),
    Set(id[5], universe, universe \o ".program", program),
    Set(id[6], universe, universe \o ".chargedParticles", "ChargedParticles") >>
CallUniverse(id, universe) == <<Set(id[7], "ChargedParticles", "escrow.universe", universe)>>
CheckCaller(id, universe, program) == <<Set(id[8], program, program \o ".universe", universe)>>

\* mutant of ConnectProgram: the program is never told of its universe
ConnectOneWay(id, universe, program, ionx, lepton) ==
    PrepareProgram(id, universe, program, ionx, lepton) \o CallUniverse(id, universe)
ConnectProgram(id, universe, program, ionx, lepton) ==
    PrepareProgram(id, universe, program, ionx, lepton) \o CallUniverse(id, universe)
      \o CheckCaller(id, universe, program)

RewardsPlan ==
    Load({"ChargedParticles", "ChargedManagers", "ChargedSettings", "Lepton2", "Ionx",
          "Proton", "ProtonB", "ProtonC"})
      \o InTurn(DeployAndSave, <<"UniverseRP", "RewardProgram">>)
      \o ConnectProgram(<<"1-b", "1-c", "1-d", "1-e", "1-f", "1-g", "1-h", "1-i">>,
                        "UniverseRP", "RewardProgram", "Ionx", "Lepton2")
      \o << Set("1-j", "Proton", "proton.universe", "zero"),
            Set("1-k", "ProtonB", "protonB.universe", "zero"),
            Enable("1-l", {"Proton", "ProtonB", "ProtonC"}) >>

(* The fakes stand in for the tokens and the program of a test network.       *)
DeployFakes ==
    Load({"ChargedParticles", "ChargedManagers"})
      \o InTurn(DeployAndSave, <<"FakeLepton2", "FakeIonx", "FakeUniverseRP", "FakeRewardProgram">>)
FakeRewardsPlan ==
    DeployFakes
      \o << Set("1-a", "FakeLepton2", "fake lepton2.maxMintPerTx", "given"),
            Set("1-b", "ChargedParticles", "escrow.leptons", "FakeLepton2") >>
      \o AddLeptonTypes("1-d-", "FakeLepton2")
      \o << Set("2-a", "FakeIonx", "fake ionx.minter", "given") >>
      \o ConnectProgram(<<"3-b", "3-c", "3-d", "3-e", "3-f", "3-g", "3-h", "3-i">>,
                        "FakeUniverseRP", "FakeRewardProgram", "FakeIonx", "FakeLepton2")
      \o << Once(Add("3-k", "FakeIonx", "fake ionx.minted")),
            Add("3-l", "FakeIonx", "fake ionx.allowance"),
            DrawsOn(Add("3-m", "FakeRewardProgram", "funded FakeRewardProgram"),
                    "FakeIonx", "fake ionx.allowance") >>

(* scripts/ionx_lepton_reward_setup.js *)
RewardSetupPlan ==
    Load({"Lepton2", "Ionx", "RewardProgram"})
      \o << RawSet("Lepton2", "lepton2.unpaused", "given"),
            RawAdd("Lepton2", "lepton2.minted"),
            RawAdd("Lepton2", "lepton2.given away"),
            RawSet("Ionx", "ionx.allowance of program", "RewardProgram"),
            RawAdd("RewardProgram", "funded RewardProgram") >>

ProtonCPlan ==
    Load({"Universe", "ChargedState", "ChargedSettings", "ChargedParticles"})
      \o DeployAndSave("ProtonC")
      \o << Set("1-b", "ProtonC", "protonC.state", "ChargedState"),
            Set("1-c", "ProtonC", "protonC.settings", "ChargedSettings"),
            Set("1-d", "ProtonC", "protonC.particles", "ChargedParticles"),
            Enable("1-e", {"ProtonC"}) >>

(* The list is filled at run time for the local chain; on disk it has an      *)
(* entry for Polygon alone, a contract of others.                             *)
WhitelistPlan(chain) ==
    Load({"ChargedSettings", "Proton", "ProtonB", "Lepton", "TokenInfoProxy"})
      \o (IF IsHardhat(chain)
            THEN Load({"ExternalERC721"}) \o <<Enable("1-a", {"Proton", "ProtonB", "Lepton", "ExternalERC721"})>>
          ELSE IF chain = 137 THEN <<Set("1-a", "ChargedSettings", "settings.enabled Land", "given")>>
          ELSE <<>>)

(* A record of the old protocol, if it is not tracked, is sent to the new one *)
(* and then tracked.                                                          *)
MigrateToken(id, holder, r) ==
    <<Tx(id, TRUE, holder, {<<UserSlot[r], "migrated">>}, {}, r), [op |-> "track", record |-> r]>>
MigrateAll(prefix, holder, rs) ==
    FlattenSeq([i \in DOMAIN rs |-> MigrateToken(prefix \o ToString(i), holder, rs[i])])
MigrationPlan(chain, accounts, nfts) ==
    IF IsHardhat(chain) THEN <<>>
    ELSE Load({"ChargedState", "ChargedSettings"})
           \o MigrateAll("8-a-", "ChargedSettings", accounts)
           \o MigrateAll("8-c-", "ChargedState", Reverse(nfts))

-------------------------------------------------------------------------------
(* Funds.                                                                     *)

Fund(c) == RawAdd(c, "funded " \o c)       \* distributeInitialFunds

(* MerkleDistributor2 and 3 are constants of a block that has ended when they *)
(* are used: a ReferenceError on every chain but the local one.               *)
AirdropPlan(chain) ==
    Load({"Ionx"}) \o <<DeployNew("MerkleDistributor")>>
      \o (IF IsHardhat(chain) THEN <<>>
          ELSE <<DeployNew("MerkleDistributor2"), DeployNew("MerkleDistributor3")>>)
      \o (IF chain = MAINNET THEN <<>> ELSE <<Fund("MerkleDistributor")>>)
      \o (IF IsHardhat(chain) THEN <<>> ELSE Throws)
      \o Save({"MerkleDistributor"})

IncentivesPlan(chain) ==
    LET vault == IF IsHardhat(chain) THEN <<DeployNew("CommunityVault")>> ELSE Load({"CommunityVault"})
        new == {"Staking", "IonxYieldFarm", "LPYieldFarm"}
    IN Load({"Ionx"}) \o vault
         \o << DeployNew("Staking"), DeployNew("IonxYieldFarm"),
               RawSet("CommunityVault", "vault.allowance of ionx farm", "IonxYieldFarm"),
               DeployNew("LPYieldFarm"),
               RawSet("CommunityVault", "vault.allowance of lp farm", "LPYieldFarm") >>
         \o (IF chain = MAINNET THEN <<>> ELSE <<Fund("CommunityVault")>>)
         \o Save(new \cup IF IsHardhat(chain) THEN {"CommunityVault"} ELSE {})

VestingPlan(chain) ==
    Load({"Ionx"}) \o <<DeployNew("VestingClaim7")>>
      \o (IF chain = MAINNET THEN <<>> ELSE <<Fund("VestingClaim7")>>)
      \o Save({"VestingClaim7"})

(* The whole supply, which can be minted once a year; the script ends without *)
(* waiting for the receipt.                                                   *)
MintIonxPlan ==
    Load({"Ionx"}) \o <<RawSet("Ionx", "ionx.minter", "given"), Once(RawAdd("Ionx", "ionx.minted"))>>

(* A batch of 100, taken to be the last one: the contract refuses any call    *)
(* after it.                                                                  *)
MigrateLeptonsPlan(chain) ==
    IF chain = MAINNET
      THEN Load({"Lepton", "Lepton2"}) \o <<Once(RawAdd("Lepton2", "lepton2.migrated accounts"))>>
      ELSE <<>>

(* Named after pausing, with _PAUSED_STATE = false; sent one after the other  *)
(* without waiting for receipts, so that a step is done when it is sent.      *)
PauseAllPlan(chain) ==
    IF chain # MAINNET THEN <<>>
    ELSE Load({"AaveWalletManager", "GenericWalletManager", "GenericBasketManager", "AaveWalletManagerB",
               "GenericWalletManagerB", "GenericBasketManagerB", "Proton", "Lepton", "Lepton2"})
           \o << RawSet("GenericWalletManager", "generic wallets.unpaused", "given"),
                 RawSet("GenericBasketManager", "generic baskets.unpaused", "given"),
                 RawSet("AaveWalletManager", "aave wallets.unpaused", "given"),
                 RawSet("Proton", "proton.unpaused", "given"),
                 RawSet("Lepton", "lepton.unpaused", "given"),
                 RawSet("Lepton2", "lepton2.unpaused", "given") >>

(* Every transfer is to `owner`, a name that nothing defines: a ReferenceError *)
(* before the first of them.                                                  *)
TransferOwnerPlan(chain) ==
    IF chain # MAINNET THEN <<>>
    ELSE Load({"Universe", "ChargedState", "ChargedSettings", "ChargedParticles", "AaveWalletManager",
               "AaveBridgeV2", "GenericWalletManager", "GenericBasketManager", "Proton", "Lepton", "Ionx"})
           \o Throws

-------------------------------------------------------------------------------
(* Test tokens, minted and bonded one into the other.                         *)

Mint(c, token) == RawAdd(c, "minted " \o token)
Bond(c, inner, outer) ==
    <<RawSet(c, c \o ".operator", "ChargedParticles"),
      RawAdd("ChargedParticles", "bonded " \o inner \o " into " \o outer)>>
Protons == <<"A0", "A1", "A2", "B3", "B4", "B5", "B6", "B7", "B8", "B9">>
Externals == <<"E0", "E1", "E2">>

MintTokensLoads ==
    Load({"ChargedParticles", "Proton", "ProtonB", "Lepton", "ExternalERC721", "FungibleERC1155",
          "NonFungibleERC1155"})
MintTokensPlan ==
    MintTokensLoads
      \o [i \in DOMAIN Externals |-> Mint("ExternalERC721", Externals[i])]
      \o << Mint("FungibleERC1155", "F0"), Mint("NonFungibleERC1155", "N0"),
            Mint("NonFungibleERC1155", "N1"), Mint("NonFungibleERC1155", "N2") >>
      \o [i \in DOMAIN Protons |-> Mint(IF i <= 3 THEN "Proton" ELSE "ProtonB", Protons[i])]
      \o Bond("ProtonB", "B3", "A0") \o Bond("Proton", "A1", "B4")
      \o Bond("FungibleERC1155", "F0", "A2") \o Bond("NonFungibleERC1155", "N0", "B5")
      \o Bond("ProtonB", "B9", "B8") \o Bond("ProtonB", "B8", "B7") \o Bond("ProtonB", "B7", "B6")

-------------------------------------------------------------------------------
(* What must hold, whatever fails on the way.                                 *)

(* Whom the contracts of the protocol call: each slot has to be set.          *)
ProtocolNeeds == {
    <<"ChargedParticles", "escrow.state", "ChargedState">>,
    <<"ChargedParticles", "escrow.settings", "ChargedSettings">>,
    <<"ChargedParticles", "escrow.managers", "ChargedManagers">>,
    <<"ChargedParticles", "escrow.tokeninfo", "TokenInfoProxy">>,
    <<"ChargedSettings", "settings.tokeninfo", "TokenInfoProxy">>,
    <<"ChargedState", "state.settings", "ChargedSettings">>,
    <<"ChargedState", "state.tokeninfo", "TokenInfoProxy">>,
    <<"ChargedManagers", "managers.settings", "ChargedSettings">>,
    <<"ChargedManagers", "managers.state", "ChargedState">>,
    <<"ChargedManagers", "managers.tokeninfo", "TokenInfoProxy">>,
    <<"ChargedManagers", "managers.wallets generic", "GenericWalletManager">>,
    <<"ChargedManagers", "managers.wallets generic.B", "GenericWalletManagerB">>,
    <<"ChargedManagers", "managers.wallets aave", "AaveWalletManager">>,
    <<"ChargedManagers", "managers.wallets aave.B", "AaveWalletManagerB">>,
    <<"ChargedManagers", "managers.baskets generic", "GenericBasketManager">>,
    <<"ChargedManagers", "managers.baskets generic.B", "GenericBasketManagerB">>,
    <<"GenericWalletManagerB", "generic.B wallets.controller", "ChargedParticles">>,
    <<"GenericWalletManagerB", "generic.B wallets.executor", "ParticleSplitter">>,
    <<"GenericBasketManagerB", "generic.B baskets.controller", "ChargedParticles">>,
    <<"GenericBasketManagerB", "generic.B baskets.executor", "ParticleSplitter">>,
    <<"AaveWalletManagerB", "aave.B wallets.controller", "ChargedParticles">>,
    <<"ParticleSplitter", "splitter.managers", "ChargedManagers">>,
    <<"ProtonB", "protonB.state", "ChargedState">>,
    <<"ProtonB", "protonB.settings", "ChargedSettings">>,
    <<"ProtonB", "protonB.particles", "ChargedParticles">>,
    <<"ChargedSettings", "settings.enabled ProtonB", "ProtonB">> }

RewardSettings(universe, program) ==
    [program |-> program, escrow |-> universe \o ".chargedParticles", link |-> universe \o ".program",
     settings |-> {program \o x : x \in {".rewardToken", ".baseMultiplier", ".managers", ".rewardNft"}}]
RewardPrograms == [UniverseRP |-> RewardSettings("UniverseRP", "RewardProgram"),
                   FakeUniverseRP |-> RewardSettings("FakeUniverseRP", "FakeRewardProgram")]

ProtocolPurse == [c \in {"MerkleDistributor", "CommunityVault", "VestingClaim7", "FakeRewardProgram",
                          "RewardProgram"} |-> "funded " \o c]

(* The program refuses calls of a universe it does not know, and with them    *)
(* the deposits of its asset: that window closes, by the next transaction, by *)
(* another one in a retry, or by a rerun that brings in other contracts.      *)
RewardsOpen(universe, n) ==
    LET own == Programs[universe]
    IN \E m \in Instances : /\ <<own.link, n, <<own.program, m>>>> \in wire
                           /\ <<own.program \o ".universe", m, <<universe, n>>>> \in wire
DepositsRefused ==
    \E universe \in DOMAIN Programs, e, n \in Instances : Calls(e, universe, n) /\ ~RewardsOpen(universe, n)
DepositsResume == DepositsRefused ~> ~DepositsRefused
================================================================================
