--------------------------- MODULE MCProtocolScripts ---------------------------
EXTENDS ProtocolScripts

On(chain, names) == [i \in DOMAIN names |-> <<names[i], chain>>]
Fresh(chain) == On(chain, <<"protocol", "generic", "aave", "tokens", "setup">>)

(* From nothing, command after command.  Mumbai has no Lepton, so that the    *)
(* whitelist of its NFTs finds no record; the airdrop and the transfer of the  *)
(* ownership throw on mainnet.                                                *)
UpgradeAgenda == <<Fresh(80001), On(80001, <<"protonC">>), On(80001, <<"fake-reward-deploy">>),
                   On(80001, <<"reward-deploy">>), On(80001, <<"upgrades">>),
                   On(80001, <<"migrations">>), On(80001, <<"whitelist-nfts">>)>>
LocalAgenda == <<Fresh(HARDHAT), On(HARDHAT, <<"mint-tokens">>), On(HARDHAT, <<"whitelist-nfts">>),
                 On(HARDHAT, <<"airdrop">>), On(HARDHAT, <<"incentives">>), On(HARDHAT, <<"vesting">>)>>
MainAgenda == <<Fresh(MAINNET), On(MAINNET, <<"protonC", "mint-ionx", "migrate-leptons", "pause-all">>),
                On(MAINNET, <<"incentives">>), On(MAINNET, <<"airdrop">>)>>
OwnerAgenda == <<Fresh(MAINNET), On(MAINNET, <<"transfer-owner">>)>>
RolloutAgendas == {UpgradeAgenda, LocalAgenda, MainAgenda, OwnerAgenda}
RolloutLegacy == [a \in RolloutAgendas |->
    IF a \in {MainAgenda, OwnerAgenda} THEN {"Lepton", "CommunityVault", "AaveBridgeV2"} ELSE {}]

(* On a protocol that is deployed.                                            *)
FakeRewardAgenda == <<On(5, <<"fake-reward-deploy">>)>>
RewardAgenda == <<On(5, <<"reward-deploy">>), On(5, <<"reward-setup">>)>>
SetupAgenda == <<On(5, <<"setup">>)>>
MigrationAgenda == <<On(80001, <<"migrations">>)>>
ProgramAgendas == {FakeRewardAgenda, RewardAgenda, SetupAgenda, MigrationAgenda}
Deployed(chain) == UNION {ToSet(p) : p \in {
    <<"Universe", "ChargedState", "ChargedSettings", "ChargedManagers", "ChargedParticles",
      "TokenInfoProxy", "ParticleSplitter", "GenericWalletManager", "GenericWalletManagerB",
      "GenericBasketManager", "GenericBasketManagerB", "AaveWalletManager", "AaveWalletManagerB">>,
    Tokens(chain)}}
ProgramLegacy == [a \in ProgramAgendas |-> Deployed(a[1][1][2])]

MCAgendas == RolloutAgendas \cup ProgramAgendas
MCScripts == UNION {UNION {ToSet(a[i]) : i \in DOMAIN a} : a \in MCAgendas}
MCResumable == {s \in MCScripts : s[1] = "setup"}

MCRecords == {"creator", "lock 1", "lock 2"}
MCUserSlot == [r \in MCRecords |-> "migrated " \o r]

PlanOf(name, chain) ==
    CASE name = "protocol" -> ProtocolPlan
      [] name = "generic" -> GenericPlan
      [] name = "aave" -> AavePlan
      [] name = "tokens" -> TokensPlan(chain)
      [] name = "setup" -> SetupPlan(chain)
      [] name = "upgrades" -> UpgradePlan(chain)
      [] name = "migrations" -> MigrationPlan(chain, <<"creator">>, <<"lock 1", "lock 2">>)
      [] name = "fake-reward-deploy" -> FakeRewardsPlan
      [] name = "reward-deploy" -> RewardsPlan
      [] name = "protonC" -> ProtonCPlan
      [] name = "whitelist-nfts" -> WhitelistPlan(chain)
      [] name = "airdrop" -> AirdropPlan(chain)
      [] name = "incentives" -> IncentivesPlan(chain)
      [] name = "vesting" -> VestingPlan(chain)
      [] name = "mint-ionx" -> MintIonxPlan
      [] name = "migrate-leptons" -> MigrateLeptonsPlan(chain)
      [] name = "pause-all" -> PauseAllPlan(chain)
      [] name = "transfer-owner" -> TransferOwnerPlan(chain)
      [] name = "reward-setup" -> RewardSetupPlan
      [] name = "mint-tokens" -> MintTokensPlan
MCPlan == [s \in MCScripts |-> PlanOf(s[1], s[2])]

AllSteps == UNION {ToSet(MCPlan[s]) : s \in MCScripts}
TxSteps == {step \in AllSteps : step.op = "tx"}
MCContracts == UNION {step.contracts : step \in {x \in AllSteps : x.op \in {"load", "deploy", "save"}}}
MCWords == {"user", "zero", "given", "migrated"}
MCSlots == UNION {{put[1] : put \in step.puts} : step \in TxSteps}
MCCounters == UNION {step.adds : step \in TxSteps}
================================================================================
