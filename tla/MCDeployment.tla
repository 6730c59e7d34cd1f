----------------------------- MODULE MCDeployment -----------------------------
(***************************************************************************)
(* Instances of the deployment for TLC.                                    *)
(***************************************************************************)
EXTENDS DeploymentProperties

\* The launch of 6_misc.ts:51 with the addresses of the mainnet and the configured market rates, and
\* a market of one reserve on which list-token lists MCHC later.
LaunchAll  == <<"WETH", "WOAS", "WBTC", "MCHC">>
LaunchOne  == <<"WETH">>
Assets     == {"WOAS", "WETH", "WBTC", "USDC", "MCHC"}
Rates      == {"WETH", "WOAS", "USDT", "USDC", "WBTC"}
Kinds      == [s \in Symbols |-> IF s = "MCHC" THEN "none" ELSE "some"]

\* Users deposit into the first pool there is.
FirstPool  == <<{"MCHC"}>>

\* A first crash among the libraries or in the initialization, a second while the contracts are
\* deployed again: one is on chain and not in the file then, so that old and new ones are mixed.
NoCrash    == <<>>
TwoCrashes == <<{1, 3}, {2}>>
Recorded   == {"register", "set", "authorize", "initialize", "setImpl", "insertProxy",
               "batchInitReserve", "collect", "configure"}
=============================================================================
