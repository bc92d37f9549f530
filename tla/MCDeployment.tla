---------------------------- MODULE MCDeployment ----------------------------
(***************************************************************************)
(* Two tables and three upgrades, two of them of one table, which is more  *)
(* than the list has today.  The environments: two that serve, with other  *)
(* secrets, limits, providers and debug modes; one whose provider has no   *)
(* key; and one each that fails a validator at its boundary.               *)
(***************************************************************************)
EXTENDS Deployment

MCTables == {"market_reports", "users"}
MCUpgrades == <<"market_reports", "market_reports", "users">>

Secret(n) == [name |-> n, placeholder |-> FALSE, bytes |-> 32, distinct |-> 12,
              entropy |-> 30]
Default ==
  [jwt_secret_key |-> Secret("first"), jwt_algorithm |-> "HS256",
   access_token_expire_minutes |-> 1, refresh_token_expire_minutes |-> 10080,
   auth_rate_limit_per_minute |-> 10, generation_rate_limit_per_minute |-> 0,
   market_cache_minutes |-> 0, market_refresh_per_hour |-> 6,
   ai_provider |-> "auto", keys |-> {"openai", "anthropic"}, debug |-> FALSE]

MCEnvironments ==
  {Default,
   [Default EXCEPT !.jwt_secret_key = Secret("second"), !.keys = {"anthropic"},
                   !.auth_rate_limit_per_minute = 0, !.debug = TRUE],
   [Default EXCEPT !.ai_provider = "openai", !.keys = {"anthropic"}],
   [Default EXCEPT !.jwt_secret_key.bytes = 31],
   [Default EXCEPT !.access_token_expire_minutes = 0]}
=============================================================================
