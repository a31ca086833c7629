----------------------------- MODULE MCSettings -----------------------------
EXTENDS Settings, TLC

CONSTANTS a1, a2

MCStrings ==
    {"", "local", "lan", "127.0.0.1", "0.0.0.0", "::1", "generic", "chainway",
     "0 (unlimited)", "0 (never)", "unlimited", "1000", "5", "c", "t"}

MCIds == {a1, a2}

\* The ids are alike: the files below come with either.
Symmetry == Permutations(MCIds)

MCProtocols == <<"generic", "chainway">>

MCTexts ==
    [company_id        |-> {"c"},
     web_access_mode   |-> {"local", "lan"},
     web_auth_token    |-> {},
     warning_threshold |-> {"0 (never)"}]

MCNumerals == [t \in {"1000", "5"} |-> IF t = "5" THEN 5 ELSE 1000]

\* It leaves out what has a default, and has no token: with it a save for an
\* access over the network is refused.
First(id) ==
    [company_id |-> "c", web_access_mode |-> "", web_listen_addr |-> "",
     web_auth_token |-> "", warning_threshold |-> Unset, health_listen_addr |-> "::1",
     antennas |-> <<[id |-> id, protocol |-> "", located |-> FALSE]>>]

\* It is refused, and the environment is taken, which has a token.
Legacy(id) == [First(id) EXCEPT !.web_listen_addr = "0.0.0.0"]

MCFiles == {First(id) : id \in MCIds} \cup {Legacy(id) : id \in MCIds}

MCEnv ==
    [company_id |-> "c", web_access_mode |-> "local", web_listen_addr |-> "127.0.0.1",
     web_auth_token |-> "t", warning_threshold |-> 1000, health_listen_addr |-> "127.0.0.1",
     antennas |-> <<>>]
=============================================================================
