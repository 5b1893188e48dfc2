----------------------------- MODULE MCServices -----------------------------
(* Kodi pairing, the policy of discovery, the sync of debrid accounts and   *)
(* the mapping of anime, each on its own.                                    *)
EXTENDS KodiPairing, DiscoveryPolicy, AccountSync, AnimeMapping, TLC

CONSTANTS a1, a2, p1, k1, k2,       \* pairing
          w1, w2,                   \* discovery
          r1, r2, g1, g2,           \* account sync
          b1, b2                    \* anime

\* Codes, and add-ons, can be exchanged, and so can requests, and magnets.
Exchanges(S, T) == {f @@ g : f \in Permutations(S), g \in Permutations(T)}
Alike == Exchanges(Code, Addon) \cup Exchanges(Request, Magnet)

\* A negative setting, none, and an odd and an even watermark in any order.
Settings == {-1, 0, 1, 3, 4}

VARIABLE part   \* the component that runs

SuiteInit ==
    /\ part \in {"kodi", "discovery", "account", "anime"}
    /\ Init /\ (part = "discovery" \/ (low = 0 /\ high = 0 /\ hard = 0 /\ queue = 0))
    /\ SyncInit /\ (part = "account" \/ account = <<>>)
    /\ AnimeInit /\ (part = "anime" \/ period = 0)
    /\ KodiInit
SuiteNext ==
    /\ UNCHANGED part
    /\ \/ part = "kodi" /\ KodiNext /\ UNCHANGED <<vars, syncVars, animeVars>>
       \/ part = "discovery" /\ Next /\ UNCHANGED <<kodiVars, syncVars, animeVars>>
       \/ part = "account" /\ AccountSyncNext /\ UNCHANGED <<kodiVars, vars, animeVars>>
       \/ part = "anime" /\ AnimeNext /\ UNCHANGED <<kodiVars, vars, syncVars>>

SuiteSpec == SuiteInit /\ [][SuiteNext]_<<part, kodiVars, vars, syncVars, animeVars>>
=============================================================================
