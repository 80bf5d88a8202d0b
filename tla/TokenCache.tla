----------------------------- MODULE TokenCache -----------------------------
(* rb-github's cache of one installation's access token: readers take a      *)
(* fresh token without a lock, the others queue on the installation's mutex, *)
(* look again and mint.  Time is counted in ticks of ten minutes.            *)
(*                                                                           *)
(* Bounds: MaxMints mints.                                                   *)
EXTENDS Naturals, FiniteSets

CONSTANTS Callers,
          LIFE,            \* ticks a minted token lives: six
          SAFETY_MARGIN,   \* one
          MaxMints

ASSUME TokenCacheAssumption ==
    /\ LIFE \in Nat /\ SAFETY_MARGIN \in Nat /\ SAFETY_MARGIN < LIFE
    /\ MaxMints \in Nat
    /\ "-" \notin Callers

VARIABLES
    cached,    \* ticks left of the token in the map, or NoToken
    mutex,     \* the caller that holds the installation's mutex, or "-"
    want,      \* [Callers -> "idle", "queued", "minting" or "using"]
    left,      \* [Callers -> ticks left of the token it uses]
    age,       \* [Callers -> ticks since it was handed out]
    minted,    \* mints so far
    needless   \* history: a mint was begun while a fresh token was cached

NoToken == LIFE + 1
tokVars == <<cached, mutex, want, left, age, minted, needless>>

TokInit ==
    /\ cached = NoToken /\ mutex = "-" /\ minted = 0 /\ needless = FALSE
    /\ want = [c \in Callers |-> "idle"]
    /\ left = [c \in Callers |-> 0] /\ age = [c \in Callers |-> 0]

\* Mutant: a token is fresh while it lives.
ReadAlive == cached # NoToken /\ cached > 0
ReadFresh == cached # NoToken /\ cached > SAFETY_MARGIN
HandOut(c, n) ==
    /\ want' = [want EXCEPT ![c] = "using"]
    /\ left' = [left EXCEPT ![c] = n] /\ age' = [age EXCEPT ![c] = 0]

GetOrMint(c) ==
    /\ want[c] = "idle"
    /\ IF ReadFresh THEN HandOut(c, cached)
       ELSE want' = [want EXCEPT ![c] = "queued"] /\ UNCHANGED <<left, age>>
    /\ UNCHANGED <<cached, mutex, minted, needless>>
\* Mutant: the caller does not look again under the mutex.
MintAtOnce(c) ==
    /\ want[c] = "queued" /\ mutex = "-" /\ minted < MaxMints
    /\ want' = [want EXCEPT ![c] = "minting"] /\ mutex' = c
    /\ needless' = (needless \/ (cached # NoToken /\ cached > SAFETY_MARGIN))
    /\ UNCHANGED <<cached, minted, left, age>>
UnderMutex(c) ==
    /\ want[c] = "queued" /\ mutex = "-" /\ minted < MaxMints
    /\ IF ReadFresh THEN HandOut(c, cached) /\ UNCHANGED <<mutex, needless>>
       ELSE /\ want' = [want EXCEPT ![c] = "minting"] /\ mutex' = c
            /\ needless' = (needless \/ (cached # NoToken /\ cached > SAFETY_MARGIN))
            /\ UNCHANGED <<left, age>>
    /\ UNCHANGED <<cached, minted>>
\* GitHub answers the minter, or refuses: the error goes to this caller alone.
Mint(c) ==
    /\ want[c] = "minting" /\ mutex = c
    /\ minted' = minted + 1 /\ mutex' = "-"
    /\ \/ cached' = LIFE /\ HandOut(c, LIFE)
       \/ want' = [want EXCEPT ![c] = "idle"] /\ UNCHANGED <<cached, left, age>>
    /\ UNCHANGED needless
\* The caller's request is dropped, and the guard with it.
CallerGone(c) ==
    /\ want[c] \in {"queued", "minting"}
    /\ want' = [want EXCEPT ![c] = "idle"]
    /\ mutex' = IF mutex = c THEN "-" ELSE mutex
    /\ UNCHANGED <<cached, minted, needless, left, age>>
UseInstallationToken(c) ==
    /\ want[c] = "using"
    /\ want' = [want EXCEPT ![c] = "idle"]
    /\ left' = [left EXCEPT ![c] = 0] /\ age' = [age EXCEPT ![c] = 0]
    /\ UNCHANGED <<cached, mutex, minted, needless>>
EvictExpired ==
    /\ cached = 0
    /\ cached' = NoToken
    /\ UNCHANGED <<mutex, want, left, age, minted, needless>>
\* Ten minutes pass; a request ends long before it has held its token for them.
TenMinutes ==
    /\ \A c \in Callers : want[c] = "using" => age[c] < SAFETY_MARGIN
    /\ \A c \in Callers : want[c] # "minting"
    /\ cached' = IF cached \in {0, NoToken} THEN cached ELSE cached - 1
    /\ left' = [c \in Callers |-> IF left[c] = 0 THEN 0 ELSE left[c] - 1]
    /\ age' = [c \in Callers |-> IF want[c] = "using" THEN age[c] + 1 ELSE 0]
    /\ UNCHANGED <<mutex, want, minted, needless>>

TokNext ==
    \/ \E c \in Callers : GetOrMint(c) \/ UnderMutex(c) \/ Mint(c) \/ CallerGone(c) \/ UseInstallationToken(c)
    \/ EvictExpired \/ TenMinutes
TokSpec == TokInit /\ [][TokNext]_tokVars

----------------------------------------------------------------------------
\* A caller that keeps its token no longer than SAFETY_MARGIN presents one that
\* GitHub still takes, wherever it came from.
TokenAlive == \A c \in Callers : want[c] = "using" => left[c] > 0

\* Callers that miss at once make one mint: who has waited finds the token.
NoNeedlessMint == ~needless /\ Cardinality({c \in Callers : want[c] = "minting"}) <= 1

\* The cache hands out living tokens and mints no more than it must.
TokenCacheHolds == TokenAlive /\ NoNeedlessMint
=============================================================================
