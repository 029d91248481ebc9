------------------------- MODULE AccessTokensProofs -------------------------
(***************************************************************************)
(* Proofs about AccessTokens, for any tokens, workers and keys, any length *)
(* of a second, any lifetime and any leeway.                               *)
(***************************************************************************)
EXTENDS AccessTokens, TLAPS

USE AccessTokensAssumption

----------------------------------------------------------------------------

LEMMA NoTokenIsNoToken == NoToken \notin Token /\ NoToken.step = "none"
BY DEF NoToken, Token

\* What is known of a token that was minted.
Minted == [step : {"minted"}, mintedAt : Nat, iat : Nat, kid : Keys, late : BOOLEAN,
           known : SUBSET Workers]

LEMMA MintedToken ==
  ASSUME AccessTokensTypeOK, NEW t \in Tokens, tokens[t].step = "minted"
  PROVE  tokens[t] \in Minted
<1>1. tokens[t] \in Token
  BY NoTokenIsNoToken DEF AccessTokensTypeOK
<1> QED BY <1>1 DEF Token, Minted

LEMMA AccessTokensInitIInv == AccessTokensInit => AccessTokensIInv
<1> SUFFICES ASSUME AccessTokensInit PROVE AccessTokensIInv
  OBVIOUS
<1>1. AccessTokensTypeOK
  BY DEF AccessTokensInit, AccessTokensTypeOK, Check
<1>2. \A t \in Tokens : tokens[t].step = "none" /\ checks[t].step = "idle"
  BY NoTokenIsNoToken DEF AccessTokensInit
<1> QED BY <1>1, <1>2 DEF AccessTokensIInv, TokenTimes, KeysKept

----------------------------------------------------------------------------
(* Types *)

LEMMA AccessTokensTypeStep ==
  ASSUME AccessTokensTypeOK, AccessTokensNext
  PROVE  AccessTokensTypeOK'
<1> USE DEF AccessTokensTypeOK
<1>1. ASSUME NEW t \in Tokens, CheckAccount(t) PROVE AccessTokensTypeOK'
  <2>1. [step |-> "checked", changedAt |-> account.changedAt] \in Token
    BY DEF Token
  <2> QED BY <1>1, <2>1 DEF CheckAccount
<1>2. ASSUME NEW t \in Tokens, LoadUser(t) PROVE AccessTokensTypeOK'
  <2>1. \A o \in {"accepted", "stale", "inactive"} : [step |-> o, at |-> 0] \in Check
    BY DEF Check
  <2>2. checks' \in [Tokens -> Check]
    BY <1>2, <2>1 DEF LoadUser, Concludes
  <2> QED BY <1>2, <2>2 DEF LoadUser
<1>3. ASSUME NEW t \in Tokens, NEW w \in Workers, Mint(t, w) PROVE AccessTokensTypeOK'
  <2>1. PICK iat \in WholeSeconds :
          tokens' = [tokens EXCEPT ![t] =
            [step |-> "minted", mintedAt |-> now, iat |-> iat, kid |-> keyring[w].current,
             late |-> account.changedAt \notin {tokens[t].changedAt, now},
             known |-> {v \in Workers : keyring[w].current \in Ring(v)}]]
    BY <1>3 DEF Mint
  <2>2. iat \in Nat /\ keyring[w].current \in Keys
    BY DEF WholeSeconds
  <2>3. [step |-> "minted", mintedAt |-> now, iat |-> iat, kid |-> keyring[w].current,
         late |-> account.changedAt \notin {tokens[t].changedAt, now},
         known |-> {v \in Workers : keyring[w].current \in Ring(v)}] \in Token
    BY <2>2 DEF Token
  <2>4. tokens' \in [Tokens -> Token \cup {NoToken}]
    BY <2>1, <2>3
  <2> QED BY <1>3, <2>4 DEF Mint
<1>4. ASSUME NEW t \in Tokens, NEW w \in Workers, Decode(t, w) PROVE AccessTokensTypeOK'
  <2>1. [step |-> "decoded", at |-> now] \in Check /\ [step |-> "invalid", at |-> 0] \in Check
    BY DEF Check
  <2>2. checks' \in [Tokens -> Check]
    BY <1>4, <2>1 DEF Decode, Concludes
  <2> QED BY <1>4, <2>2 DEF Decode
<1>5. CASE Tock
  BY <1>5 DEF Tock
<1>6. CASE SetPassword
  BY <1>6 DEF SetPassword
<1>7. CASE SetActive
  BY <1>7 DEF SetActive
<1>8. ASSUME NEW w \in Workers, NEW k \in Keys, Learn(w, k) \/ Switch(w, k) \/ Drop(w, k)
      PROVE  AccessTokensTypeOK'
  <2>1. keyring[w].previous \in SUBSET Keys /\ keyring[w].current \in Keys
    OBVIOUS
  <2>2. keyring' \in [Workers -> [current : Keys, previous : SUBSET Keys]]
    BY <1>8, <2>1 DEF Learn, Switch, Drop, Ring
  <2>3. retired' \in [Keys -> Nat]
    BY <1>8 DEF Learn, Switch, Drop
  <2> QED BY <1>8, <2>2, <2>3 DEF Learn, Switch, Drop
<1> QED BY <1>1, <1>2, <1>3, <1>4, <1>5, <1>6, <1>7, <1>8 DEF AccessTokensNext

----------------------------------------------------------------------------
(* Times *)

\* A step that keeps the tokens and the checks, and does not turn back the clock.
LEMMA TimesUnchanged ==
  ASSUME AccessTokensTypeOK, TokenTimes, UNCHANGED <<tokens, checks>>,
         now' \in Nat, now <= now'
  PROVE  TokenTimes'
<1>1. ASSUME NEW t \in Tokens, tokens[t].step = "minted"
      PROVE  tokens[t].mintedAt \in Nat /\ tokens[t].mintedAt <= now
  BY <1>1, MintedToken DEF Minted, TokenTimes
<1>2. now \in Nat
  BY DEF AccessTokensTypeOK
<1> QED BY <1>1, <1>2 DEF TokenTimes

LEMMA TimesStep ==
  ASSUME AccessTokensTypeOK, TokenTimes, AccessTokensNext
  PROVE  TokenTimes'
<1> USE DEF AccessTokensTypeOK
<1>1. ASSUME NEW t \in Tokens, CheckAccount(t) PROVE TokenTimes'
  <2>1. tokens'[t].step = "checked" /\ checks' = checks /\ checks[t].step = "idle"
    BY <1>1 DEF CheckAccount, TokenTimes
  <2>2. \A u \in Tokens \ {t} : tokens'[u] = tokens[u] /\ checks'[u] = checks[u]
    BY <1>1 DEF CheckAccount
  <2>3. now' = now
    BY <1>1 DEF CheckAccount
  <2> QED BY <2>1, <2>2, <2>3 DEF TokenTimes
<1>2. ASSUME NEW t \in Tokens, LoadUser(t) PROVE TokenTimes'
  <2>1. tokens[t].step = "minted"
    BY <1>2 DEF LoadUser, TokenTimes
  <2>2. checks'[t].step \in {"accepted", "stale", "inactive"}
    BY <1>2 DEF LoadUser, Concludes
  <2>3. \A u \in Tokens \ {t} : checks'[u] = checks[u]
    BY <1>2 DEF LoadUser, Concludes
  <2>4. tokens' = tokens /\ now' = now
    BY <1>2 DEF LoadUser
  <2> QED BY <2>1, <2>2, <2>3, <2>4 DEF TokenTimes
<1>3. ASSUME NEW t \in Tokens, NEW w \in Workers, Mint(t, w) PROVE TokenTimes'
  <2>1. PICK iat \in WholeSeconds :
          tokens' = [tokens EXCEPT ![t] =
            [step |-> "minted", mintedAt |-> now, iat |-> iat, kid |-> keyring[w].current,
             late |-> account.changedAt \notin {tokens[t].changedAt, now},
             known |-> {v \in Workers : keyring[w].current \in Ring(v)}]]
    BY <1>3 DEF Mint
  <2>2. tokens'[t].mintedAt = now /\ tokens'[t].iat = iat
    BY <2>1
  <2>3. iat \in Nat /\ iat <= now /\ now < iat + Second
    BY DEF WholeSeconds
  <2>4. checks' = checks /\ checks[t].step = "idle" /\ now' = now
    BY <1>3 DEF Mint, TokenTimes
  <2>5. \A u \in Tokens \ {t} : tokens'[u] = tokens[u]
    BY <2>1
  <2> QED BY <2>2, <2>3, <2>4, <2>5 DEF TokenTimes
<1>4. ASSUME NEW t \in Tokens, NEW w \in Workers, Decode(t, w) PROVE TokenTimes'
  <2>1. tokens[t].step = "minted" /\ tokens' = tokens /\ now' = now
    BY <1>4 DEF Decode
  <2>2. tokens[t].iat \in Nat
    BY <2>1, MintedToken DEF Minted
  <2>3. checks'[t].step = "decoded" => checks'[t].at < tokens[t].iat + Ttl + Leeway
    BY <1>4, <2>2 DEF Decode, Concludes, Expired
  <2>4. \A u \in Tokens \ {t} : checks'[u] = checks[u]
    BY <1>4 DEF Decode, Concludes
  <2> QED BY <2>1, <2>3, <2>4 DEF TokenTimes
<1>5. ASSUME Tock \/ SetPassword \/ SetActive PROVE TokenTimes'
  <2>1. now' \in Nat /\ now <= now' /\ UNCHANGED <<tokens, checks>>
    BY <1>5 DEF Tock, SetPassword, SetActive
  <2> QED BY <2>1, TimesUnchanged
<1>6. ASSUME NEW w \in Workers, NEW k \in Keys, Learn(w, k) \/ Switch(w, k) \/ Drop(w, k)
      PROVE  TokenTimes'
  <2>1. UNCHANGED <<now, tokens, checks>>
    BY <1>6 DEF Learn, Switch, Drop
  <2> QED BY <2>1, TimesUnchanged
<1> QED BY <1>1, <1>2, <1>3, <1>4, <1>5, <1>6 DEF AccessTokensNext

----------------------------------------------------------------------------
(* Keys *)

\* A step that keeps tokens, keyrings and retirements: only time can pass.
LEMMA KeysUnchanged ==
  ASSUME AccessTokensTypeOK, KeysKept, UNCHANGED <<tokens, keyring, retired>>,
         now' \in Nat, now <= now'
  PROVE  KeysKept'
<1>1. \A t \in Tokens : tokens[t].step = "minted" =>
        tokens[t].iat \in Nat /\ tokens[t].known \subseteq Workers
  BY MintedToken DEF Minted
<1>2. \A w \in Workers : Ring(w)' = Ring(w)
  BY DEF Ring
<1>3. \A k : InUse(k)' <=> InUse(k)
  BY DEF InUse
<1>4. now \in Nat
  BY DEF AccessTokensTypeOK
<1> QED BY <1>1, <1>2, <1>3, <1>4 DEF KeysKept

LEMMA KeysStep ==
  ASSUME AccessTokensTypeOK, TokenTimes, KeysKept, AccessTokensNext
  PROVE  KeysKept'
<1> USE DEF AccessTokensTypeOK
<1>1. ASSUME NEW t \in Tokens,
             CheckAccount(t) \/ \E w \in Workers : Mint(t, w)
      PROVE  KeysKept'
  <2>1. UNCHANGED <<now, keyring, retired>>
    BY <1>1 DEF CheckAccount, Mint
  <2>2. /\ \A w \in Workers : Ring(w)' = Ring(w)
        /\ \A k : InUse(k)' <=> InUse(k)
    BY <2>1 DEF Ring, InUse
  <2>3. \A u \in Tokens \ {t} : tokens'[u] = tokens[u]
    BY <1>1 DEF CheckAccount, Mint
  <2>4. tokens'[t].step = "minted" => \E w \in Workers :
          /\ tokens'[t].kid = keyring[w].current
          /\ tokens'[t].known = {v \in Workers : keyring[w].current \in Ring(v)}
    BY <1>1 DEF CheckAccount, Mint
  <2>5. tokens'[t].step = "minted" =>
          InUse(tokens'[t].kid) /\ \A w \in tokens'[t].known : tokens'[t].kid \in Ring(w)
    BY <2>4 DEF InUse
  <2>6. ASSUME NEW u \in Tokens, tokens'[u].step = "minted"
        PROVE  /\ ~InUse(tokens'[u].kid) => tokens'[u].mintedAt <= retired[tokens'[u].kid]
               /\ now < tokens'[u].iat + Ttl => \A w \in tokens'[u].known : tokens'[u].kid \in Ring(w)
    BY <2>3, <2>5, <2>6 DEF KeysKept
  <2>7. \A u \in Tokens : tokens'[u].step = "minted" => tokens'[u].known \subseteq Workers
    BY <2>3, <2>4, MintedToken DEF Minted
  <2> QED BY <2>1, <2>2, <2>6, <2>7 DEF KeysKept
<1>2. ASSUME NEW t \in Tokens, LoadUser(t) \/ \E w \in Workers : Decode(t, w)
      PROVE  KeysKept'
  <2>1. UNCHANGED <<now, tokens, keyring, retired>>
    BY <1>2 DEF LoadUser, Decode
  <2> QED BY <2>1, KeysUnchanged
<1>3. ASSUME Tock \/ SetPassword \/ SetActive PROVE KeysKept'
  <2>1. now' \in Nat /\ now <= now' /\ UNCHANGED <<tokens, keyring, retired>>
    BY <1>3 DEF Tock, SetPassword, SetActive
  <2> QED BY <2>1, KeysUnchanged
<1>4. ASSUME NEW w \in Workers, NEW k \in Keys, Learn(w, k) PROVE KeysKept'
  <2>1. UNCHANGED <<now, tokens, retired>> /\ \A v \in Workers : keyring'[v].current = keyring[v].current
    BY <1>4 DEF Learn
  <2>2. \A v \in Workers : Ring(v) \subseteq Ring(v)'
    BY <1>4 DEF Learn, Ring
  <2>3. \A j : InUse(j)' <=> InUse(j)
    BY <2>1 DEF InUse
  <2>4. \A t \in Tokens : tokens[t].step = "minted" => tokens[t].known \subseteq Workers
    BY MintedToken DEF Minted
  <2>5. ASSUME NEW t \in Tokens, tokens[t].step = "minted",
               NEW kid, kid = tokens[t].kid
        PROVE  /\ ~InUse(kid)' => tokens[t].mintedAt <= retired[kid]
               /\ now < tokens[t].iat + Ttl => \A v \in tokens[t].known : kid \in Ring(v)'
    BY <2>2, <2>3, <2>4, <2>5 DEF KeysKept
  <2> QED BY <2>1, <2>4, <2>5 DEF KeysKept
<1>5. ASSUME NEW w \in Workers, NEW k \in Keys, Switch(w, k) PROVE KeysKept'
  <2> DEFINE old == keyring[w].current
  <2>1. UNCHANGED <<now, tokens>> /\ old \in Keys
    BY <1>5 DEF Switch
  <2>2. \A v \in Workers : Ring(v) \subseteq Ring(v)'
    BY <1>5, <2>1 DEF Switch, Ring
  <2>3. /\ keyring'[w].current = k
        /\ \A v \in Workers \ {w} : keyring'[v].current = keyring[v].current
    BY <1>5 DEF Switch
  <2>4. retired'[old] = now /\ \A j \in Keys \ {old} : retired'[j] = retired[j]
    BY <1>5 DEF Switch
  <2>5. \A t \in Tokens : tokens[t].step = "minted" => tokens[t].known \subseteq Workers
    BY MintedToken DEF Minted
  <2>6. \A j : j # old /\ InUse(j) => InUse(j)'
    BY <2>3 DEF InUse
  <2>7. ASSUME NEW t \in Tokens, tokens[t].step = "minted",
               NEW kid, kid = tokens[t].kid
        PROVE  /\ ~InUse(kid)' => tokens[t].mintedAt <= retired'[kid]
               /\ now < tokens[t].iat + Ttl => \A v \in tokens[t].known : kid \in Ring(v)'
    <3>1. kid \in Keys /\ tokens[t].mintedAt <= now
      BY <2>7, MintedToken DEF Minted, TokenTimes
    <3>2. CASE kid = old
      BY <2>2, <2>4, <2>5, <2>7, <3>1, <3>2 DEF KeysKept
    <3>3. CASE kid # old
      BY <2>2, <2>4, <2>5, <2>6, <2>7, <3>1, <3>3 DEF KeysKept
    <3> QED BY <3>2, <3>3
  <2> HIDE DEF old
  <2> QED BY <2>1, <2>5, <2>7 DEF KeysKept
<1>6. ASSUME NEW w \in Workers, NEW k \in Keys, Drop(w, k) PROVE KeysKept'
  <2>1. /\ UNCHANGED <<now, tokens, retired>>
        /\ \A v \in Workers : keyring'[v].current = keyring[v].current
    BY <1>6 DEF Drop
  <2>2. \A v \in Workers : \A j : j # k /\ j \in Ring(v) => j \in Ring(v)'
    BY <1>6 DEF Drop, Ring
  <2>3. \A j : InUse(j)' <=> InUse(j)
    BY <2>1 DEF InUse
  <2>4. \A t \in Tokens : tokens[t].step = "minted" => tokens[t].known \subseteq Workers
    BY MintedToken DEF Minted
  <2>5. ASSUME NEW t \in Tokens, tokens[t].step = "minted",
               NEW kid, kid = tokens[t].kid
        PROVE  /\ ~InUse(kid)' => tokens[t].mintedAt <= retired[kid]
               /\ now < tokens[t].iat + Ttl => \A v \in tokens[t].known : kid \in Ring(v)'
    <3>1. tokens[t].mintedAt \in Nat /\ tokens[t].iat \in Nat /\ tokens[t].iat <= tokens[t].mintedAt
      BY <2>5, MintedToken DEF Minted, TokenTimes
    <3>2. CASE kid = k
      <4>1. ~InUse(k) /\ retired[k] + Ttl <= now /\ retired[k] \in Nat /\ now \in Nat
        BY <1>6 DEF Drop
      <4>2. tokens[t].mintedAt <= retired[k]
        BY <2>5, <3>2, <4>1 DEF KeysKept
      <4>3. ~(now < tokens[t].iat + Ttl)
        BY <3>1, <4>1, <4>2
      <4> QED BY <4>2, <4>3, <3>2
    <3>3. CASE kid # k
      BY <2>2, <2>3, <2>4, <2>5, <3>3 DEF KeysKept
    <3> QED BY <3>2, <3>3
  <2> QED BY <2>1, <2>4, <2>5 DEF KeysKept
<1> QED BY <1>1, <1>2, <1>3, <1>4, <1>5, <1>6 DEF AccessTokensNext

----------------------------------------------------------------------------
(* The theorems *)

LEMMA AccessTokensNextIInv == AccessTokensIInv /\ [AccessTokensNext]_tokenVars => AccessTokensIInv'
<1> SUFFICES ASSUME AccessTokensIInv, [AccessTokensNext]_tokenVars PROVE AccessTokensIInv'
  OBVIOUS
<1>1. CASE AccessTokensNext
  BY <1>1, AccessTokensTypeStep, TimesStep, KeysStep DEF AccessTokensIInv
<1>2. CASE UNCHANGED tokenVars
  BY <1>2 DEF AccessTokensIInv, tokenVars, AccessTokensTypeOK, TokenTimes, KeysKept, Ring, InUse
<1> QED BY <1>1, <1>2

\* Every token minted lies in the second its iat names, whatever is decoded was
\* decoded within its lifetime and leeway, and a worker that had a token's key when
\* it was signed has it until the token has expired.
THEOREM TokensInvariance == AccessTokensSpec => []AccessTokensIInv
<1> QED BY AccessTokensInitIInv, AccessTokensNextIInv, PTL DEF AccessTokensSpec

\* Only a step of LoadUser accepts.
LEMMA AcceptStep ==
  ASSUME AccessTokensIInv, [AccessTokensNext]_tokenVars, NEW t \in Tokens, Becomes(t, "accepted")
  PROVE  /\ account.active
         /\ account.changedAt <= tokens[t].mintedAt
         /\ checks[t].at < tokens[t].mintedAt + Ttl + Leeway
<1> USE DEF AccessTokensIInv, AccessTokensTypeOK
<1>1. checks' # checks
  BY DEF Becomes
<1>2. PICK u \in Tokens : LoadUser(u) \/ \E w \in Workers : Decode(u, w)
  BY <1>1 DEF AccessTokensNext, tokenVars, CheckAccount, Mint, Tock, SetPassword,
              SetActive, Learn, Switch, Drop
<1>3. u = t /\ ~\E w \in Workers : Decode(u, w)
  BY <1>2 DEF LoadUser, Decode, Concludes, Becomes
<1>4. LoadUser(t)
  BY <1>2, <1>3
<1>5. account.active /\ ~Stale(t)
  BY <1>4 DEF LoadUser, Concludes, Becomes, Inactive
<1>6. tokens[t].step = "minted" /\ checks[t].at < tokens[t].iat + Ttl + Leeway
  BY <1>4 DEF LoadUser, TokenTimes
<1>7. /\ tokens[t].iat \in Nat /\ tokens[t].mintedAt \in Nat
      /\ tokens[t].iat <= tokens[t].mintedAt
  BY <1>6, MintedToken DEF Minted, TokenTimes
<1>8. checks[t].at \in Nat /\ account.changedAt \in Nat
  BY DEF Check
<1> QED BY <1>5, <1>6, <1>7, <1>8 DEF Stale

\* A token is accepted only for an active account, never if it was minted before
\* the last change of password, and only within its lifetime and the leeway.
THEOREM OnlyCurrentAccepted == AccessTokensSpec => AcceptsOnlyCurrent
<1>1. AccessTokensIInv /\ [AccessTokensNext]_tokenVars =>
        \A t \in Tokens : Becomes(t, "accepted") =>
          /\ account.active
          /\ account.changedAt <= tokens[t].mintedAt
          /\ checks[t].at < tokens[t].mintedAt + Ttl + Leeway
  BY AcceptStep
<1> QED BY <1>1, TokensInvariance, PTL DEF AccessTokensSpec, AcceptsOnlyCurrent

\* A refusal for the key or the age comes from Decode, one for the password from
\* LoadUser.
LEMMA RefusalStep ==
  ASSUME AccessTokensIInv, [AccessTokensNext]_tokenVars, NEW t \in Tokens
  PROVE  /\ \A w \in Workers : Decode(t, w) /\ Becomes(t, "invalid") =>
              tokens[t].iat + Ttl <= now \/ w \notin tokens[t].known
         /\ Becomes(t, "stale") => tokens[t].mintedAt < account.changedAt + Second
<1> USE DEF AccessTokensIInv, AccessTokensTypeOK
<1> SUFFICES ASSUME checks'[t] # checks[t]
             PROVE  /\ \A w \in Workers : Decode(t, w) /\ Becomes(t, "invalid") =>
                         tokens[t].iat + Ttl <= now \/ w \notin tokens[t].known
                    /\ Becomes(t, "stale") => tokens[t].mintedAt < account.changedAt + Second
  BY DEF Becomes
<1>1. PICK u \in Tokens : LoadUser(u) \/ \E w \in Workers : Decode(u, w)
  BY DEF AccessTokensNext, tokenVars, CheckAccount, Mint, Tock, SetPassword,
         SetActive, Learn, Switch, Drop
<1>2. u = t
  BY <1>1 DEF LoadUser, Decode, Concludes
<1>3. tokens[t].step = "minted"
  BY <1>1, <1>2 DEF LoadUser, Decode, TokenTimes
<1>4. /\ tokens[t].iat \in Nat /\ tokens[t].mintedAt \in Nat
      /\ tokens[t].mintedAt < tokens[t].iat + Second
  BY <1>3, MintedToken DEF Minted, TokenTimes
<1>5. ASSUME NEW w \in Workers, Decode(t, w), Becomes(t, "invalid")
      PROVE  tokens[t].iat + Ttl <= now \/ w \notin tokens[t].known
  <2>1. ~(Verifies(w, tokens[t].kid) /\ ~Expired(t))
    BY <1>5 DEF Decode, Becomes
  <2>2. now < tokens[t].iat + Ttl /\ w \in tokens[t].known => tokens[t].kid \in Ring(w)
    BY <1>3 DEF KeysKept
  <2> QED BY <1>4, <2>1, <2>2 DEF Verifies, Expired
<1>6. ASSUME Becomes(t, "stale") PROVE tokens[t].mintedAt < account.changedAt + Second
  <2>1. LoadUser(t)
    BY <1>1, <1>2, <1>6 DEF Decode, Concludes, Becomes
  <2>2. Stale(t)
    BY <2>1, <1>6 DEF LoadUser, Concludes, Becomes
  <2> QED BY <1>4, <2>2 DEF Stale
<1> QED BY <1>5, <1>6

\* A worker that had the key when a token was signed does not refuse it for its key
\* or its age before it has expired, at any stage of a rollout and in whatever order
\* the workers are restarted; and a token is stale only if it was minted before the
\* end of the second in which the password changed.
THEOREM RefusalsHaveCause == AccessTokensSpec => RefusesOnlyForCause
<1>1. AccessTokensIInv /\ [AccessTokensNext]_tokenVars =>
        \A t \in Tokens :
          /\ \A w \in Workers : Decode(t, w) /\ Becomes(t, "invalid") =>
               tokens[t].iat + Ttl <= now \/ w \notin tokens[t].known
          /\ Becomes(t, "stale") => tokens[t].mintedAt < account.changedAt + Second
  BY RefusalStep
<1> QED BY <1>1, TokensInvariance, PTL DEF AccessTokensSpec, RefusesOnlyForCause
=============================================================================
