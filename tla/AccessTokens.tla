---------------------------- MODULE AccessTokens ----------------------------
(***************************************************************************)
(* Access tokens of one account: minted by _build_access_token             *)
(* (auth/session.py) some time after the users row was read, verified by   *)
(* verify_access_jwt (auth/access_jwt.py) in any worker while the account  *)
(* changes and the signing key is rotated worker by worker.                *)
(*                                                                         *)
(* Time is in ticks, several to a second: password_changed_at has          *)
(* fractions of a second and the iat of a token has not.                   *)
(***************************************************************************)
EXTENDS Naturals

CONSTANTS
  Tokens,
  Workers,      \* processes, each with the settings it was started with
  Keys,         \* kids of signing keys
  FirstKey,     \* the key every worker starts with
  Second,       \* ticks in a second
  Ttl,          \* admin_access_ttl_seconds, in ticks
  Leeway,       \* admin_jwt_clock_skew_seconds, in ticks
  MaxNow        \* bound on the clock

ASSUME AccessTokensAssumption ==
  /\ FirstKey \in Keys
  /\ Second \in Nat \ {0} /\ Ttl \in Nat \ {0} /\ Leeway \in Nat /\ MaxNow \in Nat

VARIABLES
  now,          \* the clock, the same for every worker
  account,      \* the status of the row, and its password_changed_at
  keyring,      \* each worker's settings: admin_jwt_kid and admin_jwt_previous_keys
  retired,      \* when a worker last stopped signing with each key
  tokens,       \* each token, from the reading of the row on
  checks        \* the latest verification of each token, and when it was decoded

tokenVars == <<now, account, keyring, retired, tokens, checks>>

\* A login that has read the row, with the password_changed_at it had; and a token,
\* with the time it was minted.  Two fields are history: late, before the tick in
\* which it was minted the password had changed since the row was read; known, the
\* workers that had its key when it was signed.
Token == [step : {"checked"}, changedAt : Nat]
         \cup [step : {"minted"}, mintedAt : Nat, iat : Nat, kid : Keys, late : BOOLEAN,
             known : SUBSET Workers]
NoToken == [step |-> "none"]
Check == [step : {"idle", "decoded", "accepted", "invalid", "stale", "inactive"},
          at : Nat]

AccessTokensTypeOK ==
  /\ now \in Nat
  /\ account \in [active : BOOLEAN, changedAt : Nat]
  /\ keyring \in [Workers -> [current : Keys, previous : SUBSET Keys]]
  /\ retired \in [Keys -> Nat]
  /\ tokens \in [Tokens -> Token \cup {NoToken}]
  /\ checks \in [Tokens -> Check]

AccessTokensInit ==
  /\ now = 0
  /\ account = [active |-> TRUE, changedAt |-> 0]
  /\ keyring = [w \in Workers |-> [current |-> FirstKey, previous |-> {}]]
  /\ retired = [k \in Keys |-> 0]
  /\ tokens = [t \in Tokens |-> NoToken]
  /\ checks = [t \in Tokens |-> [step |-> "idle", at |-> 0]]

\* _verification_keyring
Ring(w) == keyring[w].previous \cup {keyring[w].current}

\* Mutant: only the key in use verifies.
Verifies_CurrentOnly(w, kid) == kid = keyring[w].current

Verifies(w, kid) == kid \in Ring(w)

InUse(k) == \E w \in Workers : keyring[w].current = k

\* int(now.timestamp()): the tick in which the current second began.
WholeSeconds == {f \in 0..now : f % Second = 0 /\ now < f + Second}

----------------------------------------------------------------------------
(* Login and rotation *)

\* Both read the row and go on only if the account is active; what they require
\* of a session or a password is in RefreshSessions and LoginLockout.
CheckAccount(t) ==
  /\ tokens[t].step = "none"
  /\ account.active
  /\ tokens' = [tokens EXCEPT ![t] = [step |-> "checked", changedAt |-> account.changedAt]]
  /\ UNCHANGED <<now, account, keyring, retired, checks>>

\* _build_access_token; by then the clock may have moved on.
Mint(t, w) ==
  /\ tokens[t].step = "checked"
  /\ \E iat \in WholeSeconds :
       tokens' = [tokens EXCEPT ![t] =
         [step |-> "minted", mintedAt |-> now, iat |-> iat, kid |-> keyring[w].current,
          late |-> account.changedAt \notin {tokens[t].changedAt, now},
          known |-> {v \in Workers : keyring[w].current \in Ring(v)}]]
  /\ UNCHANGED <<now, account, keyring, retired, checks>>

----------------------------------------------------------------------------
(* verify_access_jwt *)

Expired(t) == tokens[t].iat + Ttl + Leeway <= now

Concludes(t, outcome) == checks' = [checks EXCEPT ![t] = [step |-> outcome, at |-> 0]]

\* Everything up to jwt.decode, which refuses unknown keys and expired tokens.
Decode(t, w) ==
  /\ tokens[t].step = "minted"
  /\ checks[t].step # "decoded"
  /\ LET good == Verifies(w, tokens[t].kid) /\ ~Expired(t) IN
       \/ good /\ checks' = [checks EXCEPT ![t] = [step |-> "decoded", at |-> now]]
       \/ ~good /\ Concludes(t, "invalid")
  /\ UNCHANGED <<now, account, keyring, retired, tokens>>

\* Mutant: the change of password is rounded down as the iat is.
Stale_Rounded(t) == tokens[t].iat + Second <= account.changedAt

\* issued_at < password_changed_at
Stale(t) == tokens[t].iat < account.changedAt

\* Mutant: any user found will do.
Inactive_Ignored == FALSE

Inactive == ~account.active

\* _load_active_user, in a session of its own, and the two tests on the row.
LoadUser(t) ==
  /\ checks[t].step = "decoded"
  /\ \/ Inactive /\ Concludes(t, "inactive")
     \/ ~Inactive /\ Stale(t) /\ Concludes(t, "stale")
     \/ ~Inactive /\ ~Stale(t) /\ Concludes(t, "accepted")
  /\ UNCHANGED <<now, account, keyring, retired, tokens>>

----------------------------------------------------------------------------
(* Others *)

Tock ==
  /\ now < MaxNow
  /\ now' = now + 1
  /\ UNCHANGED <<account, keyring, retired, tokens, checks>>

SetPassword ==
  /\ account' = [account EXCEPT !.changedAt = now]
  /\ UNCHANGED <<now, keyring, retired, tokens, checks>>

SetActive ==
  /\ account' = [account EXCEPT !.active = ~@]
  /\ UNCHANGED <<now, keyring, retired, tokens, checks>>

\* A rollout restarts one worker after another with new settings, in any order
\* (core/config.py 119-128): a key is added to the previous ones, or signs from now
\* on while the one before it is kept for verification.  Nothing makes the others
\* learn a key before it signs.  A key is dropped when no worker signs with it and
\* the last token signed with it has expired (docs/architecture/02-admin-auth.md 215).
Learn(w, k) ==
  /\ k \notin Ring(w)
  /\ keyring' = [keyring EXCEPT ![w].previous = @ \cup {k}]
  /\ UNCHANGED <<now, account, retired, tokens, checks>>

Switch(w, k) ==
  /\ k # keyring[w].current
  /\ keyring' = [keyring EXCEPT ![w] = [current |-> k, previous |-> Ring(w) \ {k}]]
  /\ retired' = [retired EXCEPT ![keyring[w].current] = now]
  /\ UNCHANGED <<now, account, tokens, checks>>

Drop(w, k) ==
  /\ k \in keyring[w].previous
  /\ ~InUse(k)
  /\ retired[k] + Ttl <= now
  /\ keyring' = [keyring EXCEPT ![w].previous = @ \ {k}]
  /\ UNCHANGED <<now, account, retired, tokens, checks>>

AccessTokensNext ==
  \/ \E t \in Tokens : CheckAccount(t) \/ LoadUser(t)
  \/ \E t \in Tokens, w \in Workers : Mint(t, w) \/ Decode(t, w)
  \/ Tock \/ SetPassword \/ SetActive
  \/ \E w \in Workers, k \in Keys : Learn(w, k) \/ Switch(w, k) \/ Drop(w, k)

AccessTokensSpec == AccessTokensInit /\ [][AccessTokensNext]_tokenVars

----------------------------------------------------------------------------
(* Properties *)

Becomes(t, outcome) == checks[t].step # outcome /\ checks'[t].step = outcome

\* A token is accepted only for an account that is active, never if it was minted
\* before the last change of password, and only within its lifetime and the
\* leeway, whatever the fractions of a second were (access_jwt.py 170-204).
AcceptsOnlyCurrent ==
  [][\A t \in Tokens : Becomes(t, "accepted") =>
       /\ account.active
       /\ account.changedAt <= tokens[t].mintedAt
       /\ checks[t].at < tokens[t].mintedAt + Ttl + Leeway]_tokenVars

\* A worker that had the key when a token was signed does not refuse the token for
\* its key or its age before it has expired, at any stage of a rollout
\* (access_jwt.py 95-98, config.py 122-128); and one is stale only if it was minted
\* before the end of the second in which the password changed.
RefusesOnlyForCause ==
  [][\A t \in Tokens :
       /\ \A w \in Workers : Decode(t, w) /\ Becomes(t, "invalid") =>
            tokens[t].iat + Ttl <= now \/ w \notin tokens[t].known
       /\ Becomes(t, "stale") => tokens[t].mintedAt < account.changedAt + Second]_tokenVars

\* docs/architecture/02-admin-auth.md 320: a change of password ends what began
\* before it, the next request is refused.
OldLoginsAreRefused ==
  [][\A t \in Tokens : Becomes(t, "accepted") => ~tokens[t].late]_tokenVars

----------------------------------------------------------------------------
(* The inductive invariant *)

\* A token's times, with its iat in the second it was minted in.
TokenTimes ==
  \A t \in Tokens :
    /\ tokens[t].step = "minted" => LET token == tokens[t] IN
         /\ token.iat <= token.mintedAt /\ token.mintedAt < token.iat + Second
         /\ token.mintedAt <= now
    /\ checks[t].step # "idle" => tokens[t].step = "minted"
    /\ checks[t].step = "decoded" => checks[t].at < tokens[t].iat + Ttl + Leeway

\* A worker keeps the key of a token it could verify when it was signed until the
\* token has expired; nobody has signed with a key since it was retired.
KeysKept ==
  \A t \in Tokens : tokens[t].step = "minted" =>
    LET token == tokens[t] IN
      /\ ~InUse(token.kid) => token.mintedAt <= retired[token.kid]
      /\ now < token.iat + Ttl => \A w \in token.known : token.kid \in Ring(w)

AccessTokensIInv == AccessTokensTypeOK /\ TokenTimes /\ KeysKept
=============================================================================
