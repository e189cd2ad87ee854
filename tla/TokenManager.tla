---------------------------- MODULE TokenManager ----------------------------
(***************************************************************************)
(* The access token of a device session (src/src/internal/iqm_auth.cpp,    *)
(* TokenManager).  A token is represented by the seconds until it expires: *)
(* what time_left_seconds reads from it.  A token that has expired, or     *)
(* whose expiry cannot be read, has none left.                             *)
(*                                                                         *)
(* The tokens file belongs to another process, which rewrites it at any    *)
(* moment: between two readings, and between the first reading of a call   *)
(* and its repetition.  Who asks for tokens and when is up to the module   *)
(* that extends this one; so is the clock.                                 *)
(***************************************************************************)
EXTENDS Naturals

CONSTANTS
  Margin,      \* REFRESH_MARGIN_SECONDS
  Retries,     \* the default of get_bearer_token's parameter
  Lifetimes,   \* seconds a token can have left when its source gets it
  NoToken,     \* std::nullopt
  Unreadable   \* no tokens file, or one that does not parse

ASSUME TokenAssumption ==
  /\ Margin \in Nat /\ Retries \in Nat
  /\ Lifetimes \subseteq Nat /\ Lifetimes # {}
  /\ NoToken \notin Nat /\ Unreadable \notin Nat

VARIABLES
  token_source,  \* token_source_
  held,          \* what that source holds: a token, or Unreadable
  access_token,  \* access_token_
  getting,       \* where the call of get_bearer_token is
  retries,       \* its parameter
  bearer,        \* the token it returned, for the request it was called for
  reused         \* whether that token had been kept from an earlier call

tokenVars == <<token_source, held, access_token, getting, retries, bearer, reused>>

Sources == {"NONE", "EXTERNAL_TOKEN", "TOKENS_FILE"}

Token == Nat \cup {NoToken}

TokenTypeOK ==
  /\ token_source \in Sources
  /\ held \in Nat \/ (held = Unreadable /\ token_source = "TOKENS_FILE")
  /\ access_token \in Token
  /\ getting \in {"idle", "reading", "ready", "failed"}
  /\ retries \in 0..Retries
  /\ bearer \in Token
  /\ reused \in BOOLEAN

TokenInit ==
  /\ token_source \in Sources
  /\ held \in Lifetimes
  /\ access_token = NoToken
  /\ getting = "idle"
  /\ retries = Retries
  /\ bearer = NoToken
  /\ reused = FALSE

time_left_seconds(token) == IF token \in Nat THEN token ELSE 0

CacheServesWhileAlive ==
  access_token # NoToken /\ time_left_seconds(access_token) > 0

\* "Use the existing access token if it is still valid"
CacheServes == access_token # NoToken /\ time_left_seconds(access_token) > Margin

\* The call returns token, or throws ClientAuthenticationError.
Hand(token, kept) ==
  /\ getting' = "ready"
  /\ bearer' = token
  /\ reused' = kept
  /\ retries' = Retries

\* A request asks for a token.
get_bearer_token ==
  /\ getting = "idle"
  /\ \/ /\ token_source = "NONE"
        /\ Hand(NoToken, FALSE)
        /\ UNCHANGED access_token
     \/ /\ token_source # "NONE" /\ CacheServes
        /\ Hand(access_token, TRUE)
        /\ UNCHANGED access_token
     \/ /\ token_source = "EXTERNAL_TOKEN" /\ ~CacheServes
        /\ access_token' = held
        /\ Hand(held, FALSE)
     \/ /\ token_source = "TOKENS_FILE" /\ ~CacheServes
        /\ getting' = "reading"
        /\ UNCHANGED <<access_token, retries, bearer, reused>>
  /\ UNCHANGED <<token_source, held>>

GivesUpAtOnce == TRUE

\* The call throws once it has no retries left.
GivesUp == retries < 1

\* One reading of the tokens file.  A token with any time left will do, within
\* the margin or not; a reading that fails keeps the token of an earlier one.
Read_access_token_from_file ==
  /\ getting = "reading"
  /\ \/ /\ time_left_seconds(held) > 0
        /\ access_token' = held
        /\ Hand(held, FALSE)
     \/ /\ time_left_seconds(held) = 0
        /\ \/ /\ GivesUp
              /\ getting' = "failed"
              /\ retries' = Retries
           \/ /\ ~GivesUp
              /\ retries' = retries - 1
              /\ UNCHANGED getting
        /\ UNCHANGED <<access_token, bearer, reused>>
  /\ UNCHANGED <<token_source, held>>

\* The process that owns the tokens file renews, truncates or removes it.
RewriteTokensFile ==
  /\ token_source = "TOKENS_FILE"
  /\ held' \in Lifetimes \cup {Unreadable}
  /\ UNCHANGED <<token_source, access_token, getting, retries, bearer, reused>>

\* The request the token was for is over.
DropBearer ==
  /\ getting' = "idle"
  /\ bearer' = NoToken
  /\ reused' = FALSE
  /\ UNCHANGED <<token_source, held, access_token, retries>>

Older(token) == IF token \in Nat /\ token > 0 THEN token - 1 ELSE token

\* A second passes.
AgeTokens ==
  /\ held' = Older(held)
  /\ access_token' = Older(access_token)
  /\ bearer' = Older(bearer)
  /\ UNCHANGED <<token_source, getting, retries, reused>>

=============================================================================
