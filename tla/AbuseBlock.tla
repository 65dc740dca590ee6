------------------------------- MODULE AbuseBlock -------------------------------
(***************************************************************************)
(* The temporary block of clients that repeat refused requests: the record  *)
(* a process keeps per client, the check every request meets first and the   *)
(* registration of a violation, which comes when a rate limiter or the       *)
(* pattern check refuses a request that was let in before.                  *)
(***************************************************************************)
EXTENDS Integers, Sequences, FiniteSets

CONSTANTS
  Clients,
  Window,         \* abuseBlock.violationWindowMs
  MaxViolations,  \* abuseBlock.maxViolations
  BlockTime,      \* abuseBlock.blockMs
  InFlight,       \* the numbers of requests a client may have under way at once
  MaxTime         \* bound: the clock

ASSUME AbuseBlockConstants ==
  /\ Window \in Nat /\ MaxViolations \in Nat \ {0, 1} /\ BlockTime \in Nat
  /\ InFlight \subseteq Nat /\ MaxTime \in Nat \ {0}

VARIABLES
  most,       \* the requests a client has under way at once, fixed by the initial state
  now,        \* Date.now()
  abuseMap,   \* the record of each client, NoViolations when it has none
  inside,     \* requests of each client past the block check
  offences    \* the times of the violations of each client, for the properties

blockVars == <<most, now, abuseMap, inside, offences>>

\* blockedUntil is 0 when it is undefined.
NoViolations == [violations |-> 0, first |-> 0, until |-> 0]
Has(c) == abuseMap[c] # NoViolations
Blocked(c) == abuseMap[c].until > now

\* Mistake: the next request closes the record of a block, over or not.
AnyTime(c) == TRUE
MayEnter(c) == ~Blocked(c)

BlockTypeOK ==
  /\ now \in 0..MaxTime /\ most \in InFlight /\ inside \in [Clients -> 0..most]
  /\ abuseMap \in [Clients -> [violations : Nat, first : 0..MaxTime, until : 0..(MaxTime + BlockTime)]]
  /\ \A c \in Clients : \A i \in DOMAIN offences[c] : offences[c][i] \in 0..now

BlockInit ==
  /\ most \in InFlight /\ now = 1 /\ abuseMap = [c \in Clients |-> NoViolations]
  /\ inside = [c \in Clients |-> 0] /\ offences = [c \in Clients |-> <<>>]

\* temporaryIpBlockMiddleware: a blocked client is answered 429 and nothing changes.
LetIn(c) ==
  /\ MayEnter(c) /\ inside[c] < most
  /\ abuseMap' = [abuseMap EXCEPT ![c] = IF @.until # 0 THEN NoViolations ELSE @]
  /\ inside' = [inside EXCEPT ![c] = @ + 1]
  /\ UNCHANGED <<most, now, offences>>

Serve(c) ==
  /\ inside[c] > 0 /\ inside' = [inside EXCEPT ![c] = @ - 1]
  /\ UNCHANGED <<most, now, abuseMap, offences>>

\* Mistake: violations are counted for ever.
Never(c) == FALSE
WindowOver(c) == now - abuseMap[c].first > Window

BlockedUntil(c, n) == IF n >= MaxViolations THEN now + BlockTime ELSE abuseMap[c].until

\* registerAbusiveClient, called by sendRateLimitResponse and by
\* suspiciousRequestMiddleware.
Register(c) ==
  LET n == abuseMap[c].violations + 1
  IN  abuseMap' = [abuseMap EXCEPT ![c] =
        IF ~Has(c) \/ WindowOver(c) THEN [violations |-> 1, first |-> now, until |-> 0]
        ELSE [violations |-> n, first |-> @.first, until |-> BlockedUntil(c, n)]]
RefuseRequest(c) ==
  /\ inside[c] > 0 /\ inside' = [inside EXCEPT ![c] = @ - 1]
  /\ Register(c) /\ offences' = [offences EXCEPT ![c] = Append(@, now)]
  /\ UNCHANGED <<most, now>>

Tick == now < MaxTime /\ now' = now + 1 /\ UNCHANGED <<most, abuseMap, inside, offences>>

BlockNext == Tick \/ \E c \in Clients : LetIn(c) \/ Serve(c) \/ RefuseRequest(c)

BlockSpec == BlockInit /\ [][BlockNext]_blockVars

------------------------------------------------------------------------------

\* A client is blocked only for repeated violations: MaxViolations of them within
\* one window, however its requests overlap.
OnlyRepeatedOffencesBlock ==
  \A c \in Clients : abuseMap[c].until # 0 =>
    \E i \in DOMAIN offences[c] :
      LET j == i + MaxViolations - 1
      IN  j \in DOMAIN offences[c] /\ offences[c][j] - offences[c][i] <= Window

\* Well-typed records, and no block that was not earned.
AbuseInvariant == BlockTypeOK /\ OnlyRepeatedOffencesBlock

\* A client that behaves for a window after its last violation is not blocked by
\* the next one.
OldOffencesAreForgotten ==
  [][\A c \in Clients :
       /\ offences'[c] # offences[c]
       /\ \A i \in DOMAIN offences[c] : now - offences[c][i] > Window
       => abuseMap'[c].until = 0]_blockVars

\* A block lasts: it is cut short only where a request that was let in before it is
\* refused during it, after the window, and so opens a new record.  A client with
\* one request at a time waits for the end of its block.
BlockLasts ==
  [][\A c \in Clients :
       Blocked(c) /\ abuseMap'[c].until < abuseMap[c].until => most > 1 /\ WindowOver(c)]_blockVars
==============================================================================
