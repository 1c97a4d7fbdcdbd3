------------------------------ MODULE RunCapability ------------------------------
(***************************************************************************)
(* The capability with which the agent of a Run calls the ModelGateway:    *)
(* issued when the Run starts and verified with every request              *)
(* (src/server/run-capability.ts), and what authorize asks of the Run      *)
(* (src/server/model-gateway-service.ts).  The signature is external: a    *)
(* token is the claims that were signed.  Instants count half seconds.     *)
(***************************************************************************)
EXTENDS Integers

CONSTANTS MaxCapabilityLifetime,  \* maximumCapabilityLifetimeSeconds
          CapabilitySkew,         \* futureClockSkewSeconds
          MaxOutputTokens         \* maximumOutputTokens

ASSUME CapabilityAssumption ==
    MaxCapabilityLifetime \in Nat /\ CapabilitySkew \in Nat /\ MaxOutputTokens \in Nat

Epoch(instant) == instant \div 2

NoToken == [run |-> "none"]

\* createClaims, which throws for input that it does not take
IssueCapability(input) ==
    LET iat == Epoch(input.issuedAt)  exp == Epoch(input.expiresAt)
    IN  IF /\ input.run # "" /\ input.tokens \in 1 .. MaxOutputTokens
           /\ exp > iat /\ exp - iat <= MaxCapabilityLifetime
        THEN [run |-> input.run, model |-> input.model, tokens |-> input.tokens,
              iat |-> iat, exp |-> exp]
        ELSE NoToken

\* jwtVerify, which compares exp with the instant, and isValidClaims
VerifyCapability(token, instant) ==
    /\ token # NoToken
    /\ token.exp > Epoch(instant) /\ token.iat <= Epoch(instant) + CapabilitySkew
    /\ token.exp > token.iat /\ token.exp - token.iat <= MaxCapabilityLifetime
    /\ token.tokens \in 1 .. MaxOutputTokens

\* authorize: the Run as it is read then
AuthorizeCapability(token, instant, run) ==
    /\ VerifyCapability(token, instant)
    /\ run.id = token.run /\ run.status \in {"starting", "running"} /\ run.model = token.model

-----------------------------------------------------------------------------
\* What is issued is accepted from its issue on, and as much earlier as clocks may differ, up
\* to its expiry and not a moment longer, for no longer than an hour, and as long as its Run
\* works, with the model that it was issued for.
CapabilityAgrees(input, instant, run) ==
    LET token == IssueCapability(input)
    IN  /\ AuthorizeCapability(token, instant, run) <=>
              /\ token # NoToken /\ run.id = input.run /\ run.model = input.model
              /\ run.status \in {"starting", "running"}
              /\ Epoch(instant) \in (Epoch(input.issuedAt) - CapabilitySkew) ..
                                       (Epoch(input.expiresAt) - 1)
        /\ AuthorizeCapability(token, instant, run) =>
              /\ instant < input.expiresAt
              /\ instant < input.issuedAt + 2 * MaxCapabilityLifetime
=============================================================================
