------------------------------ MODULE SoapAuth ------------------------------
(****************************************************************************)
(* One SOAP call with digest authentication: Action.CallWithClient          *)
(* (fritzbox_upnp/service.go).  The collection and the poller of the event  *)
(* archive call at the same time and share authHeader, the header that was  *)
(* accepted last, which is read and written under a mutex, one access at a  *)
(* time.  The router changes its nonce whenever it likes, and when it is    *)
(* started again.                                                           *)
(*                                                                          *)
(* A header is known by its nonce.  It also names the path of the service   *)
(* it was made for: a first request, whose header another call may have     *)
(* made, may be refused although its nonce is the router's.  The header of  *)
(* a second request was made for it.                                        *)
(****************************************************************************)
EXTENDS Integers

CONSTANTS
    Callers,       \* the goroutines that call actions
    Credentials,   \* a user name and a password are configured
    Unsupported,   \* a challenge that is not Digest, MD5 and auth, or none
    MaxNonce       \* bound: how often the nonce changes

NoHeader == 0

ASSUME CredentialsAssumption == Credentials \in BOOLEAN
ASSUME ChallengeAssumption == MaxNonce \in Nat /\ Unsupported \notin 0 .. MaxNonce + 1

VARIABLES
    authHeader, \* the shared header, NoHeader at first
    step,       \* where each caller is
    header,     \* the header of its request
    challenge,  \* the challenge it was given
    protected,  \* its action needs authentication
    nonce,      \* the nonce of the router
    sent,       \* history: the requests of this call
    ran,        \* history: how often the router ran the action for this call
    changed     \* history: the nonce has changed since the challenge

local == <<step, header, challenge, protected>>
history == <<sent, ran, changed>>
vars == <<authHeader, local, nonce, history>>

Nonces == 1 .. MaxNonce + 1

\* "first" and "second": the request is on its way to the router; "run": its
\* action was run; "challenged": it was refused; "stored": authHeader was replaced.
Steps == {"idle", "first", "challenged", "stored", "second", "run"}

Init ==
    /\ authHeader = NoHeader
    /\ step = [c \in Callers |-> "idle"]
    /\ header = [c \in Callers |-> NoHeader]
    /\ challenge = [c \in Callers |-> NoHeader]
    /\ protected = [c \in Callers |-> FALSE]
    /\ nonce = 1
    /\ sent = [c \in Callers |-> 0]
    /\ ran = [c \in Callers |-> 0]
    /\ changed = [c \in Callers |-> FALSE]

-----------------------------------------------------------------------------
(* The caller                                                               *)

Send(c, h) ==
    /\ header' = [header EXCEPT ![c] = h]
    /\ sent' = [sent EXCEPT ![c] = @ + 1]

\* The first request carries the header that was stored last, if there is one.
Begin(c) ==
    /\ step[c] = "idle"
    /\ step' = [step EXCEPT ![c] = "first"]
    /\ Send(c, authHeader)
    /\ \E p \in BOOLEAN : protected' = [protected EXCEPT ![c] = p]
    /\ UNCHANGED <<authHeader, challenge, nonce, ran, changed>>

Return(c) ==
    /\ step' = [step EXCEPT ![c] = "idle"]
    /\ header' = [header EXCEPT ![c] = NoHeader]
    /\ challenge' = [challenge EXCEPT ![c] = NoHeader]
    /\ protected' = [protected EXCEPT ![c] = FALSE]
    /\ sent' = [sent EXCEPT ![c] = 0]
    /\ ran' = [ran EXCEPT ![c] = 0]
    /\ changed' = [changed EXCEPT ![c] = FALSE]
    /\ UNCHANGED <<authHeader, nonce>>

Usable(c) == Credentials /\ challenge[c] # Unsupported

Authorize(c) ==
    /\ step[c] = "challenged"
    /\ Usable(c)
    /\ authHeader' = challenge[c]
    /\ step' = [step EXCEPT ![c] = "stored"]
    /\ UNCHANGED <<header, challenge, protected, nonce, history>>

\* Mutant of GiveUp: the request is made again, in the hope of a better challenge.
AskAgain(c) ==
    /\ step[c] = "challenged"
    /\ ~Usable(c)
    /\ step' = [step EXCEPT ![c] = "first"]
    /\ UNCHANGED <<authHeader, header, challenge, protected, nonce, history>>

\* No password, or no header can be made for the challenge.
GiveUp(c) == step[c] = "challenged" /\ ~Usable(c) /\ Return(c)

\* Mutant of SecondHeader: the shared header is read again.
SharedHeader(c) == authHeader

\* The second request carries newAuth, whatever authHeader is by now.
SecondHeader(c) == challenge[c]

Resend(c) ==
    /\ step[c] = "stored"
    /\ step' = [step EXCEPT ![c] = "second"]
    /\ Send(c, SecondHeader(c))
    /\ UNCHANGED <<authHeader, challenge, protected, nonce, ran, changed>>

-----------------------------------------------------------------------------
(* The router, and what the caller makes of its answers                     *)

Sent(c) == step[c] \in {"first", "second"}

\* The router may run the action.
Admitted(c) == ~protected[c] \/ header[c] = nonce

Served(c) ==
    /\ Sent(c)
    /\ Admitted(c)
    /\ step' = [step EXCEPT ![c] = "run"]
    /\ ran' = [ran EXCEPT ![c] = @ + 1]
    /\ UNCHANGED <<authHeader, header, challenge, protected, nonce, sent, changed>>

\* Mutant of Answered: without an answer the request is made once more.
AnsweredOrAgain(c) ==
    /\ step[c] = "run"
    /\ step' = [step EXCEPT ![c] = "stored"]
    /\ UNCHANGED <<authHeader, header, challenge, protected, nonce, history>>

\* The caller gets the result or a fault, or no answer in time.
Answered(c) == step[c] = "run" /\ Return(c)

\* The request does not reach the router in time.
Lost(c) == Sent(c) /\ Return(c)

\* Status 401 on the first request: its header is old, or for another service.
Challenged(c) ==
    /\ step[c] = "first"
    /\ protected[c]
    /\ step' = [step EXCEPT ![c] = "challenged"]
    /\ \E n \in {nonce, Unsupported} : challenge' = [challenge EXCEPT ![c] = n]
    /\ changed' = [changed EXCEPT ![c] = FALSE]
    /\ UNCHANGED <<authHeader, header, protected, nonce, sent, ran>>

\* Status 401 on the second request is an error like any other status.
Refused(c) == step[c] = "second" /\ ~Admitted(c) /\ Return(c)

Rotate ==
    /\ nonce <= MaxNonce
    /\ nonce' = nonce + 1
    /\ changed' = [c \in Callers |-> TRUE]
    /\ UNCHANGED <<authHeader, local, sent, ran>>

-----------------------------------------------------------------------------
CallWithClient(c) ==
    \/ Authorize(c) \/ GiveUp(c) \/ Resend(c)
    \/ Served(c) \/ Answered(c) \/ Lost(c) \/ Challenged(c) \/ Refused(c)

Next == Rotate \/ \E c \in Callers : Begin(c) \/ CallWithClient(c)

Spec == Init /\ [][Next]_vars

\* Every caller runs in a goroutine of its own, and its client has a timeout.
FairSpec == Spec /\ \A c \in Callers : WF_vars(CallWithClient(c))

-----------------------------------------------------------------------------
(* A call makes at most two requests.                                       *)
TypeOK ==
    /\ authHeader \in Nonces \cup {NoHeader}
    /\ step \in [Callers -> Steps]
    /\ header \in [Callers -> Nonces \cup {NoHeader}]
    /\ challenge \in [Callers -> Nonces \cup {NoHeader, Unsupported}]
    /\ protected \in [Callers -> BOOLEAN]
    /\ nonce \in Nonces
    /\ sent \in [Callers -> 0 .. 2]
    /\ ran \in [Callers -> Nat]
    /\ changed \in [Callers -> BOOLEAN]

(* The action of a call is run at most once, so that one that is not        *)
(* idempotent is safe: the request is repeated only after a 401, which the  *)
(* router gives without running it (service.go:328-361).                    *)
RunsAtMostOnce == \A c \in Callers : ran[c] <= 1

(* A caller with a password whose challenge it can meet is refused only if  *)
(* the router has changed its nonce since, never because of what another    *)
(* caller has stored in the meantime (service.go:341-361).                  *)
RefusedOnlyAfterChange ==
    [][\A c \in Callers : Refused(c) => changed[c]]_vars

(* A call returns, also when nothing can be made of the challenge.          *)
CallReturns == \A c \in Callers : step[c] # "idle" ~> step[c] = "idle"
=============================================================================
