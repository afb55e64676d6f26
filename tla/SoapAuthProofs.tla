--------------------------- MODULE SoapAuthProofs ---------------------------
(****************************************************************************)
(* Proofs about SoapAuth, for any number of callers and any number of       *)
(* changes of the nonce.                                                    *)
(****************************************************************************)
EXTENDS SoapAuth, TLAPS

\* An action of the call at hand has been run when its answer is awaited, and
\* only then.
RunIsCounted == \A c \in Callers : ran[c] = IF step[c] = "run" THEN 1 ELSE 0

SentIsCounted ==
    \A c \in Callers :
        /\ step[c] = "idle" => sent[c] = 0
        /\ step[c] \in {"first", "challenged", "stored"} => sent[c] = 1

\* As long as the nonce has not changed the challenge is the nonce.
ChallengeIsCurrent ==
    \A c \in Callers :
        step[c] \in {"challenged", "stored", "second"} /\ ~changed[c] =>
            challenge[c] \in {nonce, Unsupported}

\* The second request answers the challenge that this call was given.
ChallengeIsMet ==
    \A c \in Callers :
        /\ step[c] \in {"stored", "second"} => challenge[c] # Unsupported
        /\ step[c] = "second" => header[c] = challenge[c]

IInv == TypeOK /\ RunIsCounted /\ SentIsCounted /\ ChallengeIsCurrent /\ ChallengeIsMet

(* Before the first call nothing has been stored and nothing is on its way. *)
LEMMA InitHolds == Init => IInv
  BY ChallengeAssumption
  DEF Init, IInv, TypeOK, RunIsCounted, SentIsCounted, ChallengeIsCurrent, ChallengeIsMet,
      Nonces, NoHeader, Steps

(* Whatever ends a call leaves nothing of it behind.                        *)
LEMMA ReturnKeeps == ASSUME NEW c \in Callers, IInv, Return(c) PROVE IInv'
  BY DEF Return, IInv, TypeOK, RunIsCounted, SentIsCounted, ChallengeIsCurrent,
         ChallengeIsMet, Nonces, NoHeader, Steps

(* The other steps of a call: each is a CASE of its own.                    *)
LEMMA CallKeeps == ASSUME NEW c \in Callers, IInv, CallWithClient(c) PROVE IInv'
<1> USE DEF local, history
<1>1. CASE Authorize(c)
  BY <1>1 DEF Authorize, Usable, IInv, TypeOK, RunIsCounted, SentIsCounted,
              ChallengeIsCurrent, ChallengeIsMet, Steps
<1>2. CASE Resend(c)
  BY <1>2 DEF Resend, Send, SecondHeader, IInv, TypeOK, RunIsCounted, SentIsCounted,
              ChallengeIsCurrent, ChallengeIsMet, Steps
<1>3. CASE Served(c)
  BY <1>3 DEF Served, Sent, IInv, TypeOK, RunIsCounted, SentIsCounted,
              ChallengeIsCurrent, ChallengeIsMet, Steps
<1>4. CASE Challenged(c)
  <2>1. PICK n \in {nonce, Unsupported} : challenge' = [challenge EXCEPT ![c] = n]
    BY <1>4 DEF Challenged
  <2>. QED
    BY <1>4, <2>1 DEF Challenged, IInv, TypeOK, RunIsCounted, SentIsCounted,
                      ChallengeIsCurrent, ChallengeIsMet, Steps
<1>5. CASE GiveUp(c) \/ Answered(c) \/ Lost(c) \/ Refused(c)
  BY <1>5, ReturnKeeps DEF GiveUp, Answered, Lost, Refused
<1>. QED
  BY <1>1, <1>2, <1>3, <1>4, <1>5 DEF CallWithClient

(* A change of the nonce only makes challenges stale.                       *)
LEMMA StepKeeps == IInv /\ [Next]_vars => IInv'
<1> SUFFICES ASSUME IInv, [Next]_vars PROVE IInv'
  OBVIOUS
<1>1. CASE Rotate
  BY <1>1, ChallengeAssumption
  DEF Rotate, local, IInv, TypeOK, RunIsCounted, SentIsCounted, ChallengeIsCurrent,
      ChallengeIsMet, Nonces
<1>2. ASSUME NEW c \in Callers, Begin(c) PROVE IInv'
  <2>1. PICK p \in BOOLEAN : protected' = [protected EXCEPT ![c] = p]
    BY <1>2 DEF Begin
  <2>. QED
    BY <1>2, <2>1 DEF Begin, Send, IInv, TypeOK, RunIsCounted, SentIsCounted,
                      ChallengeIsCurrent, ChallengeIsMet, Steps
<1>3. ASSUME NEW c \in Callers, CallWithClient(c) PROVE IInv'
  BY <1>3, CallKeeps
<1>4. CASE UNCHANGED vars
  BY <1>4 DEF vars, local, history, IInv, TypeOK, RunIsCounted, SentIsCounted,
              ChallengeIsCurrent, ChallengeIsMet
<1>. QED
  BY <1>1, <1>2, <1>3, <1>4 DEF Next

(* The inductive invariant holds of every reachable state.                  *)
THEOREM InvariantHolds == Spec => []IInv
  BY InitHolds, StepKeeps, PTL DEF Spec

(* No call makes a third request, and the shared header is always one that  *)
(* was made for a challenge of the router.                                  *)
THEOREM TypeCorrect == Spec => []TypeOK
<1>1. IInv => TypeOK
  BY DEF IInv
<1>. QED
  BY InvariantHolds, <1>1, PTL

(* The router runs the action of a call at most once.                       *)
THEOREM CallRunsAtMostOnce == Spec => []RunsAtMostOnce
<1>1. IInv => RunsAtMostOnce
  <2> SUFFICES ASSUME IInv, NEW c \in Callers PROVE ran[c] <= 1
    BY DEF RunsAtMostOnce
  <2>1. ran[c] \in {0, 1}
    BY DEF IInv, RunIsCounted
  <2>. QED
    BY <2>1
<1>. QED
  BY InvariantHolds, <1>1, PTL

(* The callers do not get in each other's way, although they overwrite each *)
(* other's header: only a change of the nonce after the challenge makes the *)
(* second request fail for want of permission.                              *)
THEOREM CallersAreIndependent == Spec => RefusedOnlyAfterChange
<1>1. IInv /\ [Next]_vars => [\A c \in Callers : Refused(c) => changed[c]]_vars
  <2> SUFFICES ASSUME IInv, NEW c \in Callers, Refused(c), ~changed[c] PROVE FALSE
    OBVIOUS
  <2>1. step[c] = "second" /\ header[c] # nonce
    BY DEF Refused, Admitted
  <2>2. challenge[c] = nonce /\ header[c] = challenge[c]
    BY <2>1 DEF IInv, ChallengeIsCurrent, ChallengeIsMet
  <2>. QED
    BY <2>1, <2>2
<1>. QED
  BY InvariantHolds, <1>1, PTL DEF Spec, RefusedOnlyAfterChange


-----------------------------------------------------------------------------
(* Termination.  The steps a call can still make: one request, a challenge, *)
(* a second request.                                                        *)
StepsLeft(c) ==
    CASE step[c] = "first" -> 5
      [] step[c] = "challenged" -> 4
      [] step[c] = "stored" -> 3
      [] step[c] = "second" -> 2
      [] step[c] = "run" -> 1
      [] OTHER -> 0

(* Every step of a call brings its end nearer, and nothing that the router  *)
(* or the other callers do moves it away: nonces that change for ever       *)
(* cannot keep a call going (service.go:328-361).                           *)
CallIsFinite ==
    [][\A c \in Callers :
          /\ CallWithClient(c) => StepsLeft(c)' < StepsLeft(c)
          /\ ~Begin(c) => StepsLeft(c)' <= StepsLeft(c)]_vars

\* What the count comes to when a caller is at a given step.
LEMMA StepsAreCounted ==
    ASSUME TypeOK, NEW c \in Callers
    PROVE  /\ StepsLeft(c) \in 0 .. 5
           /\ StepsLeft(c) = 0 <=> step[c] = "idle"
<1>1. step[c] \in Steps
  BY DEF TypeOK
<1>. QED
  BY <1>1 DEF StepsLeft, Steps

\* The caller that makes the step comes nearer to its end.
LEMMA CallAdvances ==
    ASSUME TypeOK, NEW c \in Callers, CallWithClient(c)
    PROVE  StepsLeft(c)' < StepsLeft(c)
<1>1. step \in [Callers -> Steps]
  BY DEF TypeOK
<1>2. CASE Authorize(c)
  BY <1>1, <1>2 DEF Authorize, StepsLeft, Steps
<1>3. CASE Resend(c)
  BY <1>1, <1>3 DEF Resend, StepsLeft, Steps
<1>4. CASE Served(c)
  BY <1>1, <1>4 DEF Served, Sent, StepsLeft, Steps
<1>5. CASE Challenged(c)
  BY <1>1, <1>5 DEF Challenged, StepsLeft, Steps
<1>6. CASE GiveUp(c) \/ Answered(c) \/ Lost(c) \/ Refused(c)
  <2>1. step[c] # "idle" /\ Return(c)
    BY <1>6 DEF GiveUp, Answered, Lost, Refused, Sent
  <2>2. step'[c] = "idle"
    BY <1>1, <2>1 DEF Return
  <2>. QED
    BY <1>1, <2>1, <2>2 DEF StepsLeft, Steps
<1>. QED
  BY <1>2, <1>3, <1>4, <1>5, <1>6 DEF CallWithClient

\* A step of one caller moves no other.
LEMMA CallsAreApart ==
    ASSUME TypeOK, NEW c \in Callers, NEW b \in Callers, b # c,
           Begin(c) \/ CallWithClient(c)
    PROVE  step'[b] = step[b]
<1>1. step \in [Callers -> Steps]
  BY DEF TypeOK
<1>2. \E s : step' = [step EXCEPT ![c] = s]
  BY DEF Begin, CallWithClient, Authorize, GiveUp, Resend, Served, Answered, Lost,
         Challenged, Refused, Return
<1>. QED
  BY <1>1, <1>2

(* No call goes on for ever, whatever the router does and however the calls *)
(* interleave.                                                              *)
THEOREM CallsAreFinite == Spec => CallIsFinite
<1>1. IInv /\ [Next]_vars =>
          [\A c \in Callers :
              /\ CallWithClient(c) => StepsLeft(c)' < StepsLeft(c)
              /\ ~Begin(c) => StepsLeft(c)' <= StepsLeft(c)]_vars
  <2>. SUFFICES ASSUME IInv, Next, NEW b \in Callers
                PROVE  /\ CallWithClient(b) => StepsLeft(b)' < StepsLeft(b)
                       /\ ~Begin(b) => StepsLeft(b)' <= StepsLeft(b)
    OBVIOUS
  <2>. USE DEF IInv
  <2>1. StepsLeft(b) \in 0 .. 5
    BY StepsAreCounted
  <2>2. step'[b] = step[b] => StepsLeft(b)' = StepsLeft(b)
    BY DEF StepsLeft
  <2>3. CallWithClient(b) => StepsLeft(b)' < StepsLeft(b)
    BY CallAdvances
  <2>4. CASE Rotate
    BY <2>1, <2>2, <2>3, <2>4 DEF Rotate, local
  <2>5. ASSUME NEW c \in Callers, b # c, Begin(c) \/ CallWithClient(c)
        PROVE  StepsLeft(b)' <= StepsLeft(b)
    BY <2>1, <2>2, <2>5, CallsAreApart
  <2>6. CASE Begin(b)
    BY <2>3, <2>6
  <2>7. CASE CallWithClient(b)
    <3>1. StepsLeft(b)' \in Int
      BY DEF StepsLeft
    <3>. QED
      BY <2>1, <2>3, <2>7, <3>1
  <2>. QED
    BY <2>3, <2>4, <2>5, <2>6, <2>7 DEF Next
<1>. QED
  BY InvariantHolds, <1>1, PTL DEF Spec, CallIsFinite
=============================================================================
