------------------------------ MODULE Admission ------------------------------
(***************************************************************************)
(* What a signed request passes before its handler runs: a token bucket,   *)
(* a permit for the calls in flight, the signature with its clock window,  *)
(* and the nonce table.  The whole call is dropped when it takes too long, *)
(* which returns its permit.  The listener of public thumbnails has the    *)
(* same bucket and permits.                                                *)
(*                                                                         *)
(* A message is what the client signed once; it may arrive as several      *)
(* calls.                                                                  *)
(***************************************************************************)
EXTENDS Naturals, Sequences

CONSTANTS
    Calls, Messages,
    MessageOf,          \* the message each call carries
    Stamps,             \* times at which a client may have signed
    Rate, Burst,        \* tokens per second, and at most
    Second,             \* ticks of the clock in a second
    MaxInFlight,
    Skew, Deadline,     \* allowed_skew_seconds and the router's timeout, in ticks
    MaxTime

AdmissionAssumption ==
    /\ Rate \in Nat \ {0} /\ Burst \in Nat /\ Burst >= Rate /\ Second \in Nat \ {0}
    /\ MaxInFlight \in Nat \ {0} /\ Skew \in Nat \ {0} /\ Deadline \in Nat \ {0}
    /\ MaxTime \in Nat /\ MessageOf \in [Calls -> Messages]

VARIABLES
    tokens, refilled_at,    \* TokenBucket
    permits,                \* in_flight
    nonces,                 \* request_nonces: the messages' nonces with expires_at
    stamp,                  \* the time each message was signed, by the client's clock
    call,                   \* per call: step, start, the time it read
    admitted,               \* history: when the bucket admitted a call
    executed,               \* history: messages whose nonce was reserved
    refused,                \* history: time of the last refusal by the bucket
    clock

vars == <<tokens, refilled_at, permits, nonces, stamp, call, admitted, executed, refused, clock>>

Never == MaxTime + 1

Init ==
    /\ tokens = Burst /\ refilled_at = 0 /\ permits = MaxInFlight
    /\ nonces = {} /\ stamp \in [Messages -> Stamps]
    /\ call = [c \in Calls |-> [step |-> "new", since |-> 0, now |-> 0]]
    /\ admitted = << >> /\ executed = << >> /\ refused = Never /\ clock = 0

GoTo(c, step) == call' = [call EXCEPT ![c].step = step]

Send(c) ==
    /\ call[c].step = "new"
    /\ call' = [call EXCEPT ![c].step = "rate", ![c].since = clock]
    /\ UNCHANGED <<tokens, refilled_at, permits, nonces, stamp, admitted, executed, refused, clock>>

-----------------------------------------------------------------------------
Minimum(a, b) == IF a < b THEN a ELSE b

(* Whole tokens since the last time some were added *)
Refill == ((clock - refilled_at) * Rate) \div Second

RefilledAt_Always == clock

RefilledAt == IF Refill > 0 THEN clock ELSE refilled_at

(* admit_token, under the bucket's mutex *)
AdmitToken(c) ==
    LET filled == Minimum(tokens + Refill, Burst) IN
    /\ call[c].step = "rate"
    /\ refilled_at' = RefilledAt
    /\ \/ /\ filled = 0
          /\ tokens' = 0 /\ GoTo(c, "refused") /\ refused' = clock
          /\ UNCHANGED admitted
       \/ /\ filled > 0
          /\ tokens' = filled - 1 /\ GoTo(c, "permit") /\ admitted' = Append(admitted, clock)
          /\ UNCHANGED refused
    /\ UNCHANGED <<permits, nonces, stamp, executed, clock>>

(* try_acquire_owned: without a permit the token is spent all the same *)
AcquirePermit(c) ==
    /\ call[c].step = "permit"
    /\ IF permits > 0 THEN GoTo(c, "verify") /\ permits' = permits - 1
                      ELSE GoTo(c, "refused") /\ UNCHANGED permits
    /\ UNCHANGED <<tokens, refilled_at, nonces, stamp, admitted, executed, refused, clock>>

Answer(c) == GoTo(c, "answered") /\ permits' = permits + 1

Apart(a, b) == IF a < b THEN b - a ELSE a - b

(* verify, then the time for the nonce is read once more *)
Verify(c) ==
    /\ call[c].step = "verify"
    /\ IF Apart(clock, stamp[MessageOf[c]]) > Skew
         THEN Answer(c)
         ELSE call' = [call EXCEPT ![c].step = "consume", ![c].now = clock] /\ UNCHANGED permits
    /\ UNCHANGED <<tokens, refilled_at, nonces, stamp, admitted, executed, refused, clock>>

ExpiresAt_Signed(c) == stamp[MessageOf[c]] + Skew

ExpiresAt(c) == call[c].now + Skew

(* consume: one transaction, with the time read before it began *)
Consume(c) ==
    LET m == MessageOf[c]
        kept == {n \in nonces : n.expires_at > call[c].now}
    IN  /\ call[c].step = "consume"
        /\ \/ /\ \A n \in kept : n.message # m
              /\ nonces' = kept \cup {[message |-> m, expires_at |-> ExpiresAt(c)]}
              /\ executed' = Append(executed, [message |-> m, now |-> call[c].now, at |-> clock])
              /\ GoTo(c, "handle") /\ UNCHANGED permits
           \/ /\ \E n \in kept : n.message = m      \* Replay: rolled back
              /\ Answer(c) /\ UNCHANGED <<nonces, executed>>
        /\ UNCHANGED <<tokens, refilled_at, stamp, admitted, refused, clock>>

(* The nonce table cannot be written *)
ConsumeFails(c) ==
    /\ call[c].step = "consume" /\ Answer(c)
    /\ UNCHANGED <<tokens, refilled_at, nonces, stamp, admitted, executed, refused, clock>>

(* The handler answers *)
Handle(c) ==
    /\ call[c].step = "handle" /\ Answer(c)
    /\ UNCHANGED <<tokens, refilled_at, nonces, stamp, admitted, executed, refused, clock>>

InFlight(c) == call[c].step \in {"rate", "permit", "verify", "consume", "handle"}

HoldsPermit(c) == call[c].step \in {"verify", "consume", "handle"}

(* TimeoutLayer: the call is dropped where it stands *)
CutOff(c) ==
    /\ InFlight(c) /\ clock - call[c].since >= Deadline
    /\ GoTo(c, "answered")
    /\ permits' = IF HoldsPermit(c) THEN permits + 1 ELSE permits
    /\ UNCHANGED <<tokens, refilled_at, nonces, stamp, admitted, executed, refused, clock>>

Tick ==
    /\ clock < MaxTime
    /\ \A c \in Calls : InFlight(c) => clock - call[c].since < Deadline
    /\ clock' = clock + 1
    /\ UNCHANGED <<tokens, refilled_at, permits, nonces, stamp, call, admitted, executed, refused>>

Next ==
    \/ \E c \in Calls :
         \/ Send(c) \/ AdmitToken(c) \/ AcquirePermit(c) \/ Verify(c)
         \/ Consume(c) \/ ConsumeFails(c) \/ Handle(c) \/ CutOff(c)
    \/ Tick

Spec == Init /\ [][Next]_vars

-----------------------------------------------------------------------------
(* The bucket never admits more calls between two moments than a burst and
   what the rate allows in between, and it refuses nobody for as long as one
   token takes after it last admitted a call, however often it is asked: time
   that did not yet make a token is not lost. *)
BucketKeepsRate ==
    /\ \A i, j \in DOMAIN admitted :
         i <= j => (j - i + 1) * Second
                     <= Burst * Second + (admitted[j] - admitted[i]) * Rate + (Second - 1)
    /\ refused # Never /\ admitted # << >> /\ admitted[Len(admitted)] <= refused =>
         (refused - admitted[Len(admitted)]) * Rate < Second

(* A call that ended, by an answer, a refusal or the deadline, holds no permit:
   when nobody is in flight the listener accepts as many calls as at its start. *)
PermitsReturn ==
    (\A c \in Calls : ~InFlight(c)) => permits = MaxInFlight

(* The limiter admits what it promises, and goes on doing so. *)
LimitsHold == BucketKeepsRate /\ PermitsReturn

(* A message delivered twice is executed a second time, if at all, no sooner
   than the allowed skew after the moment its first execution was dated,
   although nonces are purged by the time another call read. *)
DuplicatesFarApart ==
    \A i, j \in DOMAIN executed :
      i < j /\ executed[i].message = executed[j].message =>
        executed[j].at >= executed[i].now + Skew
=============================================================================
