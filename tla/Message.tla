------------------------------- MODULE Message -------------------------------
(***************************************************************************)
(* message.go and publisher.go: what Publish makes of a message before it   *)
(* is a frame (applyDefaults, validateHeaders, encodeMsg, buildPublishing). *)
(* A duration is a number of units, Ms of which are a millisecond, and       *)
(* MaxInt is the largest value of the signed integer that carries x-delay.   *)
(* A header table is the set of its leaves, each with its key, its Go type   *)
(* and the number of tables it is nested in.                                 *)
(***************************************************************************)
EXTENDS Integers

CONSTANTS
  Ms,              \* duration units per millisecond
  MaxInt,          \* math.MaxInt32
  maxHeaderDepth,  \* how deep header tables may nest
  maxMessageSize,  \* MaxMessageSizeBytes; 0 is no limit
  authUser,        \* the user of the connection, "" when it is not known
  stampUserID      \* StampUserID

ASSUME MessageAssumption ==
  /\ Ms \in Nat \ {0} /\ MaxInt \in Nat \ {0}
  /\ maxHeaderDepth \in Nat /\ maxMessageSize \in Nat
  /\ stampUserID \in BOOLEAN

\* Duration.Milliseconds rounds toward zero.
Milliseconds(d) == IF d < 0 THEN -((-d) \div Ms) ELSE d \div Ms

\* The conversion to the signed integer on the wire wraps around.
int32(n) == ((n + MaxInt + 1) % (2 * (MaxInt + 1))) - (MaxInt + 1)

FixedTypes == {"int64", "uint64", "string", "nil"}
Coerced == [int |-> "int64", uint |-> "uint64"]

\* validateHeadersDepth, validateHeaderValue: leaves of platform width are
\* widened in place; the others must have a type the wire knows.
validateHeaders(h) ==
  \A l \in h : l.nest <= maxHeaderDepth /\ l.type \in FixedTypes \cup DOMAIN Coerced
coerce(h) ==
  {[l EXCEPT !.type = IF @ \in DOMAIN Coerced THEN Coerced[@] ELSE @] : l \in h}

\* A header table written over another.
Over(h, g) == h \cup {l \in g : \A k \in h : k.key # l.key}

\* applyDefaults: an empty MessageID is generated, id being what NewV7 returns
\* ("" when it fails), then StampUserID.
withDefaults(m, id) ==
  [m EXCEPT !.id = IF @ = "" THEN id ELSE @,
            !.user = IF @ = "" /\ stampUserID THEN authUser ELSE @]

\* mutant: any TTL is let through
malformedAnyTTL(m) ==
  \/ m.id = "" \/ ~m.hasBody
  \/ ~validateHeaders(m.headers)
  \/ m.user # "" /\ authUser # "" /\ m.user # authUser
  \/ Milliseconds(m.delay) \notin 0..MaxInt
  \/ m.codec.fails \/ ~validateHeaders(m.codec.headers)

\* encodeMsg, all that is ErrInvalidMessage: no MessageID, a header the wire
\* cannot carry, another user, no body, a delay or a TTL out of range, a codec
\* that fails or panics or returns such a header itself.
malformed(m) ==
  \/ m.id = "" \/ ~m.hasBody
  \/ ~validateHeaders(m.headers)
  \/ m.user # "" /\ authUser # "" /\ m.user # authUser
  \/ Milliseconds(m.delay) \notin 0..MaxInt
  \/ m.expiration # 0 /\ Milliseconds(m.expiration) <= 0
  \/ m.codec.fails \/ ~validateHeaders(m.codec.headers)

\* The error of encodeMsg; none is the empty set.
encodeErr(m) ==
  IF malformed(m) THEN {"ErrInvalidMessage"}
  ELSE IF maxMessageSize > 0 /\ m.size > maxMessageSize THEN {"ErrMessageTooLarge"}
  ELSE {}

\* encodeMsg, the message it returns: the codec's headers win.
encodeMsg(m) == [m EXCEPT !.headers = Over(coerce(m.codec.headers), coerce(@))]

\* buildPublishing: an absent property is the empty set; x-delay is a header.
buildPublishing(m) ==
  [id |-> m.id, user |-> m.user, size |-> m.size,
   headers |-> IF m.delay > 0
                 THEN Over({[key |-> "x-delay", type |-> "int32", nest |-> 0]}, m.headers)
                 ELSE m.headers,
   delay |-> IF m.delay > 0 THEN {int32(Milliseconds(m.delay))} ELSE {},
   expiration |-> IF m.expiration > 0 THEN {Milliseconds(m.expiration)} ELSE {}]

\* A frame f says what the caller of Publish asked for with m: a TTL is present
\* when one was asked for, is never the "0" that discards on arrival and never
\* longer than asked; the delay is what was asked, in range of the broker's
\* signed integer; the user is the connection's; every header has a type of
\* fixed width, within the depth, and the codec's own header is the one sent.
SaysWhatWasAsked(f, m) ==
  /\ f.id # ""
  /\ f.expiration = {} <=> m.expiration = 0
  /\ \A t \in f.expiration : t > 0 /\ t * Ms <= m.expiration
  /\ \A t \in f.delay : t >= 0 /\ t * Ms <= m.delay /\ m.delay < (t + 1) * Ms
  /\ m.delay >= Ms => f.delay # {}
  /\ f.user # "" /\ authUser # "" => f.user = authUser
  /\ \A l \in f.headers : l.nest <= maxHeaderDepth /\ l.type \in FixedTypes \cup {"int32"}
  /\ \A k \in m.codec.headers : k.key = "x-delay" \/ \E l \in f.headers : l.key = k.key
  /\ \A k, l \in f.headers : k.key = l.key => k = l
  /\ maxMessageSize > 0 => f.size <= maxMessageSize
=============================================================================
