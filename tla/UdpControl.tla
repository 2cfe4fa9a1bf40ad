----------------------------- MODULE UdpControl -----------------------------
(***************************************************************************)
(* Datagram transport (src/transport/udp_transport.cpp) and the statistics *)
(* kept of it (src/benchmark/statistics.cpp), as the demos join them:      *)
(* sensors (demo/udp_sensor.cpp) number and send frames, one datagram per  *)
(* frame, and the control process (demo/udp_control.cpp) receives until it *)
(* has counted `expected` frames or hears nothing for its time-out.  The   *)
(* network loses (a datagram may stay in flight for ever), duplicates,     *)
(* reorders and changes datagrams: the CRC tells a changed topic or        *)
(* payload, but nothing tells a changed number, publisher, flag or type of *)
(* the header.                                                             *)
(***************************************************************************)
EXTENDS FrameCodec, FiniteSets, FiniteSetsExt, Functions

CONSTANTS
    Sensors,            \* publishers; a restarted sensor is another one
    count,              \* frames each sensor is to send
    expected,           \* how many the control process waits for
    bodies,             \* [topic, payload] sizes of the frames sent
    sender_datagram, receiver_datagram,  \* max_datagram_size at each side
    limits,             \* FrameLimits of both
    Latencies,          \* measured latencies
    Numbers,            \* sequence numbers a changed header may show
    MaxFaults           \* bound: duplicated, changed or foreign datagrams and errors

ASSUME CountsAssumption == count \in [Sensors -> Nat] /\ expected \in Nat \ {0} /\ MaxFaults \in Nat
ASSUME BodiesAssumption == bodies \subseteq [topic : Nat, payload : Nat]
ASSUME LatenciesAssumption == Latencies \subseteq Nat /\ Numbers \subseteq Nat
ASSUME DatagramAssumption ==    \* validate_options
    {sender_datagram, receiver_datagram} \subseteq {n \in Nat : n >= HeaderSize /\ n <= 65507}

VARIABLES
    next,           \* sequence number each sensor sends next, its count when it is done
    network,        \* datagrams in flight: [bytes, copy]
    faults,
    running,        \* the control loop goes on
    received, malformed,
    seen_, has_highest_, highest_, duplicates_, out_of_order_,   \* SequenceTracker
    samples_ns_,    \* LatencyRecorder
    observed,       \* history: frames counted, in order
    altered         \* history: frames that a change of a header made

trackerVars == <<seen_, has_highest_, highest_, duplicates_, out_of_order_>>
udpVars == <<next, network, faults, running, received, malformed, trackerVars, samples_ns_,
             observed, altered>>

\* make_frame: what tells the frames of the sensors and of strangers apart.
make_frame(u, n, type, body) ==
    [publisher |-> u, sequence |-> n, type |-> type, flags |-> 0,
     topic |-> body.topic, payload |-> body.payload]

UdpInit ==
    /\ next = [u \in Sensors |-> 0]
    /\ network = {} /\ faults = 0
    /\ running = TRUE /\ received = 0 /\ malformed = 0
    /\ seen_ = {} /\ has_highest_ = FALSE /\ highest_ = 0
    /\ duplicates_ = 0 /\ out_of_order_ = 0
    /\ samples_ns_ = << >>
    /\ observed = << >> /\ altered = {}

-----------------------------------------------------------------------------
(* The sensor and the network *)

\* send_frame: encode_frame and send_datagram check their limits first.
Sendable(f) ==
    /\ checked_frame_size(f.topic, f.payload, limits) # Rejected
    /\ size(f) <= sender_datagram

\* One round of the sensor's loop.  An exception of send_frame, from a limit or
\* from sendto, ends it.
SensorSend(u) ==
    /\ next[u] < count[u]
    /\ \/ \E body \in bodies : LET f == make_frame(u, next[u], "imu", body)
          IN /\ Sendable(f)
             /\ network' = network \cup {[bytes |-> encode_frame(f), copy |-> 1]}
             /\ next' = [next EXCEPT ![u] = @ + 1]
       \/ next' = [next EXCEPT ![u] = count[u]] /\ UNCHANGED network
    /\ UNCHANGED <<faults, running, received, malformed, trackerVars, samples_ns_, observed, altered>>

Fault == faults < MaxFaults /\ faults' = faults + 1

\* What the header of f shows after a change of a field that neither the CRC nor
\* a size vouches for: the bytes are then those of another frame with the same
\* body.  (The send time is one more, and only makes another latency.)
Altered(f) ==
    ({[f EXCEPT !.sequence = n] : n \in Numbers} \cup {[f EXCEPT !.publisher = u] : u \in Sensors}
       \cup {[f EXCEPT !.flags = 1]} \cup {[f EXCEPT !.type = t] : t \in {"imu", "other"}}) \ {f}

Rewritten(bytes, f) == [i \in 1..Len(bytes) |-> [frame |-> f, at |-> bytes[i].at]]

\* The network repeats a datagram, changes what the CRC, the sizes or the magic
\* number vouch for, or changes another field of the header.
NetworkFault ==
    /\ running /\ Fault
    /\ \E d \in network :
          \/ network' = network \cup {[d EXCEPT !.copy = 2]} /\ d.copy = 1 /\ UNCHANGED altered
          \/ /\ \E i \in 1..Len(d.bytes) :
                   network' = (network \ {d}) \cup {[d EXCEPT !.bytes[i].at = 0]}
             /\ UNCHANGED altered
          \/ \E f \in Altered(d.bytes[1].frame) :
                /\ network' = (network \ {d}) \cup {[bytes |-> Rewritten(d.bytes, f), copy |-> d.copy]}
                /\ altered' = altered \cup {f}
    /\ UNCHANGED <<next, running, received, malformed, trackerVars, samples_ns_, observed>>

\* A datagram of another program: of another type, perhaps cut short.
Stranger ==
    /\ running /\ Fault
    /\ \E u \in Sensors, body \in bodies :
       LET other == encode_frame(make_frame(u, 0, "other", body))
       IN \E n \in {1, Len(other) - 1, Len(other)} :
             network' = network \cup {[bytes |-> SubSeq(other, 1, n), copy |-> 1]}
    /\ UNCHANGED <<next, running, received, malformed, trackerVars, samples_ns_, observed, altered>>

-----------------------------------------------------------------------------
(* SequenceTracker and LatencyRecorder *)

\* Mutant: the highest number is moved by every new frame.
observe_moves_back(n) ==
    IF n \in seen_ THEN /\ duplicates_' = duplicates_ + 1
                        /\ UNCHANGED <<seen_, has_highest_, highest_, out_of_order_>>
    ELSE /\ seen_' = seen_ \cup {n}
         /\ out_of_order_' = out_of_order_ + (IF has_highest_ /\ n < highest_ THEN 1 ELSE 0)
         /\ highest_' = n
         /\ has_highest_' = TRUE
         /\ UNCHANGED duplicates_

observe(n) ==
    IF n \in seen_ THEN /\ duplicates_' = duplicates_ + 1
                        /\ UNCHANGED <<seen_, has_highest_, highest_, out_of_order_>>
    ELSE /\ seen_' = seen_ \cup {n}
         /\ out_of_order_' = out_of_order_ + (IF has_highest_ /\ n < highest_ THEN 1 ELSE 0)
         /\ highest_' = (IF ~has_highest_ \/ n > highest_ THEN n ELSE highest_)
         /\ has_highest_' = TRUE
         /\ UNCHANGED duplicates_

lost(expected_messages) == Max({0, expected_messages - Cardinality(seen_)})

\* Mutant: the rank is used as an index without subtracting one.
nearest_rank_index(sorted, p) ==
    LET rank == (p[1] * Len(sorted) + p[2] - 1) \div p[2]
    IN IF sorted = << >> THEN 0 ELSE sorted[Min({rank + 1, Len(sorted)})]

\* The percentile p = <<numerator, denominator>> of sorted samples.
nearest_rank(sorted, p) ==
    LET rank == (p[1] * Len(sorted) + p[2] - 1) \div p[2]
    IN IF sorted = << >> THEN 0 ELSE sorted[Min({Max({rank, 1}), Len(sorted)})]

\* std::sort
sort(s) ==
    LET p == CHOOSE p \in Bijection(DOMAIN s, DOMAIN s) :
                \A i, j \in DOMAIN s : i < j => s[p[i]] <= s[p[j]]
    IN [i \in DOMAIN s |-> s[p[i]]]

Percentile(p) == nearest_rank(sort(samples_ns_), p)

-----------------------------------------------------------------------------
(* The control loop *)

\* receive_frame: MSG_TRUNC throws, and so does decode_frame.
receive_frame(bytes) ==
    IF Len(bytes) > receiver_datagram THEN NoFrame ELSE decode_frame(bytes, limits)

\* A frame of this type and topic is counted.  A latency is recorded unless
\* the sender's clock is ahead.
CountFrame(f) ==
    /\ observe(f.sequence)
    /\ received' = received + 1
    /\ observed' = Append(observed, f)
    /\ \E l \in Latencies : samples_ns_' = Append(samples_ns_, l)
    /\ UNCHANGED malformed

CountClockAhead(f) ==
    /\ observe(f.sequence)
    /\ received' = received + 1
    /\ observed' = Append(observed, f)
    /\ UNCHANGED <<samples_ns_, malformed>>

Discard ==
    /\ malformed' = malformed + 1
    /\ UNCHANGED <<received, trackerVars, samples_ns_, observed>>

Receive ==
    /\ running /\ received < expected
    /\ \E d \in network :
          /\ network' = network \ {d}
          /\ LET f == receive_frame(d.bytes)
             IN IF f = NoFrame THEN Discard
                ELSE IF f.type # "imu" THEN Discard
                ELSE CountFrame(f) \/ CountClockAhead(f)
    /\ UNCHANGED <<next, faults, running, altered>>

\* poll reports an error: caught like a bad datagram.
ReceiveError ==
    /\ running /\ received < expected /\ Fault
    /\ Discard
    /\ UNCHANGED <<next, network, running, altered>>

\* The time-out, or enough frames: the report is made.
Report ==
    /\ running
    /\ running' = FALSE
    /\ UNCHANGED <<next, network, faults, received, malformed, trackerVars, samples_ns_, observed,
                   altered>>

UdpNext == (\E u \in Sensors : SensorSend(u)) \/ NetworkFault \/ Stranger
           \/ Receive \/ ReceiveError \/ Report

UdpSpec == UdpInit /\ [][UdpNext]_udpVars

-----------------------------------------------------------------------------
\* What the report says is what happened.  Each frame counted was sent by a
\* sensor, or differs from one in flight in a header field that the network
\* changed.  As long as the frames counted show a single publisher (the tracker
\* is given the numbers alone): duplicates are the repeated numbers, a frame is
\* out of order if a higher number came before its first copy, and when all of
\* them were sent and the sensor was to send as many frames as expected, exactly
\* the numbers that did not arrive are lost.
SequenceReport ==
    LET n == Len(observed)
        Num(i) == observed[i].sequence
        Id(i) == <<observed[i].publisher, Num(i)>>
        Overtaken == {i \in 1..n :
                        /\ \A j \in 1..i - 1 : Id(j) # Id(i)
                        /\ \E j \in 1..i - 1 : /\ observed[j].publisher = observed[i].publisher
                                               /\ Num(j) > Num(i)}
        Sent(i) == \E u \in Sensors, body \in bodies :
                      Num(i) < next[u] /\ observed[i] = make_frame(u, Num(i), "imu", body)
        Only(u) == \A i \in 1..n : observed[i].publisher = u
    IN /\ \A i \in 1..n : Sent(i) \/ observed[i] \in altered
       /\ \A u \in Sensors : Only(u) =>
             /\ duplicates_ = n - Cardinality({Id(i) : i \in 1..n})
             /\ out_of_order_ = Cardinality(Overtaken)
             /\ (\A i \in 1..n : Sent(i)) /\ count[u] = expected =>
                   lost(expected) = Cardinality((0..count[u] - 1) \ {Num(i) : i \in 1..n})

\* A percentile is the smallest sample that at least that share of the
\* samples does not exceed (the median, the 95th, the 99th).
LatencyReport ==
    \A p \in {<<1, 2>>, <<95, 100>>, <<99, 100>>} :
       LET n == Len(samples_ns_)
           Covers(v) == p[2] * Cardinality({i \in 1..n : samples_ns_[i] <= v}) >= p[1] * n
       IN n > 0 => Percentile(p) = Min({v \in Range(samples_ns_) : Covers(v)})
=============================================================================
