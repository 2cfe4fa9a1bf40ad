---------------------------- MODULE BridgeImport ----------------------------
(***************************************************************************)
(* The import side of NetworkBridge (src/bridge/network_bridge.cpp):       *)
(* receive_frame, called concurrently by the session threads of a server   *)
(* or by the one I/O thread of a client, its duplicate table and its       *)
(* routes; and what exporting bridges put into frames.                     *)
(*                                                                         *)
(* A step of receive_frame is its reads up to the next mutex, a critical   *)
(* section, or the call of the import handler.  The network is a set: any  *)
(* frame that was sent may be delivered at any time, in any order, to any  *)
(* session, more than once or never.                                       *)
(***************************************************************************)
EXTENDS Integers, Sequences, FiniteSets

CONSTANTS
    Sessions,           \* threads that call receive_frame
    Topics, Types,      \* remote topics; (type_id, schema_hash)
    Publishers,         \* fixed publisher_ids of exporting bridges
    max_dedup_entries,  \* NetworkBridgeOptions
    NoType,
    MaxFrames,          \* bound: data frames sent
    MaxRestarts,        \* bound: restarts of exporting processes
    MaxCalls            \* bound: calls of receive_frame

ASSUME DedupAssumption == max_dedup_entries \in Nat \ {0}
ASSUME BoundsAssumption ==
    MaxFrames \in Nat /\ MaxRestarts \in Nat /\ MaxCalls \in Nat
ASSUME FiniteAssumption == IsFiniteSet(Topics) /\ IsFiniteSet(Publishers)
ASSUME NoTypeAssumption == NoType \notin Types

VARIABLES
    imports,            \* type of each topic's import route, NoType without one
    stopped,
    highest_sequences,  \* the duplicate table
    pc,                 \* of each session: "idle", "route", "reserve", "handle"
    frame,              \* the frame it carries
    stats,
    next_sequence,      \* of each exporting bridge, for all its topics
    restarts,           \* of each exporting process
    clock,              \* steady_clock: send_time_ns of the last frame
    wire,               \* the frames sent so far
    calls,              \* receive_frame calls that got past the stop flag
    handled,            \* history: frames given to an import handler, in order
    refused             \* history: frames refused as duplicates

peerVars == <<next_sequence, restarts, clock, wire>>
vars == <<imports, stopped, highest_sequences, pc, frame, stats, peerVars, calls,
          handled, refused>>

Frames == [topic : Topics, type : Types, publisher : Publishers, sequence : Nat,
           send_time : Nat]
Keys == Topics \X Publishers
Key(f) == <<f.topic, f.publisher>>
NoCall == << >>

\* An absent key is below every sequence number.
Absent == [highest |-> -1, latest_send_time |-> -1]
Present(table) == {k \in Keys : table[k] # Absent}

\* The counters of NetworkBridgeStats that the import side keeps.
Counters == {"imported", "rejected_frames", "unknown_topic", "duplicate_frames",
             "heartbeats_received"}

Init ==
    /\ imports = [p \in Topics |-> NoType]
    /\ stopped = FALSE
    /\ highest_sequences = [k \in Keys |-> Absent]
    /\ pc = [s \in Sessions |-> "idle"]
    /\ frame = [s \in Sessions |-> NoCall]
    /\ stats = [c \in Counters |-> 0]
    /\ next_sequence = [u \in Publishers |-> 0]
    /\ restarts = [u \in Publishers |-> 0]
    /\ clock = 0
    /\ wire = {}
    /\ calls = 0
    /\ handled = << >>
    /\ refused = {}

-----------------------------------------------------------------------------
(* Exporting bridges *)

\* The export callback: one sequence counter for all topics of a bridge.
Export(u) ==
    /\ clock < MaxFrames
    /\ \E p \in Topics, type \in Types :
          wire' = wire \cup {[topic |-> p, type |-> type, publisher |-> u,
                              sequence |-> next_sequence[u], send_time |-> clock + 1]}
    /\ next_sequence' = [next_sequence EXCEPT ![u] = @ + 1]
    /\ clock' = clock + 1
    /\ UNCHANGED <<imports, stopped, highest_sequences, pc, frame, stats, restarts,
                   calls, handled, refused>>

\* The process restarts with the same publisher_id; next_sequence_ is 0 again.
Restart(u) ==
    /\ restarts[u] < MaxRestarts
    /\ restarts' = [restarts EXCEPT ![u] = @ + 1]
    /\ next_sequence' = [next_sequence EXCEPT ![u] = 0]
    /\ UNCHANGED <<imports, stopped, highest_sequences, pc, frame, stats, clock,
                   wire, calls, handled, refused>>

-----------------------------------------------------------------------------
(* Configuration and stop() *)

\* A second route for a topic throws.
AddImport(p, type) ==
    /\ ~stopped
    /\ imports[p] = NoType
    /\ imports' = [imports EXCEPT ![p] = type]

ImportTopic(p) ==
    /\ \E type \in Types : AddImport(p, type)
    /\ UNCHANGED <<stopped, highest_sequences, pc, frame, stats, peerVars, calls,
                   handled, refused>>

\* What receive_frame sees of stop().
Stop ==
    /\ ~stopped
    /\ stopped' = TRUE
    /\ UNCHANGED <<imports, highest_sequences, pc, frame, stats, peerVars, calls,
                   handled, refused>>

-----------------------------------------------------------------------------
(* receive_frame *)

\* Mutant: fetch_sub for fetch_add.
Count_down(counter) == stats' = [stats EXCEPT ![counter] = @ - 1]

Count(counter) == stats' = [stats EXCEPT ![counter] = @ + 1]

Return(s) ==
    /\ pc' = [pc EXCEPT ![s] = "idle"]
    /\ frame' = [frame EXCEPT ![s] = NoCall]

Goto(s, label) == pc' = [pc EXCEPT ![s] = label] /\ UNCHANGED frame

CanReceive(s) == pc[s] = "idle" /\ calls < MaxCalls

\* A frame with flags: a heartbeat, a malformed one, or unknown flags.
ReceiveControl(s) ==
    /\ CanReceive(s) /\ ~stopped
    /\ Count("heartbeats_received") \/ Count("rejected_frames")
    /\ calls' = calls + 1
    /\ UNCHANGED <<imports, stopped, highest_sequences, pc, frame, peerVars, handled,
                   refused>>

ReceiveData(s) ==
    /\ CanReceive(s) /\ ~stopped
    /\ \E f \in wire : frame' = [frame EXCEPT ![s] = f]
    /\ pc' = [pc EXCEPT ![s] = "route"]
    /\ calls' = calls + 1
    /\ UNCHANGED <<imports, stopped, highest_sequences, stats, peerVars, handled,
                   refused>>

\* Mutant: the types of the frame and of the route are not compared.
Route_unchecked(s) ==
    /\ pc[s] = "route"
    /\ \/ /\ imports[frame[s].topic] = NoType
          /\ Count("unknown_topic")
          /\ Return(s)
       \/ /\ imports[frame[s].topic] # NoType
          /\ Goto(s, "reserve")
          /\ UNCHANGED stats
    /\ UNCHANGED <<imports, stopped, highest_sequences, peerVars, calls, handled, refused>>

Route(s) ==
    /\ pc[s] = "route"
    /\ LET type == imports[frame[s].topic] IN
          \/ /\ type = NoType
             /\ Count("unknown_topic")
             /\ Return(s)
          \/ /\ type \notin {NoType, frame[s].type}
             /\ Count("rejected_frames")
             /\ Return(s)
          \/ /\ type = frame[s].type
             /\ Goto(s, "reserve")
             /\ UNCHANGED stats
    /\ UNCHANGED <<imports, stopped, highest_sequences, peerVars, calls, handled, refused>>

\* Mutant: a sequence number equal to the highest passes.
Duplicate_strict(f, e) ==
    /\ f.sequence < e.highest
    /\ ~(f.sequence = 0 /\ f.send_time > e.latest_send_time)

\* Mutant: the next number in order is refused.
Duplicate_off_by_one(f, e) ==
    /\ f.sequence <= e.highest + 1
    /\ ~(f.sequence = 0 /\ f.send_time > e.latest_send_time)

\* Mutant: a restarted publisher is not recognised.
Duplicate_no_epoch(f, e) == f.sequence <= e.highest

\* f against the entry e of its key: not newer, and not the first frame of a
\* restarted publisher.
Duplicate(f, e) ==
    /\ f.sequence <= e.highest
    /\ ~(f.sequence = 0 /\ f.send_time > e.latest_send_time)

\* The table with f's number in it; a table that is full is emptied first.
Reserved(table, f) ==
    LET full == table[Key(f)] = Absent
                  /\ Cardinality(Present(table)) >= max_dedup_entries
        kept == IF full THEN [k \in Keys |-> Absent] ELSE table
    IN  [kept EXCEPT ![Key(f)] = [highest |-> f.sequence,
                                  latest_send_time |-> f.send_time]]

\* The critical section of duplicate_mutex_.
Reserve(s) ==
    /\ pc[s] = "reserve"
    /\ LET f == frame[s] IN
          \/ /\ Duplicate(f, highest_sequences[Key(f)])
             /\ Count("duplicate_frames")
             /\ refused' = refused \cup {f}
             /\ Return(s)
             /\ UNCHANGED highest_sequences
          \/ /\ ~Duplicate(f, highest_sequences[Key(f)])
             /\ highest_sequences' = Reserved(highest_sequences, f)
             /\ Goto(s, "handle")
             /\ UNCHANGED <<stats, refused>>
    /\ UNCHANGED <<imports, stopped, peerVars, calls, handled>>

\* deserialize_frame and publish_remote, which may throw.
ImportHandler == Count("imported") \/ Count("rejected_frames")

\* Whatever the handler does, the reservation is not rolled back.
Handle(s) ==
    /\ pc[s] = "handle"
    /\ handled' = Append(handled, frame[s])
    /\ ImportHandler
    /\ Return(s)
    /\ UNCHANGED <<imports, stopped, highest_sequences, peerVars, calls, refused>>

-----------------------------------------------------------------------------
Done ==
    /\ calls = MaxCalls \/ stopped
    /\ \A s \in Sessions : pc[s] = "idle"
    /\ UNCHANGED vars

Next ==
    \/ \E u \in Publishers : Export(u) \/ Restart(u)
    \/ \E p \in Topics : ImportTopic(p)
    \/ Stop
    \/ \E s \in Sessions :
          ReceiveControl(s) \/ ReceiveData(s) \/ Route(s) \/ Reserve(s) \/ Handle(s)
    \/ Done

Spec == Init /\ [][Next]_vars

-----------------------------------------------------------------------------
TypeOK ==
    /\ imports \in [Topics -> Types \cup {NoType}]
    /\ stopped \in BOOLEAN
    /\ highest_sequences \in [Keys -> [highest : Nat, latest_send_time : Nat] \cup {Absent}]
    /\ pc \in [Sessions -> {"idle", "route", "reserve", "handle"}]
    /\ frame \in [Sessions -> Frames \cup {NoCall}]
    /\ \A s \in Sessions : pc[s] # "idle" => frame[s] \in Frames
    /\ stats \in [Counters -> Nat]
    /\ next_sequence \in [Publishers -> Nat]
    /\ restarts \in [Publishers -> 0..MaxRestarts]
    /\ clock \in Nat
    /\ wire \subseteq Frames
    /\ calls \in Nat
    /\ handled \in Seq(Frames)
    /\ refused \subseteq Frames

\* The publisher of f has not restarted.
FirstRun(f) == restarts[f.publisher] = 0

(***************************************************************************)
(* At-most-once import: no frame reaches an import handler twice, however  *)
(* often and by however many sessions it is delivered, as long as its      *)
(* publisher does not restart (after that a late frame of the previous run *)
(* may come back) and the table has room for every pair of topic and       *)
(* publisher.                                                              *)
(***************************************************************************)
AtMostOnce ==
    \A i, j \in DOMAIN handled :
       FirstRun(handled[i]) /\ handled[i] = handled[j] => i = j

\* The frames whose number has been reserved.
Taken == {handled[i] : i \in DOMAIN handled}
           \cup {frame[s] : s \in {t \in Sessions : pc[t] = "handle"}}

Late(f) == \E g \in Taken : Key(g) = Key(f) /\ g.send_time >= f.send_time

(***************************************************************************)
(* Suppression loses nothing: a frame of a publisher that has not          *)
(* restarted is refused only if it comes late, a frame of the same         *)
(* publisher and topic that was sent no earlier having been taken.  In     *)
(* particular a frame rejected for its type uses up no sequence number.    *)
(***************************************************************************)
OnlyLateFramesRefused == \A f \in refused : FirstRun(f) => Late(f)

(***************************************************************************)
(* A publisher that restarts and counts from 0 again is not taken for the  *)
(* one that was there before: its frame 0 is refused only if it comes      *)
(* late.  (Nothing is said of its later frames when frame 0 was lost.)     *)
(***************************************************************************)
RestartRecognised == \A f \in refused : f.sequence = 0 => Late(f)

(***************************************************************************)
(* A handler is only given frames of the type its route was made for,      *)
(* although the route is looked up long before it is used.                 *)
(***************************************************************************)
HandlerTypes ==
    \A f \in Taken : f.type = imports[f.topic]

(***************************************************************************)
(* PROTOCOL.md:85 promises at-most-once import without a proviso.  It does *)
(* not hold: a full table is emptied, and a frame that was handled before  *)
(* is handled again.                                                       *)
(***************************************************************************)
AtMostOnceAlways == \A i, j \in DOMAIN handled : handled[i] = handled[j] => i = j
=============================================================================
