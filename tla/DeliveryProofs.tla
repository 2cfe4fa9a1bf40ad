--------------------------- MODULE DeliveryProofs ---------------------------
(***************************************************************************)
(* Machine-checked proofs about the two programs that number frames and    *)
(* receive them from a network that repeats, reorders and loses: the       *)
(* import side of a bridge (BridgeImport), for any sessions, topics and    *)
(* publishers and every bound on frames and calls, and the UDP control     *)
(* process with its statistics (UdpControl), for any sensors, latencies    *)
(* and faults.  The two share no state; each part names its own.           *)
(***************************************************************************)
EXTENDS BridgeImport, UdpControl, FiniteSetTheorems, SequenceTheorems,
        WellFoundedInduction, TLAPS

(*********************** Part 1: the import side ***************************)

(***************************************************************************)
(* The type invariant holds in every reachable state: in particular a      *)
(* session that is past the stop flag always carries a frame.              *)
(***************************************************************************)
THEOREM TypeCorrect == Spec => []TypeOK
<1>1. Init => TypeOK
  <2> SUFFICES ASSUME Init PROVE TypeOK
    OBVIOUS
  <2>1. handled \in Seq(Frames)
    BY DEF Init
  <2>2. restarts \in [Publishers -> 0..MaxRestarts]
    BY BoundsAssumption DEF Init
  <2> QED BY <2>1, <2>2 DEF Init, TypeOK, Counters
<1>2. TypeOK /\ [Next]_vars => TypeOK'
  <2> SUFFICES ASSUME TypeOK, [Next]_vars PROVE TypeOK'
    OBVIOUS
  <2>1. CASE UNCHANGED vars
    BY <2>1 DEF vars, peerVars, TypeOK
  <2>2. ASSUME NEW u \in Publishers, Export(u) PROVE TypeOK'
    <3>1. wire' \subseteq Frames
      BY <2>2 DEF Export, TypeOK, Frames
    <3> QED BY <2>2, <3>1 DEF Export, TypeOK
  <2>3. ASSUME NEW u \in Publishers, Restart(u) PROVE TypeOK'
    <3>1. restarts' \in [Publishers -> 0..MaxRestarts]
      BY <2>3, BoundsAssumption DEF Restart, TypeOK
    <3> QED BY <2>3, <3>1 DEF Restart, TypeOK
  <2>4. ASSUME NEW p \in Topics, ImportTopic(p) PROVE TypeOK'
    BY <2>4 DEF ImportTopic, AddImport, TypeOK, peerVars
  <2>5. CASE Stop
    BY <2>5 DEF Stop, TypeOK, peerVars
  <2>6. ASSUME NEW s \in Sessions, ReceiveControl(s) PROVE TypeOK'
    BY <2>6 DEF ReceiveControl, Count, Counters, TypeOK, peerVars
  <2>7. ASSUME NEW s \in Sessions, ReceiveData(s) PROVE TypeOK'
    BY <2>7 DEF ReceiveData, TypeOK, peerVars
  <2>a. ASSUME NEW c \in Counters, Count(c) PROVE stats' \in [Counters -> Nat]
    BY <2>a DEF Count, TypeOK
  <2> DEFINE SessionsTyped ==
               /\ pc \in [Sessions -> {"idle", "route", "reserve", "handle"}]
               /\ frame \in [Sessions -> Frames \cup {NoCall}]
               /\ \A s \in Sessions : pc[s] # "idle" => frame[s] \in Frames
  <2>b. ASSUME NEW s \in Sessions, Return(s) PROVE SessionsTyped'
    BY <2>b DEF Return, TypeOK
  <2>c. ASSUME NEW s \in Sessions, pc[s] # "idle", Goto(s, "reserve") \/ Goto(s, "handle")
        PROVE  SessionsTyped'
    BY <2>c DEF Goto, TypeOK
  <2>d. {"imported", "rejected_frames", "unknown_topic", "duplicate_frames"} \subseteq Counters
    BY DEF Counters
  <2>8. ASSUME NEW s \in Sessions, Route(s) PROVE TypeOK'
    <3>1. stats' \in [Counters -> Nat]
      BY <2>8, <2>a, <2>d DEF Route, TypeOK
    <3>2. SessionsTyped'
      BY <2>8, <2>b, <2>c DEF Route
    <3> HIDE DEF SessionsTyped
    <3>3. UNCHANGED <<imports, stopped, highest_sequences, next_sequence, restarts,
                      clock, wire, calls, handled, refused>>
      BY <2>8 DEF Route, peerVars
    <3> QED BY <3>1, <3>2, <3>3 DEF SessionsTyped, TypeOK
  <2>9. ASSUME NEW s \in Sessions, Reserve(s) PROVE TypeOK'
    <3>1. frame[s] \in Frames
      BY <2>9 DEF Reserve, TypeOK
    <3>2. stats' \in [Counters -> Nat]
      BY <2>9, <2>a, <2>d DEF Reserve, TypeOK
    <3>3. SessionsTyped'
      BY <2>9, <2>b, <2>c DEF Reserve
    <3>4. highest_sequences' \in
             [Keys -> [highest : Nat, latest_send_time : Nat] \cup {Absent}]
      <4>1. [highest |-> frame[s].sequence, latest_send_time |-> frame[s].send_time]
               \in [highest : Nat, latest_send_time : Nat]
        BY <3>1 DEF Frames
      <4>2. Reserved(highest_sequences, frame[s]) \in
             [Keys -> [highest : Nat, latest_send_time : Nat] \cup {Absent}]
        BY <4>1 DEF Reserved, TypeOK
      <4> QED BY <2>9, <4>2 DEF Reserve, TypeOK
    <3>5. refused' \subseteq Frames
      BY <2>9, <3>1 DEF Reserve, TypeOK
    <3> HIDE DEF SessionsTyped
    <3>6. UNCHANGED <<imports, stopped, next_sequence, restarts, clock, wire, calls,
                      handled>>
      BY <2>9 DEF Reserve, peerVars
    <3> QED BY <3>2, <3>3, <3>4, <3>5, <3>6 DEF SessionsTyped, TypeOK
  <2>10. ASSUME NEW s \in Sessions, Handle(s) PROVE TypeOK'
    <3>1. frame[s] \in Frames
      BY <2>10 DEF Handle, TypeOK
    <3>2. handled' \in Seq(Frames)
      BY <2>10, <3>1 DEF Handle, TypeOK
    <3> QED BY <2>10, <3>2 DEF Handle, ImportHandler, Count, Counters, Return, TypeOK, peerVars
  <2> QED
    BY <2>1, <2>2, <2>3, <2>4, <2>5, <2>6, <2>7, <2>8, <2>9, <2>10 DEF Next, Done
<1> QED BY <1>1, <1>2, PTL DEF Spec

-----------------------------------------------------------------------------
(***************************************************************************)
(* The inductive invariants.  SoundInv: while a publisher has not          *)
(* restarted its numbers are unique and ordered like send times; every     *)
(* entry of the table is that of a taken frame.  OnceInv, for a table that *)
(* is never emptied: no taken frame is above the entry of its key.         *)
(* RouteInv: past the look-up, frames fit the route they were checked      *)
(* against.                                                                *)
(***************************************************************************)
Handling == {s \in Sessions : pc[s] = "handle"}

Entry(f) == [highest |-> f.sequence, latest_send_time |-> f.send_time]

WireBelow ==
    \A f \in wire : /\ f.send_time <= clock
                    /\ FirstRun(f) => f.sequence < next_sequence[f.publisher]

WireOrder ==
    \A f, g \in wire : FirstRun(f) /\ f.publisher = g.publisher =>
       /\ f.sequence = g.sequence => f = g
       /\ f.sequence <= g.sequence => f.send_time <= g.send_time

Carried == \A s \in Sessions : pc[s] # "idle" => frame[s] \in wire

TakenSent == Taken \subseteq wire

TableTaken ==
    \A k \in Keys : \/ highest_sequences[k] = Absent
                    \/ \E f \in Taken : Key(f) = k /\ highest_sequences[k] = Entry(f)

TakenBelow ==
    \A f \in Taken : FirstRun(f) => f.sequence <= highest_sequences[Key(f)].highest

HandledOnce ==
    /\ AtMostOnce
    /\ \A s, t \in Handling : FirstRun(frame[s]) /\ frame[s] = frame[t] => s = t
    /\ \A s \in Handling : FirstRun(frame[s]) =>
          \A i \in DOMAIN handled : handled[i] # frame[s]

Routed ==
    \A s \in Sessions :
       pc[s] \in {"reserve", "handle"} => frame[s].type = imports[frame[s].topic]

SoundInv ==
    /\ WireBelow /\ WireOrder /\ Carried /\ TakenSent /\ TableTaken
    /\ OnlyLateFramesRefused /\ RestartRecognised

OnceInv == TakenBelow /\ HandledOnce

RouteInv == Routed /\ HandlerTypes

\* No step of a session that is not handling a frame changes what is taken.
LEMMA TakenUnchanged ==
    ASSUME TypeOK, NEW s \in Sessions, pc[s] # "handle",
           NEW l, l # "handle", NEW x,
           pc' = [pc EXCEPT ![s] = l],
           frame' = [frame EXCEPT ![s] = x], handled' = handled
    PROVE  /\ Taken' = Taken
           /\ Handling' = Handling
           /\ \A t \in Handling : frame'[t] = frame[t]
<1>1. \A t \in Sessions : pc'[t] = "handle" <=> pc[t] = "handle"
  BY DEF TypeOK
<1>2. Handling' = Handling
  BY <1>1 DEF Handling
<1>3. \A t \in Handling : frame'[t] = frame[t]
  BY DEF Handling, TypeOK
<1> QED BY <1>2, <1>3 DEF Taken, Handling

\* Reserving a number adds the session's frame to what is taken.
LEMMA TakenReserved ==
    ASSUME TypeOK, NEW s \in Sessions, pc[s] # "handle",
           pc' = [pc EXCEPT ![s] = "handle"], frame' = frame, handled' = handled
    PROVE  /\ Taken' = Taken \cup {frame[s]}
           /\ Handling' = Handling \cup {s}
<1>1. Handling' = Handling \cup {s}
  BY DEF TypeOK, Handling
<1> QED BY <1>1 DEF Taken, Handling

\* A handled frame stays taken.
LEMMA TakenHandled ==
    ASSUME TypeOK, NEW s \in Sessions, pc[s] = "handle", Return(s),
           handled' = Append(handled, frame[s])
    PROVE  /\ Taken' = Taken
           /\ Handling' = Handling \ {s}
           /\ \A t \in Handling' : frame'[t] = frame[t]
           /\ DOMAIN handled' = DOMAIN handled \cup {Len(handled) + 1}
           /\ handled'[Len(handled) + 1] = frame[s]
           /\ \A i \in DOMAIN handled : handled'[i] = handled[i] /\ i # Len(handled) + 1
<1>1. Handling' = Handling \ {s}
  BY DEF TypeOK, Handling, Return
<1>2. \A t \in Handling' : frame'[t] = frame[t]
  BY <1>1 DEF TypeOK, Handling, Return
<1>3. frame[s] \in Frames
  BY DEF TypeOK
<1>4. /\ DOMAIN handled' = DOMAIN handled \cup {Len(handled) + 1}
      /\ handled'[Len(handled) + 1] = frame[s]
      /\ \A i \in DOMAIN handled : handled'[i] = handled[i] /\ i # Len(handled) + 1
  BY <1>3 DEF TypeOK
<1>5. {handled'[i] : i \in DOMAIN handled'} = {handled[i] : i \in DOMAIN handled} \cup {frame[s]}
  BY <1>4
<1>6. {frame'[t] : t \in Handling'} \cup {frame[s]} = {frame[t] : t \in Handling}
  BY <1>1, <1>2 DEF Handling
<1> QED BY <1>1, <1>2, <1>4, <1>5, <1>6 DEF Taken, Handling

\* A table with room for every key is never cleared.
LEMMA NeverCleared ==
    ASSUME TypeOK, Cardinality(Keys) <= max_dedup_entries, NEW f \in Frames
    PROVE  Reserved(highest_sequences, f)
              = [highest_sequences EXCEPT ![Key(f)] = Entry(f)]
<1>1. Key(f) \in Keys
  BY DEF Key, Keys, Frames
<1>2. IsFiniteSet(Keys) /\ Cardinality(Keys) \in Nat
  BY FiniteAssumption, FS_Product, FS_CardinalityType DEF Keys
<1>3. CASE highest_sequences[Key(f)] = Absent
  <2>1. Present(highest_sequences) \in SUBSET Keys /\ Key(f) \notin Present(highest_sequences)
    BY <1>3 DEF Present
  <2>2. /\ Cardinality(Present(highest_sequences)) <= Cardinality(Keys)
        /\ Cardinality(Present(highest_sequences)) # Cardinality(Keys)
        /\ Cardinality(Present(highest_sequences)) \in Nat
    BY <1>1, <1>2, <2>1, FS_Subset, FS_CardinalityType
  <2>3. ~(Cardinality(Present(highest_sequences)) >= max_dedup_entries)
    BY <1>2, <2>2, DedupAssumption
  <2> QED BY <2>3 DEF Reserved, Entry
<1>4. CASE highest_sequences[Key(f)] # Absent
  BY <1>4 DEF Reserved, Entry
<1> QED BY <1>3, <1>4

-----------------------------------------------------------------------------
\* What is taken stays taken, and only a reservation adds to it.
LEMMA TakenGrows ==
    ASSUME TypeOK, [Next]_vars
    PROVE  \/ Taken' = Taken
           \/ \E s \in Sessions :
                 /\ Reserve(s) /\ ~Duplicate(frame[s], highest_sequences[Key(frame[s])])
                 /\ Taken' = Taken \cup {frame[s]}
<1>1. ASSUME pc' = pc, frame' = frame, handled' = handled PROVE Taken' = Taken
  BY <1>1 DEF Taken
<1>2. CASE \/ UNCHANGED vars \/ Stop \/ Done
           \/ \E u \in Publishers : Export(u) \/ Restart(u)
           \/ \E p \in Topics : ImportTopic(p)
           \/ \E s \in Sessions : ReceiveControl(s)
  BY <1>1, <1>2 DEF vars, Stop, Done, Export, Restart, ImportTopic, ReceiveControl
<1>3. ASSUME NEW s \in Sessions, ReceiveData(s) PROVE Taken' = Taken
  <2>1. PICK f \in wire : frame' = [frame EXCEPT ![s] = f]
    BY <1>3 DEF ReceiveData
  <2> QED BY <1>3, <2>1, TakenUnchanged DEF ReceiveData, CanReceive
<1>4. ASSUME NEW s \in Sessions, pc[s] # "handle", Return(s), handled' = handled
      PROVE  Taken' = Taken
  BY <1>4, TakenUnchanged DEF Return
<1>5. ASSUME NEW s \in Sessions, Route(s) PROVE Taken' = Taken
  <2>1. CASE Return(s)
    BY <1>4, <1>5, <2>1 DEF Route
  <2>2. CASE Goto(s, "reserve")
    <3>1. frame' = [frame EXCEPT ![s] = frame[s]]
      BY <2>2 DEF Goto, TypeOK
    <3> QED BY <1>5, <2>2, <3>1, TakenUnchanged DEF Goto, Route
  <2> QED BY <1>5, <2>1, <2>2 DEF Route
<1>6. ASSUME NEW s \in Sessions, Reserve(s)
      PROVE  \/ Taken' = Taken
             \/ /\ ~Duplicate(frame[s], highest_sequences[Key(frame[s])])
                /\ Taken' = Taken \cup {frame[s]}
  BY <1>4, <1>6, TakenReserved DEF Reserve, Goto
<1>7. ASSUME NEW s \in Sessions, Handle(s) PROVE Taken' = Taken
  BY <1>7, TakenHandled DEF Handle
<1> QED BY <1>2, <1>3, <1>5, <1>6, <1>7 DEF Next

LEMMA CarriedStep ==
    ASSUME TypeOK, Carried, [Next]_vars
    PROVE  Carried'
<1>1. CASE \/ UNCHANGED vars \/ Stop \/ Done
           \/ \E u \in Publishers : Export(u) \/ Restart(u)
           \/ \E p \in Topics : ImportTopic(p)
           \/ \E s \in Sessions : ReceiveControl(s)
  <2>1. pc' = pc /\ frame' = frame /\ wire \subseteq wire'
    BY <1>1 DEF vars, Stop, Done, Export, Restart, ImportTopic, ReceiveControl, peerVars
  <2> QED BY <2>1 DEF Carried
<1>2. ASSUME NEW s \in Sessions, ReceiveData(s) PROVE Carried'
  BY <1>2 DEF ReceiveData, Carried, TypeOK, peerVars
<1>3. ASSUME NEW s \in Sessions, Return(s), wire' = wire PROVE Carried'
  BY <1>3 DEF Return, Carried, TypeOK
<1>4. ASSUME NEW s \in Sessions, pc[s] # "idle", wire' = wire,
             Goto(s, "reserve") \/ Goto(s, "handle")
      PROVE  Carried'
  BY <1>4 DEF Goto, Carried, TypeOK
<1>5. ASSUME NEW s \in Sessions, Route(s) \/ Reserve(s) \/ Handle(s) PROVE Carried'
  BY <1>3, <1>4, <1>5 DEF Route, Reserve, Handle, peerVars
<1> QED BY <1>1, <1>2, <1>5 DEF Next

\* Numbers and send times of what was sent.
LEMMA WireStep ==
    ASSUME TypeOK, WireBelow, WireOrder, [Next]_vars
    PROVE  WireBelow' /\ WireOrder' /\ wire \subseteq wire'
<1>1. ASSUME UNCHANGED <<wire, next_sequence, clock, restarts>>
      PROVE  WireBelow' /\ WireOrder' /\ wire \subseteq wire'
  BY <1>1 DEF WireBelow, WireOrder, FirstRun
<1>2. CASE \/ UNCHANGED vars \/ Stop \/ Done
           \/ \E p \in Topics : ImportTopic(p)
           \/ \E s \in Sessions : \/ ReceiveControl(s) \/ ReceiveData(s) \/ Route(s)
                                  \/ Reserve(s) \/ Handle(s)
  BY <1>1, <1>2 DEF vars, Stop, Done, ImportTopic, ReceiveControl, ReceiveData, Route,
                    Reserve, Handle, peerVars
<1>3. ASSUME NEW u \in Publishers, Export(u)
      PROVE  WireBelow' /\ WireOrder' /\ wire \subseteq wire'
  <2>1. PICK n \in Frames :
           /\ n.publisher = u /\ n.sequence = next_sequence[u] /\ n.send_time = clock + 1
           /\ wire' = wire \cup {n}
    <3>1. PICK p \in Topics, type \in Types :
             wire' = wire \cup {[topic |-> p, type |-> type, publisher |-> u,
                               sequence |-> next_sequence[u], send_time |-> clock + 1]}
      BY <1>3 DEF Export
    <3> DEFINE n == [topic |-> p, type |-> type, publisher |-> u,
                     sequence |-> next_sequence[u], send_time |-> clock + 1]
    <3>2. n \in Frames
      BY DEF TypeOK, Frames
    <3> WITNESS n \in Frames
    <3> QED BY <3>1
  <2>2. /\ next_sequence' = [next_sequence EXCEPT ![u] = @ + 1]
        /\ clock' = clock + 1 /\ restarts' = restarts
    BY <1>3 DEF Export
  <2>3. \A f \in wire : /\ f.sequence \in Nat /\ f.send_time \in Nat /\ f.publisher \in Publishers
                        /\ FirstRun(f) => f.sequence < next_sequence[f.publisher]
                        /\ f.send_time <= clock
    BY DEF TypeOK, Frames, WireBelow
  <2>4. clock \in Nat /\ next_sequence \in [Publishers -> Nat]
    BY DEF TypeOK
  <2>5. WireBelow'
    <3>1. ASSUME NEW f \in wire
          PROVE  (FirstRun(f) => f.sequence < next_sequence'[f.publisher]) /\ f.send_time <= clock'
      BY <2>2, <2>3, <2>4
    <3>2. n.sequence < next_sequence'[n.publisher] /\ n.send_time <= clock'
      BY <2>1, <2>2, <2>4
    <3> QED BY <2>1, <2>2, <3>1, <3>2 DEF WireBelow, FirstRun
  <2>6. WireOrder'
    <3> SUFFICES ASSUME NEW f \in wire', NEW g \in wire', FirstRun(f),
                        f.publisher = g.publisher
                 PROVE  /\ f.sequence = g.sequence => f = g
                        /\ f.sequence <= g.sequence => f.send_time <= g.send_time
      BY <2>2 DEF WireOrder, FirstRun
    <3>1. CASE f \in wire /\ g \in wire
      BY <3>1 DEF WireOrder
    <3>2. CASE f \in wire /\ g = n
      BY <2>1, <2>3, <2>4, <3>2
    <3>3. CASE f = n /\ g \in wire
      BY <2>1, <2>3, <2>4, <3>3 DEF FirstRun
    <3>4. CASE f = n /\ g = n
      BY <2>1, <2>4, <3>4
    <3> QED BY <2>1, <3>1, <3>2, <3>3, <3>4
  <2> QED BY <2>1, <2>5, <2>6
<1>4. ASSUME NEW u \in Publishers, Restart(u)
      PROVE  WireBelow' /\ WireOrder' /\ wire \subseteq wire'
  <2>1. \A f \in Frames : FirstRun(f)' =>
           FirstRun(f) /\ next_sequence'[f.publisher] = next_sequence[f.publisher]
    BY <1>4 DEF Restart, FirstRun, TypeOK, Frames
  <2>2. UNCHANGED <<wire, clock>> /\ wire \subseteq Frames
    BY <1>4 DEF Restart, TypeOK
  <2> QED BY <2>1, <2>2 DEF WireBelow, WireOrder
<1> QED BY <1>2, <1>3, <1>4 DEF Next

\* A publisher's first run is over for good.
LEMMA FirstRunStep ==
    ASSUME TypeOK, [Next]_vars
    PROVE  \A f \in Frames : FirstRun(f)' => FirstRun(f)
<1>1. CASE UNCHANGED restarts
  BY <1>1 DEF FirstRun
<1>2. ASSUME NEW u \in Publishers, Restart(u)
      PROVE  \A f \in Frames : FirstRun(f)' => FirstRun(f)
  BY <1>2 DEF Restart, FirstRun, TypeOK, Frames
<1> QED
  BY <1>1, <1>2 DEF Next, vars, Stop, Done, Export, ImportTopic, ReceiveControl, ReceiveData,
                    Route, Reserve, Handle, peerVars

-----------------------------------------------------------------------------
\* Each step keeps SoundInv, whether or not the table is emptied.
LEMMA SoundStep ==
    ASSUME TypeOK, SoundInv, [Next]_vars
    PROVE  SoundInv'
<1>1. \A f \in Frames : f.sequence \in Nat /\ f.send_time \in Nat /\ Key(f) \in Keys
  BY DEF Frames, Key, Keys
<1>2. Taken \subseteq Frames /\ wire \subseteq Frames /\ refused \subseteq Frames
  BY DEF TypeOK, SoundInv, TakenSent
<1>3. WireBelow' /\ WireOrder' /\ wire \subseteq wire' /\ Carried'
  BY WireStep, CarriedStep DEF SoundInv
<1>4. Taken \subseteq Taken'
  BY TakenGrows
<1>5. TakenSent'
  <2>1. CASE Taken' = Taken
    BY <1>3, <2>1 DEF SoundInv, TakenSent
  <2>2. ASSUME NEW s \in Sessions, Reserve(s), Taken' = Taken \cup {frame[s]} PROVE TakenSent'
    <3>1. frame[s] \in wire
      BY <2>2 DEF Reserve, SoundInv, Carried
    <3> QED BY <1>3, <2>2, <3>1 DEF SoundInv, TakenSent
  <2> QED BY <2>1, <2>2, TakenGrows
<1>6. ASSUME UNCHANGED <<highest_sequences, refused>> PROVE SoundInv'
  <2>1. TableTaken'
    BY <1>4, <1>6 DEF SoundInv, TableTaken
  <2>2. OnlyLateFramesRefused' /\ RestartRecognised'
    BY <1>2, <1>4, <1>6, FirstRunStep DEF SoundInv, OnlyLateFramesRefused, RestartRecognised, Late
  <2> QED BY <1>3, <1>5, <2>1, <2>2 DEF SoundInv
<1>7. CASE \/ UNCHANGED vars \/ Stop \/ Done
           \/ \E u \in Publishers : Export(u) \/ Restart(u)
           \/ \E p \in Topics : ImportTopic(p)
           \/ \E s \in Sessions : ReceiveControl(s) \/ ReceiveData(s) \/ Route(s) \/ Handle(s)
  BY <1>6, <1>7 DEF vars, Stop, Done, Export, Restart, ImportTopic, ReceiveControl, ReceiveData,
                    Route, Handle
<1>8. ASSUME NEW s \in Sessions, Reserve(s) PROVE SoundInv'
  <2> DEFINE f == frame[s]
             e == highest_sequences[Key(f)]
  <2>1. pc[s] = "reserve" /\ UNCHANGED <<wire, restarts>>
    BY <1>8 DEF Reserve, peerVars
  <2>2. f \in wire /\ f \in Frames
    BY <1>2, <2>1 DEF SoundInv, Carried
  <2>3. f.sequence \in Nat /\ f.send_time \in Nat /\ Key(f) \in Keys
    BY <1>1, <2>2
  <2>4. CASE Duplicate(f, e)
    <3>1. refused' = refused \cup {f} /\ highest_sequences' = highest_sequences
      BY <1>8, <2>4 DEF Reserve
    <3>2. e # Absent
      BY <2>3, <2>4 DEF Duplicate, Absent
    <3>3. PICK g \in Taken : Key(g) = Key(f) /\ e = Entry(g)
      BY <2>3, <3>2 DEF SoundInv, TableTaken
    <3>4. /\ f.sequence <= g.sequence /\ g.sequence \in Nat /\ g.send_time \in Nat
          /\ ~(f.sequence = 0 /\ f.send_time > g.send_time)
      BY <1>1, <1>2, <2>4, <3>3 DEF Duplicate, Entry
    <3>5. g \in wire /\ g.publisher = f.publisher
      BY <3>3 DEF SoundInv, TakenSent, Key
    <3>6. FirstRun(f) \/ f.sequence = 0 => g.send_time >= f.send_time
      <4>1. CASE FirstRun(f)
        BY <2>2, <2>3, <3>4, <3>5, <4>1 DEF SoundInv, WireOrder
      <4>2. CASE f.sequence = 0
        BY <2>3, <3>4, <4>2
      <4> QED BY <4>1, <4>2
    <3> HIDE DEF f, e
    <3>0. PICK r \in Frames : r = f
      BY <2>2
    <3>7. FirstRun(r) \/ r.sequence = 0 => Late(r)'
      BY <1>4, <3>0, <3>3, <3>6 DEF Late
    <3>8. OnlyLateFramesRefused' /\ RestartRecognised'
      <4>1. \A h \in refused : FirstRun(h)' \/ h.sequence = 0 => Late(h)'
        BY <1>2, <1>4, FirstRunStep DEF SoundInv, OnlyLateFramesRefused, RestartRecognised, Late
      <4>2. FirstRun(r)' => FirstRun(r)
        BY FirstRunStep
      <4>3. refused' = refused \cup {r}
        BY <3>0, <3>1
      <4> QED BY <3>7, <4>1, <4>2, <4>3 DEF OnlyLateFramesRefused, RestartRecognised
    <3>9. TableTaken'
      BY <1>4, <3>1 DEF SoundInv, TableTaken
    <3> QED BY <1>3, <1>5, <3>8, <3>9 DEF SoundInv
  <2>5. CASE ~Duplicate(f, e)
    <3>1. /\ pc' = [pc EXCEPT ![s] = "handle"] /\ frame' = frame /\ refused' = refused
          /\ handled' = handled /\ highest_sequences' = Reserved(highest_sequences, f)
      BY <1>8, <2>5 DEF Reserve, Goto
    <3>2. f \in Taken'
      BY <2>1, <3>1, TakenReserved
    <3>3. /\ highest_sequences'[Key(f)] = Entry(f)
          /\ \A k \in Keys \ {Key(f)} : highest_sequences'[k] \in {Absent, highest_sequences[k]}
      BY <2>3, <3>1 DEF Reserved, Entry, TypeOK
    <3> HIDE DEF f, e
    <3>4. TableTaken'
      BY <1>4, <3>2, <3>3 DEF SoundInv, TableTaken
    <3>5. OnlyLateFramesRefused' /\ RestartRecognised'
      BY <1>2, <1>4, <3>1, FirstRunStep DEF SoundInv, OnlyLateFramesRefused, RestartRecognised, Late
    <3> QED BY <1>3, <1>5, <3>4, <3>5 DEF SoundInv
  <2> QED BY <2>4, <2>5
<1> QED BY <1>7, <1>8 DEF Next

\* With room for every key in the table, each step keeps OnceInv too.
LEMMA OnceStep ==
    ASSUME Cardinality(Keys) <= max_dedup_entries, TypeOK, SoundInv, OnceInv, [Next]_vars
    PROVE  OnceInv'
<1>1. \A f \in Frames : f.sequence \in Nat /\ f.send_time \in Nat /\ Key(f) \in Keys
  BY DEF Frames, Key, Keys
<1>2. /\ Taken \subseteq Frames
      /\ \A t \in Handling : frame[t] \in Taken
      /\ \A i \in DOMAIN handled : handled[i] \in Taken
  BY DEF TypeOK, SoundInv, TakenSent, Taken, Handling
<1>3. \A f \in Frames : FirstRun(f)' => FirstRun(f)
  BY FirstRunStep
<1>4. ASSUME UNCHANGED highest_sequences, Taken' = Taken PROVE TakenBelow'
  BY <1>2, <1>3, <1>4 DEF OnceInv, TakenBelow
<1>5. ASSUME Handling' = Handling, \A t \in Handling : frame'[t] = frame[t], handled' = handled
      PROVE  HandledOnce'
  BY <1>2, <1>3, <1>5 DEF OnceInv, HandledOnce, AtMostOnce
<1>6. CASE \/ UNCHANGED vars \/ Stop \/ Done
           \/ \E u \in Publishers : Export(u) \/ Restart(u)
           \/ \E p \in Topics : ImportTopic(p)
           \/ \E s \in Sessions : ReceiveControl(s)
  <2>1. UNCHANGED <<pc, frame, handled, highest_sequences>>
    BY <1>6 DEF vars, Stop, Done, Export, Restart, ImportTopic, ReceiveControl
  <2>2. Taken' = Taken /\ Handling' = Handling
    BY <2>1 DEF Taken, Handling
  <2> QED BY <1>4, <1>5, <2>1, <2>2 DEF OnceInv
<1>7. ASSUME NEW s \in Sessions, ReceiveData(s) PROVE OnceInv'
  <2>1. PICK f \in wire : frame' = [frame EXCEPT ![s] = f]
    BY <1>7 DEF ReceiveData
  <2>2. /\ pc[s] = "idle" /\ pc' = [pc EXCEPT ![s] = "route"]
        /\ UNCHANGED <<highest_sequences, handled>>
    BY <1>7 DEF ReceiveData, CanReceive
  <2>3. Taken' = Taken /\ Handling' = Handling /\ \A t \in Handling : frame'[t] = frame[t]
    BY <2>1, <2>2, TakenUnchanged
  <2> QED BY <1>4, <1>5, <2>2, <2>3 DEF OnceInv
\* A session that gives its frame up, by Route or Reserve.
<1>8. ASSUME NEW s \in Sessions, pc[s] # "handle", Return(s), UNCHANGED <<handled, highest_sequences>>
      PROVE  OnceInv'
  <2>1. Taken' = Taken /\ Handling' = Handling /\ \A t \in Handling : frame'[t] = frame[t]
    BY <1>8, TakenUnchanged DEF Return
  <2> QED BY <1>4, <1>5, <1>8, <2>1 DEF OnceInv
<1>9. ASSUME NEW s \in Sessions, Route(s) PROVE OnceInv'
  <2>1. pc[s] = "route" /\ UNCHANGED <<highest_sequences, handled>>
    BY <1>9 DEF Route
  <2>2. CASE Return(s)
    BY <1>8, <2>1, <2>2
  <2>3. CASE Goto(s, "reserve")
    <3>1. frame' = [frame EXCEPT ![s] = frame[s]]
      BY <2>3 DEF Goto, TypeOK
    <3>2. Taken' = Taken /\ Handling' = Handling /\ \A t \in Handling : frame'[t] = frame[t]
      BY <2>1, <2>3, <3>1, TakenUnchanged DEF Goto
    <3> QED BY <1>4, <1>5, <2>1, <3>2 DEF OnceInv
  <2> QED BY <1>9, <2>2, <2>3 DEF Route
<1>10. ASSUME NEW s \in Sessions, Reserve(s) PROVE OnceInv'
  <2> DEFINE f == frame[s]
             e == highest_sequences[Key(f)]
  <2>1. pc[s] = "reserve" /\ UNCHANGED <<handled, restarts>>
    BY <1>10 DEF Reserve, peerVars
  <2>2. f \in wire /\ f \in Frames
    BY <2>1 DEF SoundInv, Carried, TypeOK
  <2>3. f.sequence \in Nat /\ f.send_time \in Nat /\ Key(f) \in Keys
    BY <1>1, <2>2
  <2>4. \/ e = Absent
        \/ \E g \in Taken : Key(g) = Key(f) /\ e = Entry(g)
    BY <2>3 DEF SoundInv, TableTaken
  <2>5. ASSUME NEW g \in Taken, Key(g) = Key(f), FirstRun(f), f.sequence <= g.sequence
        PROVE  f.send_time <= g.send_time
    <3>1. g \in wire /\ g.publisher = f.publisher
      BY <2>5 DEF SoundInv, TakenSent, Key
    <3> QED BY <2>2, <2>5, <3>1 DEF SoundInv, WireOrder
  <2>6. CASE Duplicate(f, e)
    BY <1>8, <1>10, <2>1, <2>6 DEF Reserve
  <2>7. CASE ~Duplicate(f, e)
    <3>1. /\ pc' = [pc EXCEPT ![s] = "handle"] /\ frame' = frame
          /\ highest_sequences' = [highest_sequences EXCEPT ![Key(f)] = Entry(f)]
      BY <1>10, <2>2, <2>7, NeverCleared DEF Reserve, Goto
    <3>2. Taken' = Taken \cup {f} /\ Handling' = Handling \cup {s}
      BY <2>1, <3>1, TakenReserved
    \* Without restarts the frame is really new.
    <3>3. ASSUME FirstRun(f) PROVE e.highest < f.sequence
      <4>1. CASE e = Absent
        BY <2>3, <4>1 DEF Absent
      <4>2. ASSUME NEW g \in Taken, Key(g) = Key(f), e = Entry(g) PROVE e.highest < f.sequence
        <5>1. g.sequence \in Nat /\ g.send_time \in Nat
          BY <1>1, <1>2
        <5>2. e.highest = g.sequence /\ e.latest_send_time = g.send_time
          BY <4>2 DEF Entry
        <5> HIDE DEF f, e
        <5> QED BY <2>3, <2>5, <2>7, <3>3, <4>2, <5>1, <5>2 DEF Duplicate
      <4> QED BY <2>4, <4>1, <4>2
    <3>4. e.highest \in Int
      <4>1. ASSUME NEW h \in Taken, e = Entry(h) PROVE e.highest \in Int
        BY <1>1, <1>2, <4>1 DEF Entry
      <4>2. CASE e = Absent
        BY <4>2 DEF Absent
      <4> QED BY <2>4, <4>1, <4>2
    <3>5. ASSUME FirstRun(f) PROVE \A g \in Taken : g # f
      BY <2>3, <3>3, <3>4, <3>5 DEF OnceInv, TakenBelow
    <3>6. HandledOnce'
      BY <1>2, <2>1, <3>1, <3>2, <3>5 DEF OnceInv, HandledOnce, AtMostOnce, FirstRun
    <3>7. /\ highest_sequences'[Key(f)] = Entry(f)
          /\ \A k \in Keys : k # Key(f) => highest_sequences'[k] = highest_sequences[k]
      BY <2>3, <3>1 DEF TypeOK
    <3>8. TakenBelow'
      <4> SUFFICES ASSUME NEW g \in Taken', FirstRun(g)
                   PROVE  g.sequence <= highest_sequences'[Key(g)].highest
        BY <2>1 DEF TakenBelow, FirstRun
      <4>0. g \in Frames /\ Entry(f).highest = f.sequence
        BY <1>2, <2>2, <3>2 DEF Entry
      <4>1. CASE g = f
        BY <2>3, <3>7, <4>0, <4>1
      <4>2. CASE g \in Taken /\ Key(g) # Key(f)
        BY <1>1, <3>7, <4>0, <4>2 DEF OnceInv, TakenBelow
      <4>3. CASE g \in Taken /\ Key(g) = Key(f)
        <5>1. g.sequence <= e.highest /\ g.sequence \in Nat
          BY <1>1, <4>0, <4>3 DEF OnceInv, TakenBelow
        <5>2. FirstRun(f)
          BY <4>3 DEF Key, FirstRun
        <5>3. g.sequence <= f.sequence
          BY <2>3, <3>3, <3>4, <5>1, <5>2
        <5> QED BY <3>7, <4>0, <4>3, <5>3
      <4> QED BY <3>2, <4>1, <4>2, <4>3
    <3> QED BY <3>6, <3>8 DEF OnceInv
  <2> QED BY <2>6, <2>7
<1>11. ASSUME NEW s \in Sessions, Handle(s) PROVE OnceInv'
  <2>1. /\ pc[s] = "handle" /\ Return(s) /\ handled' = Append(handled, frame[s])
        /\ UNCHANGED <<restarts, highest_sequences>>
    BY <1>11 DEF Handle, peerVars
  <2>2. /\ Taken' = Taken
        /\ Handling' = Handling \ {s}
        /\ \A t \in Handling' : frame'[t] = frame[t]
        /\ DOMAIN handled' = DOMAIN handled \cup {Len(handled) + 1}
        /\ handled'[Len(handled) + 1] = frame[s]
        /\ \A i \in DOMAIN handled : handled'[i] = handled[i] /\ i # Len(handled) + 1
    BY <2>1, TakenHandled
  <2>3. s \in Handling
    BY <2>1 DEF Handling
  <2>4. AtMostOnce'
    BY <2>1, <2>2, <2>3 DEF OnceInv, HandledOnce, AtMostOnce, FirstRun
  <2>5. \A t, r \in Handling' : FirstRun(frame[t]) /\ frame'[t] = frame'[r] => t = r
    BY <2>2 DEF OnceInv, HandledOnce
  <2>6. \A t \in Handling' : FirstRun(frame[t]) =>
           \A i \in DOMAIN handled' : handled'[i] # frame'[t]
    BY <2>2, <2>3 DEF OnceInv, HandledOnce
  <2>7. HandledOnce'
    BY <2>1, <2>2, <2>4, <2>5, <2>6 DEF HandledOnce, FirstRun
  <2> QED BY <1>4, <2>1, <2>2, <2>7 DEF OnceInv
<1> QED BY <1>6, <1>7, <1>9, <1>10, <1>11 DEF Next

\* A route never changes, so a frame checked against it fits it for good.
LEMMA RouteStep ==
    ASSUME TypeOK, RouteInv, [Next]_vars
    PROVE  RouteInv'
<1>1. \A s \in Sessions : pc[s] # "idle" => /\ frame[s] \in Frames
                                            /\ frame[s].topic \in Topics /\ frame[s].type \in Types
  BY DEF TypeOK, Frames
<1>2. \A p \in Topics : imports[p] # NoType => imports'[p] = imports[p]
  <2>1. CASE UNCHANGED imports
    BY <2>1
  <2>2. ASSUME NEW p \in Topics, ImportTopic(p)
        PROVE  \A q \in Topics : imports[q] # NoType => imports'[q] = imports[q]
    BY <2>2 DEF ImportTopic, AddImport, TypeOK
  <2> QED BY <2>1, <2>2 DEF Next, vars, Stop, Done, Export, Restart, ReceiveControl, ReceiveData,
                            Route, Reserve, Handle
<1>3. ASSUME NEW f \in Frames, f.type = imports[f.topic] PROVE f.type = imports'[f.topic]
  <2>1. f.topic \in Topics /\ f.type \in Types
    BY DEF Frames
  <2> QED BY <1>2, <1>3, <2>1, NoTypeAssumption
<1>4. Routed'
  <2>1. ASSUME \A s \in Sessions : pc'[s] \in {"reserve", "handle"} =>
                  /\ frame'[s] = frame[s] /\ frame[s] \in Frames
                  /\ frame[s].type = imports[frame[s].topic]
        PROVE  Routed'
    BY <1>3, <2>1 DEF Routed
  <2>2. CASE \/ UNCHANGED vars \/ Stop \/ Done
             \/ \E u \in Publishers : Export(u) \/ Restart(u)
             \/ \E p \in Topics : ImportTopic(p)
             \/ \E s \in Sessions : ReceiveControl(s)
    <3>1. pc' = pc /\ frame' = frame
      BY <2>2 DEF vars, Stop, Done, Export, Restart, ImportTopic, ReceiveControl
    <3> QED BY <1>1, <2>1, <3>1 DEF RouteInv, Routed
  <2>3. ASSUME NEW s \in Sessions, NEW l, l \notin {"reserve", "handle"}, NEW x,
               pc' = [pc EXCEPT ![s] = l], frame' = [frame EXCEPT ![s] = x]
        PROVE  Routed'
    <3>1. \A t \in Sessions : pc'[t] \in {"reserve", "handle"} =>
             t # s /\ pc[t] = pc'[t] /\ frame'[t] = frame[t]
      BY <2>3 DEF TypeOK
    <3> QED BY <1>1, <2>1, <3>1 DEF RouteInv, Routed
  <2>4. ASSUME NEW s \in Sessions, Return(s) PROVE Routed'
    BY <2>3, <2>4 DEF Return
  <2>5. ASSUME NEW s \in Sessions, NEW l, pc' = [pc EXCEPT ![s] = l], frame' = frame,
               pc[s] # "idle", frame[s].type = imports[frame[s].topic]
        PROVE  Routed'
    <3>1. \A t \in Sessions : t # s => pc'[t] = pc[t]
      BY <2>5 DEF TypeOK
    <3> QED BY <1>1, <2>1, <2>5, <3>1 DEF RouteInv, Routed
  <2>6. ASSUME NEW s \in Sessions, ReceiveData(s) PROVE Routed'
    <3>1. PICK f \in wire : frame' = [frame EXCEPT ![s] = f]
      BY <2>6 DEF ReceiveData
    <3> QED BY <2>3, <2>6, <3>1 DEF ReceiveData
  <2>7. ASSUME NEW s \in Sessions, Route(s) PROVE Routed'
    BY <2>4, <2>5, <2>7 DEF Route, Goto
  <2>8. ASSUME NEW s \in Sessions, Reserve(s) PROVE Routed'
    BY <2>4, <2>5, <2>8 DEF Reserve, Goto, RouteInv, Routed
  <2>9. ASSUME NEW s \in Sessions, Handle(s) PROVE Routed'
    BY <2>4, <2>9 DEF Handle
  <2> QED BY <2>2, <2>6, <2>7, <2>8, <2>9 DEF Next
<1>5. HandlerTypes'
  <2>1. Taken \subseteq Frames /\ \A f \in Taken : f.type = imports'[f.topic]
    <3>1. Taken \subseteq Frames
      BY <1>1 DEF Taken, TypeOK
    <3> QED BY <1>3, <3>1 DEF RouteInv, HandlerTypes
  <2>2. ASSUME NEW s \in Sessions, Reserve(s), Taken' = Taken \cup {frame[s]}
        PROVE  HandlerTypes'
    <3>1. frame[s] \in Frames /\ frame[s].type = imports[frame[s].topic]
      BY <1>1, <2>2 DEF Reserve, RouteInv, Routed
    <3> QED BY <1>3, <2>1, <2>2, <3>1 DEF HandlerTypes
  <2> QED BY <2>1, <2>2, TakenGrows DEF HandlerTypes
<1> QED BY <1>4, <1>5 DEF RouteInv

-----------------------------------------------------------------------------
LEMMA ImportInit == Init => SoundInv /\ OnceInv /\ RouteInv
<1> SUFFICES ASSUME Init PROVE SoundInv /\ OnceInv /\ RouteInv
  OBVIOUS
<1>1. Taken = {} /\ Handling = {}
  BY DEF Init, Taken, Handling
<1>2. SoundInv
  BY <1>1 DEF Init, SoundInv, WireBelow, WireOrder, Carried, TakenSent, TableTaken,
              OnlyLateFramesRefused, RestartRecognised
<1>3. OnceInv
  BY <1>1 DEF Init, OnceInv, TakenBelow, HandledOnce, AtMostOnce
<1>4. RouteInv
  BY <1>1 DEF Init, RouteInv, Routed, HandlerTypes
<1> QED BY <1>2, <1>3, <1>4

LEMMA SoundAlways == Spec => []SoundInv
<1>1. TypeOK /\ SoundInv /\ [Next]_vars => SoundInv'
  BY SoundStep
<1> QED BY <1>1, ImportInit, TypeCorrect, PTL DEF Spec

(***************************************************************************)
(* At-most-once import holds for any number of concurrent sessions, any    *)
(* delivery of the frames and any restarts of other publishers, provided   *)
(* that the duplicate table has room for every pair of topic and           *)
(* publisher.  The proviso is needed: run ImportTableCleared.              *)
(***************************************************************************)
THEOREM AtMostOnceImport ==
    ASSUME Cardinality(Keys) <= max_dedup_entries
    PROVE  Spec => []AtMostOnce
<1>1. TypeOK /\ SoundInv /\ OnceInv /\ [Next]_vars => OnceInv'
  BY OnceStep
<1>2. OnceInv => AtMostOnce
  BY DEF OnceInv, HandledOnce
<1> QED BY <1>1, <1>2, ImportInit, TypeCorrect, SoundAlways, PTL DEF Spec

(***************************************************************************)
(* Duplicate suppression loses nothing, even when the table is emptied: a  *)
(* frame of a publisher that has not restarted is refused only when one    *)
(* sent no earlier, on the same topic by the same publisher, was taken.    *)
(***************************************************************************)
THEOREM RefusalsAreLate == Spec => []OnlyLateFramesRefused
<1>1. SoundInv => OnlyLateFramesRefused
  BY DEF SoundInv
<1> QED BY <1>1, SoundAlways, PTL

(***************************************************************************)
(* Frame 0 of a publisher, which it sends when it starts or restarts, is   *)
(* refused only when a frame sent no earlier was taken, for any number of  *)
(* restarts, any capacity of the table and any delivery.                   *)
(***************************************************************************)
THEOREM RestartsHeard == Spec => []RestartRecognised
<1>1. SoundInv => RestartRecognised
  BY DEF SoundInv
<1> QED BY <1>1, SoundAlways, PTL

(***************************************************************************)
(* A handler is only given frames of the type its route was made for: what *)
(* receive_frame read of the route before it gave up the mutex still holds *)
(* when the handler runs.                                                  *)
(***************************************************************************)
THEOREM HandlersTyped == Spec => []HandlerTypes
<1>1. TypeOK /\ RouteInv /\ [Next]_vars => RouteInv'
  BY RouteStep
<1>2. RouteInv => HandlerTypes
  BY DEF RouteInv
<1> QED BY <1>1, <1>2, ImportInit, TypeCorrect, PTL DEF Spec

-----------------------------------------------------------------------------
(********************* Part 2: the control process *************************)

UdpFrames == [publisher : Sensors, sequence : Nat, type : {"imu", "other"}, flags : {0, 1},
              topic : Nat, payload : Nat]
UdpCells == [frame : UdpFrames, at : Nat]
Datagrams == [bytes : Seq(UdpCells), copy : {1, 2}]

UdpTypes ==
    /\ next \in [Sensors -> Nat] /\ \A u \in Sensors : next[u] <= count[u]
    /\ network \subseteq Datagrams
    /\ observed \in Seq(UdpFrames) /\ \A i \in 1..Len(observed) : observed[i].type = "imu"
    /\ samples_ns_ \in Seq(Nat)

\* All cells of a datagram were written for one frame.
OneFrame ==
    \A d \in network : /\ d.bytes # << >>
                       /\ \A i \in 1..Len(d.bytes) : d.bytes[i].frame = d.bytes[1].frame

\* The frames of the sensors' type that are in flight or were counted.
Known ==
    {f \in {d.bytes[1].frame : d \in network} \cup Range(observed) : f.type = "imu"}

\* A sensor sent f, or a change of a header made it.
Sent(f) ==
    /\ f.sequence < next[f.publisher]
    /\ \E body \in bodies : f = make_frame(f.publisher, f.sequence, "imu", body)
KnownSent == \A f \in Known : Sent(f) \/ f \in altered

\* The places in s of frames that come, for the first time, after a higher one.
Overtaken(s) ==
    {i \in 1..Len(s) : /\ \A j \in 1..i - 1 : s[j].sequence # s[i].sequence
                       /\ \E j \in 1..i - 1 : s[j].sequence > s[i].sequence}

\* What the tracker knows of the frames counted.
Tracked ==
    /\ seen_ \subseteq Nat /\ IsFiniteSet(seen_)
    /\ seen_ = {observed[i].sequence : i \in 1..Len(observed)}
    /\ has_highest_ \in BOOLEAN /\ (has_highest_ <=> seen_ # {})
    /\ highest_ \in Nat
    /\ has_highest_ => highest_ \in seen_ /\ \A n \in seen_ : n <= highest_
    /\ Len(observed) = duplicates_ + Cardinality(seen_)
    /\ duplicates_ \in Nat
    /\ out_of_order_ = Cardinality(Overtaken(observed))

From(u) == \A i \in 1..Len(observed) : observed[i].publisher = u

\* A sequence that std::sort can arrange.
Sortable(s) ==
    \E p \in Bijection(DOMAIN s, DOMAIN s) :
       \A i, j \in DOMAIN s : i < j => s[p[i]] <= s[p[j]]

ReportInv == UdpTypes /\ OneFrame /\ KnownSent /\ Tracked

-----------------------------------------------------------------------------
(* What travels. *)

\* What make_frame gives.
LEMMA FrameMade ==
    ASSUME NEW u \in Sensors, NEW n \in Nat, NEW type \in {"imu", "other"}, NEW body \in bodies
    PROVE  LET f == make_frame(u, n, type, body)
           IN f \in UdpFrames /\ f.publisher = u /\ f.sequence = n /\ f.type = type
BY BodiesAssumption DEF make_frame, UdpFrames

\* It is encoded in cells of its own, of which there are at least two.
LEMMA FrameEncoded ==
    ASSUME NEW f \in UdpFrames
    PROVE  /\ size(f) \in Nat \ {0, 1}
           /\ encode_frame(f) \in Seq(UdpCells)
           /\ Len(encode_frame(f)) = size(f)
           /\ \A i \in 1..size(f) : encode_frame(f)[i].frame = f
<1>1. size(f) \in Nat \ {0, 1}
  BY DEF size, HeaderSize, UdpFrames
<1>2. \A i \in 1..size(f) : [frame |-> f, at |-> i] \in UdpCells
  BY <1>1 DEF UdpCells
<1>3. encode_frame(f) \in Seq(UdpCells) /\ Len(encode_frame(f)) = size(f)
      /\ \A i \in 1..size(f) : encode_frame(f)[i].frame = f
  BY <1>1, <1>2 DEF encode_frame
<1> QED BY <1>1, <1>3

\* decode_frame gives back the frame that the cells were written for.
LEMMA FrameDecoded ==
    ASSUME NEW d \in Datagrams, NEW f, f = receive_frame(d.bytes), f # NoFrame,
           \A i \in 1..Len(d.bytes) : d.bytes[i].frame = d.bytes[1].frame
    PROVE  f = d.bytes[1].frame /\ f \in UdpFrames
<1>1. d.bytes \in Seq(UdpCells) /\ Len(d.bytes) \in Nat
  BY DEF Datagrams
<1>2. Len(d.bytes) >= HeaderSize
      /\ f = [d.bytes[2].frame EXCEPT !.flags = d.bytes[1].frame.flags]
  BY DEF receive_frame, decode_frame
<1>3. 1 \in 1..Len(d.bytes) /\ 2 \in 1..Len(d.bytes)
  BY <1>1, <1>2 DEF HeaderSize
<1>4. d.bytes[2].frame = d.bytes[1].frame /\ d.bytes[1].frame \in UdpFrames
  <2>1. d.bytes[1] \in UdpCells
    BY <1>1, <1>3
  <2> QED BY <1>3, <2>1 DEF UdpCells
<1>5. f = [d.bytes[1].frame EXCEPT !.flags = d.bytes[1].frame.flags]
  BY <1>2, <1>4
<1> QED BY <1>4, <1>5 DEF UdpFrames

\* The steps, by what they do to the datagrams in flight.
Sends(u, body) ==
    LET f == make_frame(u, next[u], "imu", body)
    IN /\ next[u] < count[u]
       /\ network' = network \cup {[bytes |-> encode_frame(f), copy |-> 1]}
       /\ next' = [next EXCEPT ![u] = @ + 1]
       /\ UNCHANGED <<observed, altered>>

\* Every datagram in flight carries a frame that was in flight, a foreign one, or
\* one that a change of a header made.
Forwards ==
    /\ next' \in [Sensors -> Nat] /\ \A u \in Sensors : next[u] <= next'[u] /\ next'[u] <= count[u]
    /\ network' \subseteq Datagrams /\ OneFrame' /\ altered \subseteq altered'
    /\ \A d \in network' : \/ d.bytes[1].frame.type = "other"
                           \/ d.bytes[1].frame \in altered'
                           \/ \E c \in network : d.bytes[1].frame = c.bytes[1].frame

\* The cells of a datagram whose header was changed are those of another frame.
LEMMA HeaderRewritten ==
    ASSUME NEW d \in Datagrams, d.bytes # << >>, d.bytes[1].frame \in UdpFrames,
           NEW f \in Altered(d.bytes[1].frame)
    PROVE  LET c == [bytes |-> Rewritten(d.bytes, f), copy |-> d.copy]
           IN /\ c \in Datagrams /\ c.bytes # << >> /\ c.bytes[1].frame = f
              /\ \A i \in 1..Len(c.bytes) : c.bytes[i].frame = f
<1>1. d.bytes \in Seq(UdpCells) /\ Len(d.bytes) \in Nat \ {0} /\ d.copy \in {1, 2}
  BY DEF Datagrams
<1>2. f \in UdpFrames
  BY LatenciesAssumption DEF Altered, UdpFrames
<1> DEFINE b == Rewritten(d.bytes, f)
<1>3. \A i \in 1..Len(d.bytes) : [frame |-> f, at |-> d.bytes[i].at] \in UdpCells
  <2> SUFFICES ASSUME NEW i \in 1..Len(d.bytes)
               PROVE  [frame |-> f, at |-> d.bytes[i].at] \in UdpCells
    OBVIOUS
  <2>1. d.bytes[i] \in UdpCells
    BY <1>1
  <2> QED BY <1>2, <2>1 DEF UdpCells
<1>4. /\ b \in Seq(UdpCells) /\ Len(b) = Len(d.bytes)
      /\ \A i \in 1..Len(d.bytes) : b[i].frame = f
  BY <1>1, <1>3 DEF Rewritten
<1> HIDE DEF b
<1>5. b # << >> /\ b[1].frame = f /\ \A i \in 1..Len(b) : b[i].frame = f
  BY <1>1, <1>4
<1> QED BY <1>1, <1>4, <1>5 DEF Datagrams, b

\* A step after which the network holds, of what it did not hold, at most c.
LEMMA OneMore ==
    ASSUME ReportInv, next' = next, altered \subseteq altered',
           NEW c \in Datagrams, c.bytes # << >>,
           \A i \in 1..Len(c.bytes) : c.bytes[i].frame = c.bytes[1].frame,
           \/ c.bytes[1].frame.type = "other"
           \/ c.bytes[1].frame \in altered'
           \/ \E d \in network : c.bytes[1].frame = d.bytes[1].frame,
           network' \subseteq network \cup {c}
    PROVE  Forwards
<1>1. next' \in [Sensors -> Nat] /\ \A u \in Sensors : next[u] <= next'[u] /\ next'[u] <= count[u]
  BY CountsAssumption DEF ReportInv, UdpTypes
<1>2. \A d \in network' : d \in network \/ d = c
  OBVIOUS
<1>3. network' \subseteq Datagrams
  BY <1>2 DEF ReportInv, UdpTypes
<1>4. OneFrame'
  BY <1>2 DEF ReportInv, OneFrame
<1>5. \A d \in network' : \/ d.bytes[1].frame.type = "other"
                         \/ d.bytes[1].frame \in altered'
                         \/ \E b \in network : d.bytes[1].frame = b.bytes[1].frame
  BY <1>2
<1> QED BY <1>1, <1>3, <1>4, <1>5 DEF Forwards

\* A datagram repeated or changed still carries its frame, or one that is noted.
LEMMA FaultForwards ==
    ASSUME ReportInv, NetworkFault
    PROVE  Forwards
<1>1. PICK d \in network :
         \/ network' = network \cup {[d EXCEPT !.copy = 2]} /\ UNCHANGED altered
         \/ /\ \E i \in 1..Len(d.bytes) :
                  network' = (network \ {d}) \cup {[d EXCEPT !.bytes[i].at = 0]}
            /\ UNCHANGED altered
         \/ \E f \in Altered(d.bytes[1].frame) :
               /\ network' = (network \ {d}) \cup {[bytes |-> Rewritten(d.bytes, f), copy |-> d.copy]}
               /\ altered' = altered \cup {f}
  BY DEF NetworkFault
<1>2. UNCHANGED next
  BY DEF NetworkFault
<1>3. d \in Datagrams /\ d.bytes # << >> /\ \A i \in 1..Len(d.bytes) : d.bytes[i].frame = d.bytes[1].frame
  BY DEF ReportInv, UdpTypes, OneFrame
<1>4. CASE network' = network \cup {[d EXCEPT !.copy = 2]} /\ UNCHANGED altered
  <2>1. [d EXCEPT !.copy = 2] \in Datagrams /\ [d EXCEPT !.copy = 2].bytes = d.bytes
    BY <1>3 DEF Datagrams
  <2> DEFINE c == [d EXCEPT !.copy = 2]
  <2> HIDE DEF c
  <2>2. /\ network' = network \cup {c} /\ c \in Datagrams /\ c.bytes # << >>
        /\ \A i \in 1..Len(c.bytes) : c.bytes[i].frame = c.bytes[1].frame
        /\ c.bytes[1].frame = d.bytes[1].frame
    BY <1>3, <1>4, <2>1 DEF c
  <2>3. network' \subseteq network \cup {c} /\ altered \subseteq altered'
    BY <1>4, <2>2
  <2> QED BY <1>2, <2>2, <2>3, OneMore
<1>5. ASSUME NEW i \in 1..Len(d.bytes), UNCHANGED altered,
             network' = (network \ {d}) \cup {[d EXCEPT !.bytes[i].at = 0]}
      PROVE  Forwards
  <2> DEFINE b == [d.bytes EXCEPT ![i].at = 0]
             c == [d EXCEPT !.bytes[i].at = 0]
  <2>1. c = [d EXCEPT !.bytes = b]
    BY <1>3 DEF Datagrams
  <2>2. d.bytes \in Seq(UdpCells) /\ Len(d.bytes) \in Nat /\ i \in 1..Len(d.bytes)
    BY <1>3 DEF Datagrams
  <2>3. /\ b \in Seq(UdpCells) /\ Len(b) = Len(d.bytes)
        /\ \A k \in 1..Len(b) : b[k].frame = d.bytes[k].frame
    <3>1. d.bytes[i] \in UdpCells
      BY <2>2
    <3>2. [d.bytes[i] EXCEPT !.at = 0] \in UdpCells
          /\ [d.bytes[i] EXCEPT !.at = 0].frame = d.bytes[i].frame
      BY <3>1 DEF UdpCells
    <3>3. b \in Seq(UdpCells) /\ Len(b) = Len(d.bytes)
          /\ \A k \in 1..Len(b) : b[k] = IF k = i THEN [d.bytes[i] EXCEPT !.at = 0] ELSE d.bytes[k]
      BY <2>2, <3>2
    <3> QED BY <3>2, <3>3
  <2> HIDE DEF b
  <2>4. c \in Datagrams /\ c.bytes = b
    BY <1>3, <2>1, <2>3 DEF Datagrams
  <2> HIDE DEF c
  <2>5. c.bytes # << >> /\ c.bytes[1].frame = d.bytes[1].frame
        /\ \A k \in 1..Len(c.bytes) : c.bytes[k].frame = c.bytes[1].frame
    BY <1>3, <2>2, <2>3, <2>4
  <2>6. network' = (network \ {d}) \cup {c}
    BY <1>5 DEF c
  <2>7. network' \subseteq network \cup {c} /\ altered \subseteq altered'
    BY <1>5, <2>6
  <2> QED BY <1>2, <2>4, <2>5, <2>7, OneMore
<1>6. ASSUME NEW f \in Altered(d.bytes[1].frame), altered' = altered \cup {f},
             network' = (network \ {d}) \cup {[bytes |-> Rewritten(d.bytes, f), copy |-> d.copy]}
      PROVE  Forwards
  <2> DEFINE c == [bytes |-> Rewritten(d.bytes, f), copy |-> d.copy]
  <2>1. d.bytes[1].frame \in UdpFrames
    <3>1. d.bytes \in Seq(UdpCells) /\ Len(d.bytes) \in Nat \ {0}
      BY <1>3 DEF Datagrams
    <3>2. d.bytes[1] \in UdpCells
      BY <3>1
    <3> QED BY <3>2 DEF UdpCells
  <2>2. /\ c \in Datagrams /\ c.bytes # << >> /\ c.bytes[1].frame = f
        /\ \A i \in 1..Len(c.bytes) : c.bytes[i].frame = f
    BY <1>3, <2>1, HeaderRewritten
  <2>3. network' = (network \ {d}) \cup {c}
    BY <1>6
  <2> HIDE DEF c
  <2>4. network' \subseteq network \cup {c} /\ altered \subseteq altered' /\ f \in altered'
    BY <1>6, <2>3
  <2> QED BY <1>2, <2>2, <2>4, OneMore
<1> QED BY <1>1, <1>4, <1>5, <1>6

\* A datagram of another program, whole or cut short, carries a foreign frame.
LEMMA StrangerForwards ==
    ASSUME ReportInv, Stranger
    PROVE  Forwards
<1>1. PICK u \in Sensors, body \in bodies :
         \E n \in {1, Len(encode_frame(make_frame(u, 0, "other", body))) - 1,
                   Len(encode_frame(make_frame(u, 0, "other", body)))} :
            network' = network \cup
               {[bytes |-> SubSeq(encode_frame(make_frame(u, 0, "other", body)), 1, n), copy |-> 1]}
  BY DEF Stranger
<1> DEFINE f == make_frame(u, 0, "other", body)
           e == encode_frame(f)
<1>2. PICK n \in {1, Len(e) - 1, Len(e)} : network' = network \cup {[bytes |-> SubSeq(e, 1, n), copy |-> 1]}
  BY <1>1
<1>3. /\ f \in UdpFrames /\ f.type = "other" /\ size(f) \in Nat \ {0, 1}
      /\ e \in Seq(UdpCells) /\ Len(e) = size(f)
      /\ \A i \in 1..size(f) : e[i].frame = f
  <2>1. f \in UdpFrames /\ f.type = "other"
    BY FrameMade
  <2> HIDE DEF f
  <2> QED BY <2>1, FrameEncoded
<1> HIDE DEF f, e
<1> DEFINE b == SubSeq(e, 1, n)
           d == [bytes |-> b, copy |-> 1]
<1>4. n \in 1..Len(e)
  BY <1>3
<1>5. b \in Seq(UdpCells) /\ Len(b) = n /\ \A i \in 1..n : b[i] = e[i]
  <2>1. 1 \in Int /\ n \in Int /\ 1 <= n /\ n - 1 + 1 = n /\ \A i \in 1..n : e[i] \in UdpCells /\ 1 + i - 1 = i
    BY <1>3, <1>4
  <2>2. /\ SubSeq(e, 1, n) \in Seq(UdpCells) /\ Len(SubSeq(e, 1, n)) = n
        /\ \A i \in 1..n - 1 + 1 : SubSeq(e, 1, n)[i] = e[1 + i - 1]
    BY <2>1, SubSeqProperties
  <2> QED BY <2>1, <2>2
<1> HIDE DEF b
<1>6. d \in Datagrams /\ d.bytes = b
  BY <1>5 DEF Datagrams
<1>7. network' = network \cup {d}
  BY <1>2 DEF b
<1> HIDE DEF d
<1>8. d.bytes # << >> /\ d.bytes[1].frame.type = "other"
      /\ \A i \in 1..Len(d.bytes) : d.bytes[i].frame = d.bytes[1].frame
  BY <1>3, <1>4, <1>5, <1>6
<1>9. UNCHANGED <<next, altered>>
  BY DEF Stranger
<1> QED BY <1>6, <1>7, <1>8, <1>9, OneMore

\* A sensor sends a frame or gives up.
LEMMA SensorSteps ==
    ASSUME ReportInv, NEW u \in Sensors, SensorSend(u)
    PROVE  (\E body \in bodies : Sends(u, body)) \/ (Forwards /\ UNCHANGED network)
<1>1. CASE next' = [next EXCEPT ![u] = count[u]] /\ UNCHANGED network
  <2>1. next \in [Sensors -> Nat] /\ count \in [Sensors -> Nat] /\ next[u] < count[u]
        /\ \A v \in Sensors : next[v] <= count[v]
    BY CountsAssumption DEF SensorSend, ReportInv, UdpTypes
  <2>2. next' \in [Sensors -> Nat] /\ \A v \in Sensors : next[v] <= next'[v] /\ next'[v] <= count[v]
    BY <1>1, <2>1
  <2>3. OneFrame'
    BY <1>1 DEF OneFrame, ReportInv
  <2>4. UNCHANGED altered
    BY DEF SensorSend
  <2> QED BY <1>1, <2>2, <2>3, <2>4 DEF Forwards, ReportInv, UdpTypes
<1>2. ASSUME NEW body \in bodies,
             network' = network \cup
                {[bytes |-> encode_frame(make_frame(u, next[u], "imu", body)), copy |-> 1]},
             next' = [next EXCEPT ![u] = @ + 1]
      PROVE  Sends(u, body)
  BY <1>2 DEF Sends, SensorSend
<1> QED BY <1>1, <1>2 DEF SensorSend

\* Receiving leaves the other datagrams alone.
LEMMA ReceiveForwards ==
    ASSUME ReportInv, UNCHANGED <<next, altered>>, NEW d \in network, network' = network \ {d}
    PROVE  Forwards
BY CountsAssumption DEF Forwards, ReportInv, UdpTypes, OneFrame

\* What is in flight or was counted is a frame.
LEMMA KnownFrames ==
    ASSUME ReportInv
    PROVE  Known \subseteq UdpFrames
<1>1. \A f \in Range(observed) : f \in UdpFrames
  BY DEF ReportInv, UdpTypes, Range
<1>2. ASSUME NEW d \in network PROVE d.bytes[1].frame \in UdpFrames
  <2>1. d \in Datagrams /\ d.bytes # << >>
    BY DEF ReportInv, UdpTypes, OneFrame
  <2>2. d.bytes[1] \in UdpCells
    BY <2>1 DEF Datagrams
  <2> QED BY <2>2 DEF UdpCells
<1> QED BY <1>1, <1>2 DEF Known

\* What a sensor sent stays sent.
LEMMA SentStays ==
    ASSUME ReportInv, NEW f \in UdpFrames, Sent(f), next' \in [Sensors -> Nat],
           \A u \in Sensors : next[u] <= next'[u]
    PROVE  Sent(f)'
<1>1. f.publisher \in Sensors /\ f.sequence \in Nat
  BY DEF UdpFrames
<1>2. next[f.publisher] \in Nat /\ next'[f.publisher] \in Nat
  BY <1>1 DEF ReportInv, UdpTypes
<1> QED BY <1>1, <1>2 DEF Sent

\* Only what is noted is new after a step that forwards and counts no frame, or one
\* that was in flight.
LEMMA KnownForwarded ==
    ASSUME ReportInv, Forwards, observed' \in Seq(UdpFrames),
           \A f \in Range(observed') : f \in Range(observed) \/ f \in Known
    PROVE  KnownSent'
<1>1. ASSUME NEW f \in Known' PROVE f \in Known \/ f \in altered'
  <2>1. CASE f \in Range(observed')
    BY <1>1, <2>1 DEF Known
  <2>2. CASE f \in {d.bytes[1].frame : d \in network'}
    <3>1. PICK d \in network' : f = d.bytes[1].frame
      BY <2>2
    <3>2. f.type = "imu"
      BY <1>1 DEF Known
    <3>3. CASE f \in altered'
      BY <3>3
    <3>4. CASE \E c \in network : f = c.bytes[1].frame
      BY <3>2, <3>4 DEF Known
    <3> QED BY <3>1, <3>2, <3>3, <3>4 DEF Forwards
  <2> QED BY <1>1, <2>1, <2>2 DEF Known
<1>2. ASSUME NEW f \in Known PROVE Sent(f)' \/ f \in altered'
  <2>1. f \in UdpFrames /\ (Sent(f) \/ f \in altered)
    BY KnownFrames DEF ReportInv, KnownSent
  <2>2. /\ next' \in [Sensors -> Nat] /\ \A u \in Sensors : next[u] <= next'[u]
        /\ altered \subseteq altered'
    BY DEF Forwards
  <2> QED BY <2>1, <2>2, SentStays
<1> QED BY <1>1, <1>2 DEF KnownSent

\* A sensor's new frame is sent.
LEMMA KnownSends ==
    ASSUME ReportInv, NEW u \in Sensors, NEW body \in bodies, Sends(u, body)
    PROVE  /\ next' \in [Sensors -> Nat] /\ \A v \in Sensors : next'[v] <= count[v]
           /\ network' \subseteq Datagrams /\ OneFrame' /\ KnownSent'
<1> DEFINE f == make_frame(u, next[u], "imu", body)
           e == encode_frame(f)
           d == [bytes |-> e, copy |-> 1]
<1>1. next \in [Sensors -> Nat] /\ count \in [Sensors -> Nat] /\ next[u] < count[u]
      /\ next' = [next EXCEPT ![u] = @ + 1] /\ \A v \in Sensors : next[v] <= count[v]
  BY CountsAssumption DEF Sends, ReportInv, UdpTypes
<1>2. next' \in [Sensors -> Nat] /\ \A v \in Sensors : next[v] <= next'[v] /\ next'[v] <= count[v]
  BY <1>1
<1>3. next[u] \in Nat /\ next'[u] = next[u] + 1 /\ "imu" \in {"imu", "other"}
  BY <1>1
<1>4. network' = network \cup {d} /\ UNCHANGED <<observed, altered>>
  BY DEF Sends
<1>5. f = make_frame(u, next[u], "imu", body)
  OBVIOUS
<1> HIDE DEF f
<1>6. f \in UdpFrames /\ f.publisher = u /\ f.sequence = next[u] /\ f.type = "imu"
  BY <1>3, <1>5, FrameMade
<1>7. size(f) \in Nat \ {0, 1} /\ e \in Seq(UdpCells) /\ Len(e) = size(f)
  BY <1>6, FrameEncoded
<1>8. \A i \in 1..Len(e) : e[i].frame = f
  BY <1>7 DEF encode_frame
<1> HIDE DEF e
<1>9. d \in Datagrams /\ d.bytes = e
  BY <1>7 DEF Datagrams
<1> HIDE DEF d
<1>10. d.bytes # << >> /\ d.bytes[1].frame = f
       /\ \A i \in 1..Len(d.bytes) : d.bytes[i].frame = d.bytes[1].frame
  BY <1>7, <1>8, <1>9
<1>11. network' \subseteq Datagrams /\ OneFrame'
  BY <1>4, <1>9, <1>10 DEF ReportInv, UdpTypes, OneFrame
<1>12. Known' \subseteq Known \cup {f}
  BY <1>4, <1>10 DEF Known
<1>13. ASSUME NEW g \in Known PROVE Sent(g)' \/ g \in altered'
  <2>1. g \in UdpFrames /\ (Sent(g) \/ g \in altered)
    BY KnownFrames DEF ReportInv, KnownSent
  <2>2. next' \in [Sensors -> Nat] /\ \A v \in Sensors : next[v] <= next'[v]
    BY <1>2
  <2> QED BY <1>4, <2>1, <2>2, SentStays
<1>14. ASSUME NEW g, g = f PROVE Sent(g)'
  <2>1. g.sequence < next'[g.publisher]
    BY <1>3, <1>6, <1>14
  <2>2. g = make_frame(g.publisher, g.sequence, "imu", body)
    BY <1>5, <1>6, <1>14
  <2> QED BY <2>1, <2>2 DEF Sent
<1>15. KnownSent'
  <2>1. \A g \in Known' : Sent(g)' \/ g \in altered'
    BY <1>12, <1>13, <1>14
  <2> QED BY <2>1 DEF KnownSent
<1> QED BY <1>2, <1>11, <1>15

-----------------------------------------------------------------------------
(* What is counted. *)

\* Observing one more frame.
LEMMA LateAppended ==
    ASSUME NEW s \in Seq(UdpFrames), NEW f \in UdpFrames
    PROVE  LET m == Len(s) + 1
               first == \A j \in 1..Len(s) : s[j].sequence # f.sequence
               overtaken == \E j \in 1..Len(s) : s[j].sequence > f.sequence
           IN /\ Overtaken(Append(s, f)) = Overtaken(s) \cup (IF first /\ overtaken THEN {m} ELSE {})
              /\ m \notin Overtaken(s) /\ IsFiniteSet(Overtaken(s))
<1> DEFINE m == Len(s) + 1
           first == \A j \in 1..Len(s) : s[j].sequence # f.sequence
           overtaken == \E j \in 1..Len(s) : s[j].sequence > f.sequence
           t == Append(s, f)
<1>1. Len(s) \in Nat /\ Len(t) = m /\ t[m] = f /\ \A i \in 1..Len(s) : t[i] = s[i]
  OBVIOUS
<1> HIDE DEF t
<1>2. ASSUME NEW i \in 1..Len(s) PROVE i \in Overtaken(t) <=> i \in Overtaken(s)
  <2>1. i \in 1..Len(t) /\ t[i] = s[i] /\ \A j \in 1..i - 1 : t[j] = s[j]
    BY <1>1
  <2> QED BY <2>1 DEF Overtaken
<1>3. m \in Overtaken(t) <=> first /\ overtaken
  <2>1. m \in 1..Len(t) /\ 1..m - 1 = 1..Len(s)
    BY <1>1
  <2>2. m \in Overtaken(t) <=> /\ \A j \in 1..Len(s) : t[j].sequence # t[m].sequence
                          /\ \E j \in 1..Len(s) : t[j].sequence > t[m].sequence
    BY <2>1 DEF Overtaken
  <2> QED BY <1>1, <2>2
<1>4. Overtaken(t) \subseteq 1..m /\ Overtaken(s) \subseteq 1..Len(s) /\ m \notin 1..Len(s)
      /\ \A i \in 1..m : i \in 1..Len(s) \/ i = m
  BY <1>1 DEF Overtaken
<1>5. IsFiniteSet(Overtaken(s))
  <2>1. IsFiniteSet(1..Len(s))
    <3>1. 1 \in Int /\ Len(s) \in Int
      BY <1>1
    <3> QED BY <3>1, FS_Interval, Zenon
  <2> QED BY <1>4, <2>1, FS_Subset
<1>6. Overtaken(t) = Overtaken(s) \cup (IF first /\ overtaken THEN {m} ELSE {})
  BY <1>2, <1>3, <1>4
<1> QED BY <1>4, <1>5, <1>6 DEF t

\* SequenceTracker::observe keeps in step with the frames counted.
LEMMA ObserveTracked ==
    ASSUME ReportInv, NEW f \in UdpFrames, observe(f.sequence), observed' = Append(observed, f)
    PROVE  Tracked'
<1> DEFINE n == f.sequence
           m == Len(observed) + 1
<1>1. n \in Nat /\ observed \in Seq(UdpFrames) /\ Len(observed) \in Nat /\ Tracked
  BY DEF UdpFrames, ReportInv, UdpTypes
<1>2. Len(observed') = m /\ observed'[m] = f /\ \A i \in 1..Len(observed) : observed'[i] = observed[i]
  BY <1>1
<1>3. /\ \A i \in 1..Len(observed) : observed[i].sequence \in seen_ /\ observed[i].sequence \in Nat
      /\ \A x \in seen_ : \E i \in 1..Len(observed) : observed[i].sequence = x
  BY <1>1 DEF Tracked, UdpFrames
<1>4. {observed'[i].sequence : i \in 1..Len(observed')} = seen_ \cup {n}
  <2>1. \A i \in 1..m : i \in 1..Len(observed) \/ i = m
    BY <1>1
  <2>2. m \in 1..m /\ 1..Len(observed) \subseteq 1..m
    BY <1>1
  <2>3. {observed'[i].sequence : i \in 1..m} \subseteq seen_ \cup {n}
    BY <1>2, <1>3, <2>1
  <2>4. seen_ \cup {n} \subseteq {observed'[i].sequence : i \in 1..m}
    BY <1>2, <1>3, <2>2
  <2> QED BY <1>2, <2>3, <2>4
<1>5. /\ Overtaken(observed') = Overtaken(observed) \cup
            (IF n \notin seen_ /\ \E x \in seen_ : x > n THEN {m} ELSE {})
      /\ m \notin Overtaken(observed) /\ IsFiniteSet(Overtaken(observed))
  <2>1. /\ Overtaken(observed') = Overtaken(observed) \cup
              (IF /\ \A j \in 1..Len(observed) : observed[j].sequence # n
                  /\ \E j \in 1..Len(observed) : observed[j].sequence > n THEN {m} ELSE {})
        /\ m \notin Overtaken(observed) /\ IsFiniteSet(Overtaken(observed))
    BY <1>1, LateAppended
  <2>2. (\A j \in 1..Len(observed) : observed[j].sequence # n) <=> n \notin seen_
    BY <1>3
  <2>3. (\E j \in 1..Len(observed) : observed[j].sequence > n) <=> \E x \in seen_ : x > n
    BY <1>3
  <2> QED BY <2>1, <2>2, <2>3
<1> HIDE DEF n, m
<1>6. Cardinality(seen_) \in Nat /\ Cardinality(Overtaken(observed)) \in Nat
  BY <1>1, <1>5, FS_CardinalityType DEF Tracked
<1>7. CASE n \in seen_
  <2>1. UNCHANGED <<seen_, has_highest_, highest_, out_of_order_>> /\ duplicates_' = duplicates_ + 1
    BY <1>7 DEF observe, n
  <2>2. Overtaken(observed') = Overtaken(observed) /\ seen_ \cup {n} = seen_
    BY <1>5, <1>7
  <2>3. Len(observed') = duplicates_' + Cardinality(seen_) /\ duplicates_' \in Nat
    BY <1>1, <1>2, <1>6, <2>1 DEF Tracked, m
  <2>4. out_of_order_' = Cardinality(Overtaken(observed'))
    BY <1>1, <2>1, <2>2 DEF Tracked
  <2> QED BY <1>1, <1>4, <2>1, <2>2, <2>3, <2>4 DEF Tracked
<1>8. CASE n \notin seen_
  <2>1. /\ seen_' = seen_ \cup {n} /\ has_highest_' = TRUE /\ UNCHANGED duplicates_
        /\ out_of_order_' = out_of_order_ + (IF has_highest_ /\ n < highest_ THEN 1 ELSE 0)
        /\ highest_' = (IF ~has_highest_ \/ n > highest_ THEN n ELSE highest_)
    BY <1>8 DEF observe, n
  <2>2. IsFiniteSet(seen_') /\ Cardinality(seen_') = Cardinality(seen_) + 1
    BY <1>1, <1>8, <2>1, FS_AddElement DEF Tracked
  <2> DEFINE h == highest_
  <2>0. /\ seen_ \subseteq Nat /\ n \in Nat /\ h \in Nat /\ (has_highest_ <=> seen_ # {})
        /\ has_highest_ => h \in seen_ /\ \A x \in seen_ : x <= h
    BY <1>1 DEF Tracked, n
  <2>3. has_highest_ /\ n < h <=> \E x \in seen_ : x > n
    <3>1. ASSUME NEW x \in seen_, x > n PROVE has_highest_ /\ n < h
      <4>1. has_highest_ /\ x <= h /\ x \in Nat
        BY <2>0
      <4> QED BY <2>0, <3>1, <4>1
    <3>2. ASSUME has_highest_, n < h PROVE h \in seen_ /\ h > n
      BY <2>0, <3>2
    <3> QED BY <3>1, <3>2
  <2>4. out_of_order_' = Cardinality(Overtaken(observed'))
    <3>1. CASE \E x \in seen_ : x > n
      <4>1. Overtaken(observed') = Overtaken(observed) \cup {m}
        BY <1>5, <1>8, <3>1
      <4>2. Cardinality(Overtaken(observed')) = Cardinality(Overtaken(observed)) + 1
        BY <1>5, <4>1, FS_AddElement
      <4>3. out_of_order_' = out_of_order_ + 1
        BY <2>1, <2>3, <3>1
      <4> QED BY <1>1, <4>2, <4>3 DEF Tracked
    <3>2. CASE ~\E x \in seen_ : x > n
      <4>1. Overtaken(observed') = Overtaken(observed)
        BY <1>5, <3>2
      <4>2. out_of_order_ \in Nat /\ out_of_order_' = out_of_order_ + 0
        BY <1>1, <1>6, <2>1, <2>3, <3>2 DEF Tracked
      <4> QED BY <1>1, <4>1, <4>2 DEF Tracked
    <3> QED BY <3>1, <3>2
  <2>5. highest_' \in Nat /\ highest_' \in seen_' /\ \A x \in seen_' : x <= highest_'
    <3>1. CASE ~has_highest_ \/ n > h
      <4>1. highest_' = n /\ \A x \in seen_ : x <= n
        BY <2>0, <2>1, <3>1
      <4> QED BY <2>0, <2>1, <4>1
    <3>2. CASE ~(~has_highest_ \/ n > h)
      <4>1. highest_' = h /\ n <= h
        BY <2>0, <2>1, <3>2
      <4> QED BY <2>0, <2>1, <3>2, <4>1
    <3> QED BY <3>1, <3>2
  <2>6. seen_' \subseteq Nat /\ seen_' = {observed'[i].sequence : i \in 1..Len(observed')} /\ seen_' # {}
    BY <1>1, <1>4, <2>1 DEF Tracked, n
  <2>7. Len(observed') = duplicates_' + Cardinality(seen_') /\ duplicates_' \in Nat
    BY <1>1, <1>2, <1>6, <2>1, <2>2 DEF Tracked, m
  <2> QED BY <2>1, <2>2, <2>4, <2>5, <2>6, <2>7 DEF Tracked
<1> QED BY <1>7, <1>8

-----------------------------------------------------------------------------
(* The invariant of the report. *)

LEMMA ReportInitially ==
    ASSUME UdpInit
    PROVE  ReportInv
<1>1. UdpTypes
  BY CountsAssumption DEF UdpInit, UdpTypes
<1>2. OneFrame
  BY DEF UdpInit, OneFrame
<1>3. Range(observed) = {} /\ Len(observed) = 0 /\ observed = << >>
  BY DEF UdpInit, Range
<1>4. KnownSent
  BY <1>3 DEF UdpInit, KnownSent, Known
<1>5. IsFiniteSet({}) /\ Cardinality({}) = 0
  BY FS_EmptySet
<1>6. Overtaken(observed) = {} /\ {observed[i].sequence : i \in 1..Len(observed)} = {}
  BY <1>3 DEF Overtaken
<1>7. Tracked
  <2>1. has_highest_ = FALSE /\ seen_ = {} /\ highest_ = 0 /\ duplicates_ = 0 /\ out_of_order_ = 0
    BY DEF UdpInit
  <2>2. has_highest_ \in BOOLEAN /\ (has_highest_ <=> seen_ # {}) /\ seen_ \subseteq Nat
    BY <2>1
  <2>3. Len(observed) = duplicates_ + Cardinality(seen_) /\ out_of_order_ = Cardinality(Overtaken(observed))
    <3>1. Cardinality(seen_) = 0 /\ Cardinality(Overtaken(observed)) = 0
      BY <1>5, <1>6, <2>1
    <3> QED BY <1>3, <2>1, <3>1
  <2>4. IsFiniteSet(seen_) /\ seen_ = {observed[i].sequence : i \in 1..Len(observed)}
    BY <1>5, <1>6, <2>1
  <2> QED BY <2>1, <2>2, <2>3, <2>4 DEF Tracked
<1> QED BY <1>1, <1>2, <1>4, <1>7 DEF ReportInv

\* A step after which the control process has counted the same frames.
LEMMA ForwardStep ==
    ASSUME ReportInv, Forwards, UNCHANGED <<trackerVars, samples_ns_, observed>>
    PROVE  ReportInv'
<1>1. UdpTypes'
  BY DEF ReportInv, UdpTypes, Forwards
<1>2. OneFrame'
  BY DEF Forwards
<1>3. KnownSent'
  <2>1. observed' \in Seq(UdpFrames) /\ \A f \in Range(observed') : f \in Range(observed)
    BY DEF ReportInv, UdpTypes
  <2> QED BY <2>1, KnownForwarded
<1>4. Tracked'
  BY DEF ReportInv, Tracked, trackerVars
<1> QED BY <1>1, <1>2, <1>3, <1>4 DEF ReportInv

\* The sensor's loop keeps the invariant.
LEMMA SendStep ==
    ASSUME ReportInv, NEW u \in Sensors, SensorSend(u)
    PROVE  ReportInv'
<1>1. UNCHANGED <<trackerVars, samples_ns_, observed>>
  BY DEF SensorSend
<1>2. CASE Forwards
  BY <1>1, <1>2, ForwardStep
<1>3. ASSUME NEW body \in bodies, Sends(u, body) PROVE ReportInv'
  <2>1. /\ next' \in [Sensors -> Nat] /\ \A v \in Sensors : next'[v] <= count[v]
        /\ network' \subseteq Datagrams /\ OneFrame' /\ KnownSent'
    BY <1>3, KnownSends
  <2>2. UdpTypes'
    BY <1>1, <2>1 DEF ReportInv, UdpTypes
  <2>3. Tracked'
    BY <1>1 DEF ReportInv, Tracked, trackerVars
  <2> QED BY <2>1, <2>2, <2>3 DEF ReportInv
<1> QED BY <1>2, <1>3, SensorSteps

\* A frame received is one that was in flight.
LEMMA CountStep ==
    ASSUME ReportInv, NEW d \in network, network' = network \ {d}, UNCHANGED <<next, altered>>,
           NEW f, f = receive_frame(d.bytes), f # NoFrame, f.type = "imu",
           CountFrame(f) \/ CountClockAhead(f)
    PROVE  ReportInv'
<1>1. observe(f.sequence) /\ observed' = Append(observed, f)
  BY DEF CountFrame, CountClockAhead
<1>2. d \in Datagrams /\ \A i \in 1..Len(d.bytes) : d.bytes[i].frame = d.bytes[1].frame
  BY DEF ReportInv, UdpTypes, OneFrame
<1>3. f = d.bytes[1].frame /\ f \in UdpFrames
  BY <1>2, FrameDecoded
<1>4. f \in Known
  BY <1>3 DEF Known
<1>5. Tracked'
  BY <1>1, <1>3, ObserveTracked
<1>6. Forwards
  BY ReceiveForwards
<1>7. /\ observed \in Seq(UdpFrames) /\ \A i \in 1..Len(observed) : observed[i].type = "imu"
      /\ samples_ns_ \in Seq(Nat)
  BY DEF ReportInv, UdpTypes
<1>8. /\ observed' \in Seq(UdpFrames) /\ Len(observed') = Len(observed) + 1
      /\ observed'[Len(observed) + 1] = f /\ \A i \in 1..Len(observed) : observed'[i] = observed[i]
      /\ Len(observed) \in Nat
  BY <1>1, <1>3, <1>7
<1>9. \A i \in 1..Len(observed') : i \in 1..Len(observed) \/ i = Len(observed) + 1
  BY <1>8
<1>10. \A g \in Range(observed') : g \in Range(observed) \/ g \in Known
  <2>1. DOMAIN observed' = 1..Len(observed') /\ DOMAIN observed = 1..Len(observed)
    BY <1>7, <1>8
  <2> QED BY <1>4, <1>8, <1>9, <2>1 DEF Range
<1>11. KnownSent'
  BY <1>6, <1>8, <1>10, KnownForwarded
<1>12. samples_ns_' \in Seq(Nat)
  <2>1. \A l \in Latencies : Append(samples_ns_, l) \in Seq(Nat)
    BY <1>7, LatenciesAssumption
  <2> QED BY <1>7, <2>1 DEF CountFrame, CountClockAhead
<1>13. UdpTypes'
  BY <1>6, <1>7, <1>8, <1>9, <1>12 DEF UdpTypes, Forwards
<1> QED BY <1>5, <1>6, <1>11, <1>13 DEF ReportInv, Forwards

LEMMA ReportStep ==
    ASSUME ReportInv, [UdpNext]_udpVars
    PROVE  ReportInv'
<1>1. ASSUME NEW u \in Sensors, SensorSend(u) PROVE ReportInv'
  BY <1>1, SendStep
<1>2. CASE NetworkFault
  <2>1. Forwards
    BY <1>2, FaultForwards
  <2> QED BY <1>2, <2>1, ForwardStep DEF NetworkFault
<1>3. CASE Stranger
  <2>1. Forwards
    BY <1>3, StrangerForwards
  <2> QED BY <1>3, <2>1, ForwardStep DEF Stranger
<1>4. CASE Receive
  <2>1. PICK d \in network :
           /\ network' = network \ {d}
           /\ LET f == receive_frame(d.bytes)
              IN IF f = NoFrame THEN Discard
                 ELSE IF f.type # "imu" THEN Discard
                 ELSE CountFrame(f) \/ CountClockAhead(f)
    BY <1>4 DEF Receive
  <2>2. UNCHANGED <<next, altered>>
    BY <1>4 DEF Receive
  <2>3. CASE Discard
    BY <2>1, <2>2, <2>3, ReceiveForwards, ForwardStep DEF Discard
  <2>4. CASE ~Discard
    BY <2>1, <2>2, <2>4, CountStep
  <2> QED BY <2>3, <2>4
<1>5. CASE UNCHANGED <<next, network, trackerVars, samples_ns_, observed, altered>>
  <2>1. Forwards
    BY <1>5, CountsAssumption DEF Forwards, ReportInv, UdpTypes, OneFrame
  <2> QED BY <1>5, <2>1, ForwardStep
<1>6. CASE ReceiveError
  BY <1>5, <1>6 DEF ReceiveError, Discard
<1>7. CASE Report
  BY <1>5, <1>7 DEF Report
<1>8. CASE UNCHANGED udpVars
  BY <1>5, <1>8 DEF udpVars
<1> QED BY <1>1, <1>2, <1>3, <1>4, <1>6, <1>7, <1>8 DEF UdpNext

\* lost is the number of the missing ones below a sensor's count.
LEMMA LostNumbers ==
    ASSUME ReportInv, NEW u \in Sensors, From(u), count[u] = expected,
           \A i \in 1..Len(observed) : Sent(observed[i])
    PROVE  lost(expected) = Cardinality((0..count[u] - 1) \ seen_)
<1>1. expected \in Nat /\ expected - 1 \in Int /\ 0 \in Int /\ ~(0 > expected - 1)
      /\ (expected - 1) - 0 + 1 = expected
  BY CountsAssumption
<1>2. seen_ \subseteq 0..expected - 1
  <2>1. SUFFICES ASSUME NEW n \in seen_ PROVE n \in 0..expected - 1
    OBVIOUS
  <2>2. PICK i \in 1..Len(observed) : n = observed[i].sequence
    BY DEF ReportInv, Tracked
  <2>3. observed[i].publisher = u /\ Sent(observed[i])
    BY DEF From
  <2>4. n < next[u]
    BY <2>2, <2>3 DEF Sent
  <2>5. n \in Nat /\ next[u] \in Nat /\ next[u] <= expected
    BY DEF ReportInv, UdpTypes, Tracked
  <2> QED BY <1>1, <2>4, <2>5
<1>3. IsFiniteSet(0..expected - 1) /\ Cardinality(0..expected - 1) = expected
  <2>1. IsFiniteSet(0..expected - 1)
        /\ Cardinality(0..expected - 1) = IF 0 > expected - 1 THEN 0 ELSE (expected - 1) - 0 + 1
    BY <1>1, FS_Interval, Zenon
  <2> QED BY <1>1, <2>1
<1>4. IsFiniteSet(seen_) /\ Cardinality(seen_) \in Nat /\ Cardinality(seen_) <= expected
  BY <1>2, <1>3, FS_Subset, FS_CardinalityType
<1>5. Cardinality((0..expected - 1) \ seen_) = expected - Cardinality(seen_)
  <2>1. (0..expected - 1) \cap seen_ = seen_
    BY <1>2
  <2>2. Cardinality((0..expected - 1) \ seen_)
          = Cardinality(0..expected - 1) - Cardinality((0..expected - 1) \cap seen_)
    BY <1>3, FS_Difference, Zenon
  <2> QED BY <1>3, <2>1, <2>2
<1>6. lost(expected) = expected - Cardinality(seen_)
  <2> DEFINE k == expected - Cardinality(seen_)
  <2>1. k \in Nat
    BY <1>1, <1>4
  <2> HIDE DEF k
  <2>2. k \in {0, k} /\ \A y \in {0, k} : k >= y
    BY <2>1
  <2>3. \A x \in {0, k} : (\A y \in {0, k} : x >= y) => x = k
    BY <2>1
  <2>4. Max({0, k}) = k
    BY <2>2, <2>3 DEF Max
  <2> QED BY <2>4 DEF lost, k
<1> QED BY <1>5, <1>6

\* As many numbers as pairs of them with a publisher.
LEMMA NumbersOfOne ==
    ASSUME NEW u, NEW S, IsFiniteSet(S)
    PROVE  Cardinality({<<u, x>> : x \in S}) = Cardinality(S)
<1> DEFINE T == {<<u, x>> : x \in S}
           f == [x \in S |-> <<u, x>>]
<1>1. f \in [S -> T] /\ \A x \in S : f[x] = <<u, x>>
  OBVIOUS
<1>2. \A x, y \in S : f[x] = f[y] => x = y
  BY <1>1
<1>3. \A t \in T : \E x \in S : f[x] = t
  BY <1>1
<1> HIDE DEF f, T
<1>4. f \in Bijection(S, T)
  BY <1>1, <1>2, <1>3 DEF Bijection, Injection, Surjection, IsInjective
<1>5. ExistsBijection(S, T)
  BY <1>4 DEF ExistsBijection
<1> QED BY <1>5, FS_Bijection DEF T

\* The invariant is enough for the report.
LEMMA ReportFaithful ==
    ASSUME ReportInv
    PROVE  SequenceReport
<1> DEFINE n == Len(observed)
           Num(i) == observed[i].sequence
           Id(i) == <<observed[i].publisher, Num(i)>>
           Delayed == {i \in 1..n :
                      /\ \A j \in 1..i - 1 : Id(j) # Id(i)
                      /\ \E j \in 1..i - 1 : /\ observed[j].publisher = observed[i].publisher
                                             /\ Num(j) > Num(i)}
           Sensed(i) == \E u \in Sensors, body \in bodies :
                           Num(i) < next[u] /\ observed[i] = make_frame(u, Num(i), "imu", body)
<1>1. observed \in Seq(UdpFrames) /\ n \in Nat
  BY DEF ReportInv, UdpTypes
<1>2. ASSUME NEW i \in 1..n
      PROVE  Sensed(i) \/ observed[i] \in altered
  <2>1. observed[i] \in Known
    BY <1>1 DEF Known, Range, ReportInv, UdpTypes
  <2>2. observed[i] \in UdpFrames
    BY <1>1
  <2>3. observed[i].publisher \in Sensors
    BY <2>2 DEF UdpFrames
  <2> QED BY <2>1, <2>3 DEF ReportInv, KnownSent, Sent
<1>3. ASSUME NEW i \in 1..n, Sensed(i) PROVE Sent(observed[i])
  <2>1. PICK u \in Sensors, body \in bodies :
           Num(i) < next[u] /\ observed[i] = make_frame(u, Num(i), "imu", body)
    BY <1>3
  <2>2. observed[i].publisher = u
    BY <2>1 DEF make_frame
  <2> QED BY <2>1, <2>2 DEF Sent
<1>4. ASSUME NEW u \in Sensors, \A i \in 1..n : observed[i].publisher = u
      PROVE  /\ duplicates_ = n - Cardinality({Id(i) : i \in 1..n})
             /\ out_of_order_ = Cardinality(Delayed)
             /\ (\A i \in 1..n : Sensed(i)) /\ count[u] = expected =>
                   lost(expected) = Cardinality((0..count[u] - 1) \ {Num(i) : i \in 1..n})
  <2>1. From(u)
    BY <1>4 DEF From
  <2>2. /\ IsFiniteSet(seen_) /\ duplicates_ \in Nat /\ n = duplicates_ + Cardinality(seen_)
        /\ seen_ = {Num(i) : i \in 1..n}
    BY DEF ReportInv, Tracked
  <2>3. {Id(i) : i \in 1..n} = {<<u, x>> : x \in seen_}
    BY <1>4, <2>2
  <2>4. Cardinality({Id(i) : i \in 1..n}) = Cardinality(seen_) /\ Cardinality(seen_) \in Nat
    <3>1. Cardinality({<<u, x>> : x \in seen_}) = Cardinality(seen_)
      BY <2>2, NumbersOfOne
    <3> QED BY <2>2, <2>3, <3>1, FS_CardinalityType
  <2>5. duplicates_ = n - Cardinality({Id(i) : i \in 1..n})
    <3> DEFINE c == Cardinality(seen_)
               k == Cardinality({Id(i) : i \in 1..n})
    <3>1. c \in Nat /\ duplicates_ \in Nat /\ n = duplicates_ + c /\ k = c
      BY <2>2, <2>4
    <3> HIDE DEF c, k, n
    <3>2. duplicates_ = n - k
      BY <3>1
    <3> QED BY <3>2 DEF k
  <2>6. Delayed = Overtaken(observed)
    <3>1. ASSUME NEW i \in 1..n, NEW j \in 1..i - 1
          PROVE  observed[j].publisher = observed[i].publisher /\ (Id(j) # Id(i) <=> Num(j) # Num(i))
      <4>1. j \in 1..n
        BY <1>1
      <4> QED BY <1>4, <4>1
    <3>2. ASSUME NEW i \in 1..n PROVE i \in Delayed <=> i \in Overtaken(observed)
      BY <3>1 DEF Overtaken
    <3>3. Overtaken(observed) \subseteq 1..n
      BY DEF Overtaken
    <3> QED BY <3>2, <3>3
  <2>7. (\A i \in 1..n : Sensed(i)) /\ count[u] = expected =>
           lost(expected) = Cardinality((0..count[u] - 1) \ {Num(i) : i \in 1..n})
    <3> SUFFICES ASSUME \A i \in 1..n : Sensed(i), count[u] = expected
                 PROVE  lost(expected) = Cardinality((0..count[u] - 1) \ seen_)
      BY <2>2
    <3>1. \A i \in 1..Len(observed) : Sent(observed[i])
      BY <1>3
    <3> QED BY <2>1, <3>1, LostNumbers
  <2>8. out_of_order_ = Cardinality(Delayed)
    BY <2>6 DEF ReportInv, Tracked
  <2> QED BY <2>5, <2>7, <2>8
<1> QED BY <1>2, <1>4 DEF SequenceReport

\* What the control process reports of the numbers it received is what happened,
\* however many frames and faults there are, headers changed on the way included,
\* as long as a single publisher shows in them; and whatever it counts was sent,
\* or is the frame that a changed header shows (SequenceTracker::observe, lost,
\* and the loop of udp_control.cpp).
THEOREM SequenceReported == UdpSpec => []SequenceReport
<1>1. UdpInit => ReportInv
  BY ReportInitially
<1>2. ReportInv /\ [UdpNext]_udpVars => ReportInv'
  BY ReportStep
<1>3. ReportInv => SequenceReport
  BY ReportFaithful
<1> QED BY <1>1, <1>2, <1>3, PTL DEF UdpSpec

-----------------------------------------------------------------------------
(* The latencies. *)

\* A non-empty set of naturals has a least element.
LEMMA LeastNumber ==
    ASSUME NEW S \in SUBSET Nat, S # {}
    PROVE  Min(S) \in S /\ \A y \in S : Min(S) <= y
<1> DEFINE R == {p \in Nat \X Nat : p[1] < p[2]}
<1>1. IsWellFoundedOn(R, Nat)
  BY NatLessThanWellFounded, Zenon DEF OpToRel
<1>2. PICK x \in S : \A y \in S : ~(<<y, x>> \in R)
  <2> HIDE DEF R
  <2> QED BY <1>1, WFMin
<1>3. ASSUME NEW y \in S, y < x PROVE FALSE
  <2>1. <<y, x>> \in Nat \X Nat /\ <<y, x>>[1] = y /\ <<y, x>>[2] = x
    OBVIOUS
  <2>2. <<y, x>> \in R
    BY <1>3, <2>1
  <2> QED BY <1>2, <2>2
<1>4. \A y \in S : x <= y
  BY <1>3
<1> QED BY <1>4 DEF Min

\* An arrangement is a one-to-one choice of every place.
LEMMA Arrangement ==
    ASSUME NEW n \in Nat, NEW p
    PROVE  p \in Bijection(1..n, 1..n) <=>
              /\ p \in [1..n -> 1..n]
              /\ \A i, j \in 1..n : p[i] = p[j] => i = j
              /\ \A k \in 1..n : \E i \in 1..n : p[i] = k
BY DEF Bijection, Injection, Surjection, IsInjective

\* A sample more goes before the first that exceeds it.
LEMMA SortInsert ==
    ASSUME NEW s \in Seq(Nat), Sortable(s), NEW x \in Nat
    PROVE  Sortable(Append(s, x))
<1> DEFINE n == Len(s)
           t == Append(s, x)
<1>1. n \in Nat /\ DOMAIN s = 1..n /\ \A i \in 1..n : s[i] \in Nat
  OBVIOUS
<1>2. t \in Seq(Nat) /\ DOMAIN t = 1..n + 1 /\ t[n + 1] = x /\ \A i \in 1..n : t[i] = s[i]
  OBVIOUS
<1> HIDE DEF n, t
<1>3. PICK p : /\ p \in [1..n -> 1..n]
               /\ \A i, j \in 1..n : p[i] = p[j] => i = j
               /\ \A k \in 1..n : \E i \in 1..n : p[i] = k
               /\ \A i, j \in 1..n : i < j => s[p[i]] <= s[p[j]]
  BY <1>1, Arrangement DEF Sortable
<1> DEFINE v == [i \in 1..n |-> s[p[i]]]
<1>4. /\ \A i \in 1..n : v[i] \in Nat /\ v[i] = s[p[i]] /\ p[i] \in 1..n
      /\ \A i, j \in 1..n : i < j => v[i] <= v[j]
  BY <1>1, <1>3
<1> HIDE DEF v
<1>5. PICK m \in 1..n + 1 : /\ \A i \in 1..n : i < m => v[i] <= x
                            /\ \A i \in 1..n : i >= m => x <= v[i]
  <2> DEFINE S == {k \in 1..n + 1 : k = n + 1 \/ v[k] > x}
  <2>1. S \in SUBSET Nat /\ n + 1 \in S
    BY <1>1
  <2> DEFINE m == Min(S)
  <2>2. m \in S /\ \A k \in S : m <= k
    <3> HIDE DEF S
    <3> QED BY <2>1, LeastNumber
  <2> HIDE DEF m
  <2>3. ASSUME NEW i \in 1..n, i < m PROVE v[i] <= x
    <3>1. i \notin S /\ i \in 1..n + 1 /\ v[i] \in Nat
      BY <1>1, <1>4, <2>2, <2>3
    <3> QED BY <3>1
  <2>4. ASSUME NEW i \in 1..n, i >= m PROVE x <= v[i]
    <3>1. m \in 1..n /\ v[m] > x /\ v[m] \in Nat /\ v[i] \in Nat
      BY <1>1, <1>4, <2>2, <2>4
    <3>2. i = m \/ m < i
      BY <2>4, <3>1
    <3> QED BY <1>4, <3>1, <3>2
  <2> QED BY <2>2, <2>3, <2>4
<1> DEFINE q == [i \in 1..n + 1 |-> IF i < m THEN p[i] ELSE IF i = m THEN n + 1 ELSE p[i - 1]]
<1>6. ASSUME NEW i \in 1..n + 1
      PROVE  /\ i < m => i \in 1..n /\ q[i] = p[i] /\ q[i] \in 1..n /\ t[q[i]] = v[i]
             /\ i = m => q[i] = n + 1 /\ t[q[i]] = x
             /\ i > m => i - 1 \in 1..n /\ q[i] = p[i - 1] /\ q[i] \in 1..n /\ t[q[i]] = v[i - 1]
  <2>1. CASE i < m
    <3>1. i \in 1..n
      BY <1>1, <2>1
    <3> QED BY <1>1, <1>2, <1>4, <2>1, <3>1
  <2>2. CASE i = m
    BY <1>1, <1>2, <2>2
  <2>3. CASE i > m
    <3>1. i - 1 \in 1..n
      BY <1>1, <2>3
    <3> QED BY <1>1, <1>2, <1>4, <2>3, <3>1
  <2>4. i < m \/ i = m \/ i > m
    BY <1>1
  <2> QED BY <1>1, <2>1, <2>2, <2>3, <2>4
<1>7. q \in [1..n + 1 -> 1..n + 1]
  <2>1. ASSUME NEW i \in 1..n + 1 PROVE q[i] \in 1..n + 1
    <3> HIDE DEF q
    <3>1. i < m \/ i = m \/ i > m
      BY <1>1
    <3>2. q[i] \in 1..n \/ q[i] = n + 1
      BY <1>6, <3>1
    <3> QED BY <1>1, <3>2
  <2> QED BY <2>1
<1> HIDE DEF q
<1>8. ASSUME NEW i \in 1..n + 1, NEW j \in 1..n + 1, i < j PROVE q[i] # q[j]
  <2>1. n + 1 \notin 1..n
    BY <1>1
  <2>2. i < m \/ i = m \/ i > m
    BY <1>1
  <2>3. j < m \/ j = m \/ j > m
    BY <1>1
  <2>4. CASE i < m /\ j < m
    BY <1>1, <1>3, <1>6, <1>8, <2>4
  <2>5. CASE i < m /\ j = m
    BY <1>1, <1>6, <2>1, <2>5
  <2>6. CASE i < m /\ j > m
    <3>1. i # j - 1 /\ j - 1 \in 1..n /\ i \in 1..n /\ q[i] = p[i] /\ q[j] = p[j - 1]
      BY <1>1, <1>6, <2>6
    <3> QED BY <1>3, <3>1
  <2>7. CASE i = m /\ j > m
    BY <1>1, <1>6, <2>1, <2>7
  <2>8. CASE i > m /\ j > m
    <3>1. i - 1 # j - 1 /\ j - 1 \in 1..n /\ i - 1 \in 1..n /\ q[i] = p[i - 1] /\ q[j] = p[j - 1]
      BY <1>1, <1>6, <1>8, <2>8
    <3> QED BY <1>3, <3>1
  <2> QED BY <1>1, <1>8, <2>2, <2>3, <2>4, <2>5, <2>6, <2>7, <2>8
<1>9. \A i, j \in 1..n + 1 : q[i] = q[j] => i = j
  BY <1>1, <1>8
<1>10. ASSUME NEW k \in 1..n + 1 PROVE \E i \in 1..n + 1 : q[i] = k
  <2>1. CASE k = n + 1
    BY <1>6, <2>1
  <2>2. CASE k \in 1..n
    <3>1. PICK i \in 1..n : p[i] = k
      BY <1>3, <2>2
    <3>2. CASE i < m
      BY <1>1, <1>6, <3>1, <3>2
    <3>3. CASE ~(i < m)
      <4>1. i + 1 \in 1..n + 1 /\ i + 1 > m /\ (i + 1) - 1 = i
        BY <1>1, <3>3
      <4>2. q[i + 1] = p[(i + 1) - 1]
        BY <1>6, <4>1
      <4> QED BY <3>1, <4>1, <4>2
    <3> QED BY <3>2, <3>3
  <2> QED BY <1>1, <2>1, <2>2
<1>11. ASSUME NEW i \in 1..n + 1, NEW j \in 1..n + 1, i < j PROVE t[q[i]] <= t[q[j]]
  <2>2. i < m \/ i = m \/ i > m
    BY <1>1
  <2>3. j < m \/ j = m \/ j > m
    BY <1>1
  <2>4. CASE i < m /\ j < m
    BY <1>1, <1>4, <1>6, <1>11, <2>4
  <2>5. CASE i < m /\ j = m
    BY <1>1, <1>5, <1>6, <2>5
  <2>6. CASE i < m /\ j > m
    <3>2. i < j - 1 /\ i \in 1..n /\ j - 1 \in 1..n
      BY <1>1, <1>6, <2>6
    <3>3. t[q[i]] = v[i] /\ t[q[j]] = v[j - 1]
      BY <1>6, <2>6
    <3> QED BY <1>4, <3>2, <3>3
  <2>7. CASE i = m /\ j > m
    <3>1. j - 1 >= m /\ j - 1 \in 1..n
      BY <1>1, <1>6, <2>7
    <3>2. t[q[i]] = x /\ t[q[j]] = v[j - 1]
      BY <1>6, <2>7
    <3> QED BY <1>5, <3>1, <3>2
  <2>8. CASE i > m /\ j > m
    <3>1. i - 1 < j - 1 /\ j - 1 \in 1..n /\ i - 1 \in 1..n
      BY <1>1, <1>6, <1>11, <2>8
    <3>2. t[q[i]] = v[i - 1] /\ t[q[j]] = v[j - 1]
      BY <1>6, <2>8
    <3> QED BY <1>4, <3>1, <3>2
  <2> QED BY <1>1, <1>11, <2>2, <2>3, <2>4, <2>5, <2>6, <2>7, <2>8
<1>12. n + 1 \in Nat /\ q \in Bijection(1..n + 1, 1..n + 1)
  <2>1. n + 1 \in Nat
    BY <1>1
  <2> QED BY <1>7, <1>9, <1>10, <2>1, Arrangement
<1>13. Sortable(t)
  BY <1>2, <1>11, <1>12 DEF Sortable
<1> QED BY <1>13 DEF t

SamplesInv == samples_ns_ \in Seq(Nat) /\ Sortable(samples_ns_)

LEMMA SamplesInitially ==
    ASSUME UdpInit
    PROVE  SamplesInv
<1>1. samples_ns_ = << >> /\ DOMAIN samples_ns_ = 1..0 /\ samples_ns_ \in Seq(Nat)
  BY DEF UdpInit
<1>2. samples_ns_ \in [1..0 -> 1..0] /\ \A i \in 1..0 : FALSE
  BY <1>1
<1>3. samples_ns_ \in Bijection(1..0, 1..0)
  BY <1>2, Arrangement
<1> QED BY <1>1, <1>2, <1>3 DEF SamplesInv, Sortable

\* Samples are only added, one at a time.
LEMMA SamplesStep ==
    ASSUME SamplesInv, [UdpNext]_udpVars
    PROVE  SamplesInv'
<1>1. samples_ns_' = samples_ns_ \/ \E l \in Latencies : samples_ns_' = Append(samples_ns_, l)
  BY DEF UdpNext, udpVars, SensorSend, NetworkFault, Stranger, Receive, ReceiveError, Report,
         Discard, CountFrame, CountClockAhead
<1>2. CASE samples_ns_' = samples_ns_
  BY <1>2 DEF SamplesInv, Sortable
<1>3. ASSUME NEW l \in Latencies, samples_ns_' = Append(samples_ns_, l) PROVE SamplesInv'
  <2>1. l \in Nat /\ samples_ns_ \in Seq(Nat) /\ Sortable(samples_ns_)
    BY LatenciesAssumption DEF SamplesInv
  <2>2. Append(samples_ns_, l) \in Seq(Nat) /\ Sortable(Append(samples_ns_, l))
    BY <2>1, SortInsert
  <2> QED BY <1>3, <2>2 DEF SamplesInv, Sortable
<1> QED BY <1>1, <1>2, <1>3

\* std::sort arranges the samples.
LEMMA SortArranges ==
    ASSUME NEW s \in Seq(Nat), Sortable(s)
    PROVE  /\ sort(s) \in Seq(Nat) /\ Len(sort(s)) = Len(s)
           /\ \A i, j \in 1..Len(s) : i < j => sort(s)[i] <= sort(s)[j]
           /\ \E p \in Bijection(1..Len(s), 1..Len(s)) : \A i \in 1..Len(s) : sort(s)[i] = s[p[i]]
<1> DEFINE n == Len(s)
           Ascending(p) == \A i, j \in DOMAIN s : i < j => s[p[i]] <= s[p[j]]
           c == CHOOSE p \in Bijection(DOMAIN s, DOMAIN s) : Ascending(p)
<1>1. n \in Nat /\ DOMAIN s = 1..n /\ \A i \in 1..n : s[i] \in Nat
  OBVIOUS
<1>2. c \in Bijection(DOMAIN s, DOMAIN s) /\ Ascending(c)
  BY DEF Sortable
<1>3. sort(s) = [i \in DOMAIN s |-> s[c[i]]]
  BY DEF sort
<1> HIDE DEF c, n
<1>4. c \in Bijection(1..n, 1..n) /\ c \in [1..n -> 1..n]
  BY <1>1, <1>2, Arrangement
<1>5. /\ sort(s) = [i \in 1..n |-> s[c[i]]]
      /\ \A i \in 1..n : sort(s)[i] = s[c[i]] /\ sort(s)[i] \in Nat
  BY <1>1, <1>3, <1>4
<1>6. sort(s) \in Seq(Nat) /\ Len(sort(s)) = n
  BY <1>1, <1>5
<1>7. \A i, j \in 1..n : i < j => sort(s)[i] <= sort(s)[j]
  <2>1. \A i, j \in DOMAIN s : i < j => s[c[i]] <= s[c[j]]
    BY <1>2
  <2>2. \A i, j \in 1..n : i < j => s[c[i]] <= s[c[j]]
    BY <1>1, <2>1
  <2> QED BY <1>5, <2>2
<1> QED BY <1>4, <1>5, <1>6, <1>7 DEF n

\* The samples that do not exceed v.
Below(s, v) == {i \in 1..Len(s) : s[i] <= v}

\* Up to the r-th of the sorted samples there are at least r, below it fewer.
LEMMA RankCounts ==
    ASSUME NEW s \in Seq(Nat), Sortable(s), NEW r \in 1..Len(s)
    PROVE  /\ sort(s)[r] \in Range(s) /\ sort(s)[r] \in Nat
           /\ \A v \in Nat : Cardinality(Below(s, v)) \in Nat
           /\ Cardinality(Below(s, sort(s)[r])) >= r
           /\ \A v \in Nat : v < sort(s)[r] => Cardinality(Below(s, v)) <= r - 1
<1> DEFINE n == Len(s)
           t == sort(s)
<1>1. n \in Nat /\ DOMAIN s = 1..n /\ \A i \in 1..n : s[i] \in Nat
  OBVIOUS
<1>2. PICK p \in Bijection(1..n, 1..n) : \A i \in 1..n : t[i] = s[p[i]]
  BY SortArranges
<1>3. \A i, j \in 1..n : i < j => t[i] <= t[j]
  BY SortArranges
<1>4. r \in 1..n
  OBVIOUS
<1> HIDE DEF n, t
<1>5. /\ p \in [1..n -> 1..n]
      /\ \A i, j \in 1..n : p[i] = p[j] => i = j
      /\ \A k \in 1..n : \E i \in 1..n : p[i] = k
  BY <1>1, <1>2, Arrangement
<1>6. \A i \in 1..n : p[i] \in 1..n /\ t[i] \in Nat /\ t[i] = s[p[i]]
  BY <1>1, <1>2, <1>5
<1>7. t[r] \in Nat /\ t[r] \in Range(s)
  BY <1>1, <1>4, <1>6 DEF Range
<1>8. \A k \in Nat : IsFiniteSet(1..k) /\ Cardinality(1..k) = k
  <2>1. ASSUME NEW k \in Nat PROVE IsFiniteSet(1..k) /\ Cardinality(1..k) = k
    <3>1. 1 \in Int /\ k \in Int /\ (IF 1 > k THEN 0 ELSE k - 1 + 1) = k
      OBVIOUS
    <3>2. IsFiniteSet(1..k) /\ Cardinality(1..k) = IF 1 > k THEN 0 ELSE k - 1 + 1
      BY <3>1, FS_Interval, Zenon
    <3> QED BY <3>1, <3>2
  <2> QED BY <2>1
<1>9. \A v \in Nat : IsFiniteSet(Below(s, v)) /\ Cardinality(Below(s, v)) \in Nat
  <2>1. ASSUME NEW v \in Nat PROVE IsFiniteSet(Below(s, v))
    <3>1. Below(s, v) \subseteq 1..n
      BY DEF Below, n
    <3> QED BY <1>1, <1>8, <3>1, FS_Subset
  <2> QED BY <2>1, FS_CardinalityType
<1>10. Cardinality(Below(s, t[r])) >= r
  <2> DEFINE g == [i \in 1..r |-> p[i]]
  <2>1. \A i \in 1..r : i \in 1..n /\ (i < r \/ i = r)
    BY <1>1, <1>4
  <2>2. \A i \in 1..r : t[i] <= t[r]
    BY <1>3, <1>4, <1>7, <2>1
  <2>3. \A i \in 1..r : p[i] \in Below(s, t[r])
    BY <1>6, <2>1, <2>2 DEF Below, n
  <2>4. g \in Injection(1..r, Below(s, t[r]))
    BY <1>5, <2>1, <2>3 DEF Injection, IsInjective
  <2>5. Cardinality(1..r) <= Cardinality(Below(s, t[r]))
    <3> HIDE DEF g
    <3> QED BY <1>7, <1>9, <2>4, FS_Injection
  <2>6. r \in Nat
    BY <1>1, <1>4
  <2> QED BY <1>7, <1>8, <1>9, <2>5, <2>6
<1>11. ASSUME NEW v \in Nat, v < t[r] PROVE Cardinality(Below(s, v)) <= r - 1
  <2> DEFINE D == {i \in 1..r - 1 : t[i] <= v}
             g == [i \in D |-> p[i]]
  <2>1. r - 1 \in Nat /\ 1..r - 1 \subseteq 1..n
    BY <1>1, <1>4
  <2>2. IsFiniteSet(D) /\ Cardinality(D) <= r - 1 /\ Cardinality(D) \in Nat
    <3>1. IsFiniteSet(1..r - 1) /\ Cardinality(1..r - 1) = r - 1 /\ D \subseteq 1..r - 1
      BY <1>8, <2>1
    <3>2. IsFiniteSet(D) /\ Cardinality(D) <= Cardinality(1..r - 1)
      <4> HIDE DEF D
      <4> QED BY <3>1, FS_Subset
    <3> QED BY <3>1, <3>2, FS_CardinalityType
  <2>3. \A i \in D : i \in 1..n /\ p[i] \in Below(s, v)
    BY <1>6, <2>1 DEF Below, n
  <2>4. ASSUME NEW k \in Below(s, v) PROVE \E i \in D : p[i] = k
    <3>1. k \in 1..n /\ s[k] <= v
      BY DEF Below, n
    <3>2. PICK i \in 1..n : p[i] = k
      BY <1>5, <3>1
    <3>3. t[i] <= v /\ t[i] \in Nat
      BY <1>6, <3>1, <3>2
    <3>4. ~(i >= r)
      <4>1. ASSUME i >= r PROVE FALSE
        <5>1. i = r \/ r < i
          BY <1>1, <1>4, <4>1
        <5>2. t[r] <= t[i]
          BY <1>3, <1>4, <1>7, <5>1
        <5> QED BY <1>7, <1>11, <3>3, <5>2
      <4> QED BY <4>1
    <3>5. i \in 1..r - 1
      BY <1>1, <1>4, <3>4
    <3> QED BY <3>2, <3>3, <3>5
  <2>5. g \in Surjection(D, Below(s, v))
    BY <2>3, <2>4 DEF Surjection
  <2>6. Cardinality(Below(s, v)) <= Cardinality(D)
    <3> HIDE DEF D, g
    <3> QED BY <2>2, <2>5, FS_Surjection
  <2> HIDE DEF D
  <2> QED BY <1>9, <2>1, <2>2, <2>6
<1> QED BY <1>7, <1>9, <1>10, <1>11 DEF t

Shares == {<<1, 2>>, <<95, 100>>, <<99, 100>>}
RankOf(n, p) == (p[1] * n + p[2] - 1) \div p[2]
IsShare(c, n, p) == p[2] * c >= p[1] * n

\* The rank is the least number of samples that is the share p of all n.
LEMMA RankOfShare ==
    ASSUME NEW n \in Nat \ {0}, NEW p \in Shares
    PROVE  RankOf(n, p) \in 1..n /\ \A c \in Nat : IsShare(c, n, p) <=> c >= RankOf(n, p)
<1> DEFINE r == RankOf(n, p)
<1>0. r = (p[1] * n + p[2] - 1) \div p[2]
  BY DEF RankOf
<1> HIDE DEF r
<1> SUFFICES r \in 1..n /\ \A c \in Nat : p[2] * c >= p[1] * n <=> c >= r
  BY DEF IsShare, r
<1>1. CASE p = <<1, 2>>
  <2>1. r \in Int /\ 2 * r <= n + 1 /\ n + 1 < 2 * r + 2
    BY <1>0, <1>1
  <2>2. r \in 1..n /\ \A c \in Nat : 2 * c >= 1 * n <=> c >= r
    BY <2>1
  <2> QED BY <1>1, <2>2
<1>2. CASE p = <<95, 100>>
  <2>1. r \in Int /\ 100 * r <= 95 * n + 99 /\ 95 * n + 99 < 100 * r + 100
    BY <1>0, <1>2
  <2>2. r \in 1..n /\ \A c \in Nat : 100 * c >= 95 * n <=> c >= r
    BY <2>1
  <2> QED BY <1>2, <2>2
<1>3. CASE p = <<99, 100>>
  <2>1. r \in Int /\ 100 * r <= 99 * n + 99 /\ 99 * n + 99 < 100 * r + 100
    BY <1>0, <1>3
  <2>2. r \in 1..n /\ \A c \in Nat : 100 * c >= 99 * n <=> c >= r
    BY <2>1
  <2> QED BY <1>3, <2>2
<1> QED BY <1>1, <1>2, <1>3 DEF Shares

\* The sample of that rank is the least that the share does not exceed.
LEMMA NearestRank ==
    ASSUME NEW s \in Seq(Nat), Sortable(s), Len(s) > 0,
           NEW p \in Shares
    PROVE  nearest_rank(sort(s), p)
              = Min({v \in Range(s) : IsShare(Cardinality(Below(s, v)), Len(s), p)})
<1> DEFINE n == Len(s)
           t == sort(s)
           C == {v \in Range(s) : IsShare(Cardinality(Below(s, v)), n, p)}
<1>1. n \in Nat \ {0} /\ t \in Seq(Nat) /\ Len(t) = n
  BY SortArranges
<1> DEFINE r == RankOf(n, p)
<1>2. r \in 1..n /\ \A c \in Nat : IsShare(c, n, p) <=> c >= r
  BY <1>1, RankOfShare
<1> HIDE DEF r
<1>3. /\ t[r] \in Range(s) /\ t[r] \in Nat
      /\ \A v \in Nat : Cardinality(Below(s, v)) \in Nat
      /\ Cardinality(Below(s, t[r])) >= r
      /\ \A v \in Nat : v < t[r] => Cardinality(Below(s, v)) <= r - 1
  BY <1>2, RankCounts
<1>4. \A v \in Range(s) : v \in Nat
  BY DEF Range
<1>5. nearest_rank(t, p) = t[r]
  <2>1. Max({r, 1}) = r
    <3>1. r >= 1 /\ r \in Nat
      BY <1>1, <1>2
    <3>2. \A x \in {r, 1} : (\A y \in {r, 1} : x >= y) <=> x = r
      BY <3>1
    <3> QED BY <3>2 DEF Max
  <2>2. Min({r, n}) = r
    <3>1. r <= n /\ r \in Nat
      BY <1>1, <1>2
    <3>2. \A x \in {r, n} : (\A y \in {r, n} : x <= y) <=> x = r
      BY <1>1, <3>1
    <3> QED BY <3>2 DEF Min
  <2>3. t # << >>
    BY <1>1
  <2>4. nearest_rank(t, p) = t[Min({Max({r, 1}), n})]
    BY <1>1, <2>3 DEF nearest_rank, RankOf, r
  <2> QED BY <2>1, <2>2, <2>4
<1> DEFINE x == t[r]
<1>9. x \in Nat
  BY <1>3
<1> HIDE DEF t, x
<1>6. x \in C
  BY <1>2, <1>3 DEF x
<1>7. ASSUME NEW v \in C PROVE x <= v
  <2> DEFINE c == Cardinality(Below(s, v))
  <2>1. v \in Nat /\ c \in Nat /\ c >= r
    BY <1>2, <1>3, <1>4
  <2>2. r \in Nat /\ (v < x => c <= r - 1)
    BY <1>1, <1>2, <1>3, <2>1 DEF x
  <2> HIDE DEF c
  <2> QED BY <1>9, <2>1, <2>2
<1>8. Min(C) = x
  <2>1. \A y \in C : y \in Nat
    BY <1>4
  <2> HIDE DEF C
  <2>2. \A y \in C : (\A z \in C : y <= z) => y = x
    BY <1>6, <1>7, <1>9, <2>1
  <2> QED BY <1>6, <1>7, <2>2 DEF Min
<1> QED BY <1>5, <1>8 DEF t, x

\* A percentile of the report is the smallest sample that the share of all
\* samples does not exceed, however many there are and in whatever order they
\* came (LatencyRecorder::summary, nearest_rank).
THEOREM PercentilesReported == UdpSpec => []LatencyReport
<1>1. UdpInit => SamplesInv
  BY SamplesInitially
<1>2. SamplesInv /\ [UdpNext]_udpVars => SamplesInv'
  BY SamplesStep
<1>3. SamplesInv => LatencyReport
  <2>1. ASSUME SamplesInv, NEW p \in {<<1, 2>>, <<95, 100>>, <<99, 100>>}, Len(samples_ns_) > 0
        PROVE  Percentile(p)
                 = Min({v \in Range(samples_ns_) :
                          p[2] * Cardinality({i \in 1..Len(samples_ns_) : samples_ns_[i] <= v})
                            >= p[1] * Len(samples_ns_)})
    BY <2>1, NearestRank DEF SamplesInv, Percentile, Below, IsShare, Shares
  <2> QED BY <2>1 DEF LatencyReport
<1> QED BY <1>1, <1>2, <1>3, PTL DEF UdpSpec
=============================================================================
