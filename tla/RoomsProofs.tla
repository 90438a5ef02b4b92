----------------------------- MODULE RoomsProofs ----------------------------
(***************************************************************************)
(* The components that keep players and connections in rooms, proved for   *)
(* every value of the constants.                                           *)
(*                                                                         *)
(* FrameSync, for every set of players, rooms and connections: the maps of *)
(* a room and of the component agree, and a room moves on only when every  *)
(* player it broadcasts to has an input of the same frame.                 *)
(*                                                                         *)
(* Game (the instance GM), for every order in which its components are     *)
(* registered: a connection that is gone leaves nothing behind.            *)
(*                                                                         *)
(* StateSync (the instance SS): the diffs tell subscribers what the room   *)
(* holds.                                                                  *)
(***************************************************************************)
EXTENDS Rooms, FiniteSetTheorems, TLAPS

\* What TypeOK leaves open: which rooms the maps are about.
PerRoom ==
    /\ DOMAIN players = Room /\ DOMAIN inputs = Room /\ DOMAIN frame = Room
    /\ DOMAIN snapshots = Room

IInv == RoomMapsAgree /\ PerRoom

\* What TypeOK says of one room's data.
RoomTyped(r) ==
    /\ DOMAIN players[r] \subseteq Player
    /\ \A p \in DOMAIN players[r] : players[r][p] \in Conn
    /\ DOMAIN inputs[r] \subseteq Player
    /\ \A p \in DOMAIN inputs[r] : inputs[r][p] \in Seq(Frame)
    /\ frame[r] \in Nat
    /\ snapshots[r] \subseteq Frame
    /\ Cardinality(snapshots[r]) <= KeepSnapshots
    /\ DOMAIN players[r] \subseteq DOMAIN inputs[r]

\* ... and of the rest.
RestTyped ==
    /\ rooms \subseteq Room
    /\ DOMAIN info \subseteq open \cup late
    /\ \A c \in DOMAIN info : info[c].player \in Player /\ info[c].room \in Room
    /\ mutex \in Conn \cup {Free}
    /\ pc \in [Thread -> {"idle", "submitted", "located", "broadcasting"}]
    /\ input \in [Conn -> Frame] /\ where \in [Conn -> Room \cup {NoRoom}]
    /\ open \subseteq Conn /\ late \subseteq Conn
    /\ leaving \subseteq Member /\ dying \subseteq Member

-----------------------------------------------------------------------------
\* The invariant, room by room.
LEMMA RoomByRoom == IInv <=> PerRoom /\ RestTyped /\ \A r \in Room : RoomTyped(r)
BY DEF IInv, RoomMapsAgree, TypeOK, QueuesCoverPlayers, MappedByJoin, RestTyped, RoomTyped

\* The room a method leaves alone.
LEMMA RoomKept ==
  ASSUME NEW r \in Room, RoomTyped(r),
         players'[r] = players[r], inputs'[r] = inputs[r], frame'[r] = frame[r],
         snapshots'[r] = snapshots[r]
  PROVE  RoomTyped(r)'
BY DEF RoomTyped

\* A room that is new, or gone.
LEMMA RoomEmpty ==
  ASSUME NEW r \in Room, players'[r] = Empty, inputs'[r] = Empty, frame'[r] = 0,
         snapshots'[r] = {}
  PROVE  RoomTyped(r)'
<1>1. DOMAIN Empty = {}
  BY DEF Empty
<1>2. Cardinality(snapshots'[r]) <= KeepSnapshots
  BY FS_EmptySet, FrameSyncAssumption
<1> QED  BY <1>1, <1>2 DEF RoomTyped

\* What Trim leaves of a set of frames is within the limit.
LEMMA TrimBounds ==
  ASSUME NEW s \in SUBSET Frame, NEW f \in Frame,
         Cardinality(s) <= KeepSnapshots, NEW u \in Trim(s \cup {f})
  PROVE  u \subseteq Frame /\ Cardinality(u) <= KeepSnapshots
<1>1. IsFiniteSet(s) /\ IsFiniteSet(s \cup {f})
  <2>1. IsFiniteSet(Frame)
    BY FS_Interval, FrameSyncAssumption DEF Frame
  <2>2. QED  BY <2>1, FS_Subset
<1>2. /\ Cardinality(s) \in Nat /\ Cardinality(s \cup {f}) \in Nat
      /\ Cardinality(s \cup {f}) <= Cardinality(s) + 1
  BY <1>1, FS_CardinalityType, FS_AddElement
<1>3. ASSUME NEW g \in s \cup {f}, u = (s \cup {f}) \ {g}
      PROVE  Cardinality(u) <= KeepSnapshots
  <2>1. Cardinality(u) = Cardinality(s \cup {f}) - 1
    BY <1>1, <1>3, FS_RemoveElement
  <2>2. QED  BY <1>2, <2>1, FrameSyncAssumption
<1>4. CASE Cardinality(s \cup {f}) <= KeepSnapshots
  BY <1>4 DEF Trim
<1>5. CASE ~(Cardinality(s \cup {f}) <= KeepSnapshots)
  <2>1. PICK g \in s \cup {f} : u = (s \cup {f}) \ {g}
    BY <1>5 DEF Trim
  <2>2. QED  BY <1>3, <2>1
<1> QED  BY <1>4, <1>5

\* The component before its first room.
LEMMA InitSound == Init => IInv
<1> SUFFICES ASSUME Init PROVE IInv
  OBVIOUS
<1>1. DOMAIN Empty = {}
  BY DEF Empty
<1>2. Cardinality({}) <= KeepSnapshots
  BY FS_EmptySet, FrameSyncAssumption
<1>3. PerRoom
  BY DEF Init, PerRoom
<1>4. RestTyped
  BY <1>1, FrameSyncAssumption DEF Init, RestTyped, Frame, Thread
<1>5. \A r \in Room : RoomTyped(r)
  BY <1>1, <1>2 DEF Init, RoomTyped
<1> QED  BY <1>3, <1>4, <1>5, RoomByRoom

-----------------------------------------------------------------------------
\* One step and the rest of the component's state.
LEMMA RestStep == ASSUME RestTyped, PerRoom, Next PROVE RestTyped'
<1> USE DEF RestTyped, connVars
<1>1. ASSUME NEW r \in Room, create_room(r) \/ destroy_room(r)
      PROVE  RestTyped'
  BY <1>1 DEF create_room, destroy_room, RemoveRoom, handlerVars, leaveVars
<1>2. ASSUME NEW p \in Player, NEW r \in Room, LeaveSection(p, r), leaving' \subseteq leaving
      PROVE  RestTyped'
  <2>1. dying' \subseteq Member
    BY <1>2 DEF LeaveSection, Member
  <2>2. /\ DOMAIN info' \subseteq DOMAIN info
        /\ \A c \in DOMAIN info' : info'[c] = info[c]
    BY <1>2 DEF LeaveSection
  <2>3. QED  BY <1>2, <2>1, <2>2 DEF LeaveSection, handlerVars
<1>3. ASSUME NEW p \in Player, NEW r \in Room, leave_room(p, r) \/ LeaveStep(p, r)
      PROVE  RestTyped'
  BY <1>2, <1>3 DEF leave_room, LeaveStep, LeaveOnDisconnect, LeaveDestroys, RemoveRoom, handlerVars
<1>4. ASSUME NEW p \in Player, NEW r \in Room, NEW c \in Conn, join_room(p, r, c)
      PROVE  RestTyped'
  <2>1. /\ DOMAIN info' = DOMAIN info \cup {c}
        /\ info'[c] = [player |-> p, room |-> r]
        /\ \A d \in DOMAIN info : d # c => info'[d] = info[d]
    BY <1>4 DEF join_room, Set
  <2>2. QED  BY <1>4, <2>1 DEF join_room, handlerVars, leaveVars
<1>5. ASSUME NEW c \in Conn, on_disconnect(c)
      PROVE  RestTyped'
  <2>1. DOMAIN info' = DOMAIN info \ {c} /\ \A d \in DOMAIN info' : info'[d] = info[d]
    BY <1>5 DEF on_disconnect, Erase
  <2>2. leaving' \subseteq Member
    BY <1>5 DEF on_disconnect, Member
  <2>3. QED  BY <1>5, <2>1, <2>2 DEF on_disconnect, handlerVars, roomVars
<1>6. ASSUME NEW t \in Thread, broadcast_frame_state(t)
      PROVE  RestTyped'
  BY <1>6 DEF broadcast_frame_state, roomVars, leaveVars
<1>7. ASSUME NEW c \in Conn, HandlerStep(c)
      PROVE  RestTyped'
  <2>1. CASE get_room_id(c)
    BY <2>1 DEF get_room_id, roomVars, leaveVars, Thread
  <2>2. CASE CheckReady(c)
    BY <2>2 DEF CheckReady, leaveVars, Thread
  <2>3. QED  BY <1>6, <1>7, <2>1, <2>2 DEF HandlerStep, Thread
<1>8. ASSUME NEW c \in Conn, NEW p \in Player, NEW f \in Frame, submit_input(c, p, f)
      PROVE  RestTyped'
  BY <1>8 DEF submit_input, leaveVars, Thread
<1>9. ASSUME NEW r \in Room, NEW f \in Frame, create_snapshot(r, f)
      PROVE  RestTyped'
  BY <1>9 DEF create_snapshot, handlerVars, leaveVars
<1>10. CASE CallBroadcast
  BY <1>10 DEF CallBroadcast, roomVars, leaveVars, Thread
<1> QED
  BY <1>1, <1>3, <1>4, <1>5, <1>6, <1>7, <1>8, <1>9, <1>10 DEF Next, Thread

\* One step and what is kept of one room.
LEMMA RoomStep ==
  ASSUME RestTyped, PerRoom, NEW q \in Room, RoomTyped(q), Next
  PROVE  RoomTyped(q)'
<1>1. ASSUME UNCHANGED roomVars PROVE RoomTyped(q)'
  BY <1>1, RoomKept DEF roomVars
<1>2. ASSUME NEW r \in Room, RemoveRoom(r) PROVE RoomTyped(q)'
  BY <1>2, RoomKept, RoomEmpty DEF RemoveRoom, PerRoom
<1>3. ASSUME NEW r \in Room, create_room(r) \/ destroy_room(r)
      PROVE  RoomTyped(q)'
  BY <1>2, <1>3, RoomKept, RoomEmpty DEF create_room, destroy_room, PerRoom
<1>4. ASSUME NEW p \in Player, NEW r \in Room, LeaveSection(p, r)
      PROVE  RoomTyped(q)'
  <2>1. CASE r \in rooms /\ q = r
    <3>1. /\ players'[q] = Erase(players[q], p) /\ inputs'[q] = Erase(inputs[q], p)
          /\ frame' = frame /\ snapshots' = snapshots
      BY <1>4, <2>1 DEF LeaveSection, PerRoom
    <3>2. QED  BY <3>1 DEF RoomTyped, Erase
  <2>2. CASE ~(r \in rooms /\ q = r)
    BY <1>4, <2>2, RoomKept DEF LeaveSection, PerRoom
  <2>3. QED  BY <2>1, <2>2
<1>5. ASSUME NEW p \in Player, NEW r \in Room, leave_room(p, r) \/ LeaveStep(p, r)
      PROVE  RoomTyped(q)'
  BY <1>2, <1>4, <1>5 DEF leave_room, LeaveStep, LeaveOnDisconnect, LeaveDestroys
<1>6. ASSUME NEW p \in Player, NEW r \in Room, NEW c \in Conn, join_room(p, r, c)
      PROVE  RoomTyped(q)'
  <2>1. CASE q = r
    <3>1. /\ players'[q] = Set(players[q], p, c) /\ inputs'[q] = Set(inputs[q], p, <<>>)
          /\ frame' = frame /\ snapshots' = snapshots
      BY <1>6, <2>1 DEF join_room, PerRoom
    <3>2. QED  BY <3>1 DEF RoomTyped, Set
  <2>2. CASE q # r
    BY <1>6, <2>2, RoomKept DEF join_room, PerRoom
  <2>3. QED  BY <2>1, <2>2
<1>7. ASSUME NEW c \in Conn, on_disconnect(c) \/ get_room_id(c)
      PROVE  RoomTyped(q)'
  BY <1>1, <1>7 DEF on_disconnect, get_room_id
<1>8. ASSUME NEW t \in Thread, broadcast_frame_state(t)
      PROVE  RoomTyped(q)'
  BY <1>1, <1>8 DEF broadcast_frame_state
<1>9. ASSUME NEW c \in Conn, CheckReady(c)
      PROVE  RoomTyped(q)'
  <2>1. /\ frame'[q] \in Nat
        /\ players' = players /\ inputs' = inputs /\ snapshots' = snapshots
    BY <1>9 DEF CheckReady, PerRoom, RoomTyped
  <2>2. QED  BY <2>1 DEF RoomTyped
<1>10. ASSUME NEW c \in Conn, NEW p \in Player, NEW f \in Frame, submit_input(c, p, f)
       PROVE  RoomTyped(q)'
  <2>1. CASE inputs' = inputs
    BY <1>10, <2>1, RoomKept DEF submit_input
  <2>2. ASSUME NEW r \in RoomsOf(p), NEW queue,
               queue = (IF p \in DOMAIN inputs[r] THEN inputs[r][p] ELSE <<>>),
               inputs' = [inputs EXCEPT ![r] = Set(@, p, Append(queue, f))]
        PROVE  RoomTyped(q)'
    <3>1. CASE q = r
      <4>1. queue \in Seq(Frame)
        BY <2>2, <3>1 DEF RoomTyped
      <4>2. PICK line \in Seq(Frame) : line = Append(queue, f)
        <5>1. Append(queue, f) \in Seq(Frame)
          BY <4>1
        <5>2. QED  BY <5>1
      <4>3. inputs'[q] = Set(inputs[q], p, line)
        BY <2>2, <3>1, <4>2 DEF PerRoom
      <4>4. /\ DOMAIN inputs'[q] = DOMAIN inputs[q] \cup {p}
            /\ inputs'[q][p] = line
            /\ \A x \in DOMAIN inputs[q] : x # p => inputs'[q][x] = inputs[q][x]
        BY <4>3 DEF Set
      <4>5. \A x \in DOMAIN inputs'[q] : inputs'[q][x] \in Seq(Frame)
        BY <4>2, <4>4 DEF RoomTyped
      <4>6. QED  BY <1>10, <4>4, <4>5 DEF submit_input, RoomTyped
    <3>2. CASE q # r
      BY <1>10, <2>2, <3>2, RoomKept DEF submit_input, PerRoom
    <3>3. QED  BY <3>1, <3>2
  <2>3. QED  BY <1>10, <2>1, <2>2 DEF submit_input
<1>11. ASSUME NEW r \in Room, NEW f \in Frame, create_snapshot(r, f)
       PROVE  RoomTyped(q)'
  <2>1. PICK s \in Trim(snapshots[r] \cup {f}) : snapshots' = [snapshots EXCEPT ![r] = s]
    BY <1>11 DEF create_snapshot
  <2>2. CASE q = r
    <3>1. s \subseteq Frame /\ Cardinality(s) <= KeepSnapshots
      <4>1. /\ snapshots[q] \in SUBSET Frame
            /\ Cardinality(snapshots[q]) <= KeepSnapshots
        BY DEF RoomTyped
      <4>2. s \in Trim(snapshots[q] \cup {f})
        BY <2>2
      <4>3. QED  BY <4>1, <4>2, TrimBounds
    <3>2. /\ snapshots'[q] = s
          /\ players' = players /\ inputs' = inputs /\ frame' = frame
      BY <1>11, <2>1, <2>2 DEF create_snapshot, PerRoom
    <3>3. QED  BY <3>1, <3>2 DEF RoomTyped
  <2>3. CASE q # r
    BY <1>11, <2>1, <2>3, RoomKept DEF create_snapshot, PerRoom
  <2>4. QED  BY <2>2, <2>3
<1>12. CASE CallBroadcast
  BY <1>1, <1>12 DEF CallBroadcast
<1> QED
  BY <1>3, <1>5, <1>6, <1>7, <1>8, <1>9, <1>10, <1>11, <1>12 DEF Next, HandlerStep, Thread

\* The maps stay maps of rooms.
LEMMA PerRoomStep == ASSUME PerRoom, Next PROVE PerRoom'
<1> USE DEF PerRoom, roomVars
<1>1. ASSUME NEW p, NEW r, leave_room(p, r) \/ LeaveStep(p, r)
      PROVE  PerRoom'
  BY <1>1 DEF leave_room, LeaveStep, LeaveOnDisconnect, LeaveDestroys, LeaveSection, RemoveRoom
<1>2. ASSUME NEW r, create_room(r) \/ destroy_room(r)
      PROVE  PerRoom'
  BY <1>2 DEF create_room, destroy_room, RemoveRoom
<1>3. ASSUME NEW c, on_disconnect(c) \/ HandlerStep(c)
      PROVE  PerRoom'
  BY <1>3 DEF on_disconnect, HandlerStep, get_room_id, CheckReady, broadcast_frame_state
<1>4. ASSUME NEW p, NEW r, NEW c, join_room(p, r, c)
      PROVE  PerRoom'
  BY <1>4 DEF join_room
<1>5. ASSUME NEW c, NEW p, NEW f, submit_input(c, p, f)
      PROVE  PerRoom'
  BY <1>5 DEF submit_input
<1>6. ASSUME NEW r, NEW f, create_snapshot(r, f)
      PROVE  PerRoom'
  BY <1>6 DEF create_snapshot
<1>7. CASE CallBroadcast \/ broadcast_frame_state(App)
  BY <1>7 DEF CallBroadcast, broadcast_frame_state
<1> QED  BY <1>1, <1>2, <1>3, <1>4, <1>5, <1>6, <1>7 DEF Next

\* Every step keeps the invariant.
LEMMA StepSound == IInv /\ [Next]_vars => IInv'
<1> SUFFICES ASSUME IInv, [Next]_vars PROVE IInv'
  OBVIOUS
<1>1. PerRoom /\ RestTyped /\ \A r \in Room : RoomTyped(r)
  BY RoomByRoom
<1>2. CASE Next
  <2>1. PerRoom' /\ RestTyped' /\ \A r \in Room : RoomTyped(r)'
    BY <1>1, <1>2, RestStep, RoomStep, PerRoomStep
  <2>2. QED
    BY <2>1 DEF IInv, RoomMapsAgree, TypeOK, QueuesCoverPlayers, MappedByJoin, RestTyped, RoomTyped
<1>3. CASE UNCHANGED vars
  <2>1. PerRoom' /\ RestTyped' /\ \A r \in Room : RoomTyped(r)'
    BY <1>1, <1>3 DEF vars, roomVars, handlerVars, connVars, leaveVars, PerRoom, RestTyped, RoomTyped
  <2>2. QED
    BY <2>1 DEF IInv, RoomMapsAgree, TypeOK, QueuesCoverPlayers, MappedByJoin, RestTyped, RoomTyped
<1> QED  BY <1>2, <1>3

\* The maps of a room and of the component agree after any interleaving of
\* joins, leaves, inputs and disconnects (frame_sync.cpp).
THEOREM RoomsStayConsistent == Spec => []RoomMapsAgree
<1>1. IInv => RoomMapsAgree
  BY DEF IInv
<1> QED  BY InitSound, StepSound, <1>1, PTL DEF Spec

\* A step that moves a room on is the last section of handle_frame_input.
LEMMA AdvanceIsCheck ==
  ASSUME IInv, Next, NEW r \in Room, frame'[r] > frame[r]
  PROVE  \E c \in Conn : /\ CheckReady(c) /\ where[c] = r
                         /\ all_inputs_ready(r, input[c])
<1>0. frame[r] \in Nat /\ PerRoom /\ RestTyped
  BY RoomByRoom DEF RoomTyped
<1>1. ASSUME frame'[r] = frame[r] \/ frame'[r] = 0 PROVE FALSE
  BY <1>0, <1>1
<1>2. PICK c \in Conn : CheckReady(c)
  <2>1. ASSUME NEW q \in Room, create_room(q) \/ destroy_room(q) PROVE FALSE
    BY <1>0, <1>1, <2>1 DEF create_room, destroy_room, RemoveRoom, PerRoom
  <2>2. ASSUME NEW p \in Player, NEW q \in Room, leave_room(p, q) \/ LeaveStep(p, q) PROVE FALSE
    BY <1>0, <1>1, <2>2
       DEF leave_room, LeaveStep, LeaveOnDisconnect, LeaveDestroys, LeaveSection, RemoveRoom, PerRoom
  <2>3. ASSUME NEW p, NEW q, NEW c, join_room(p, q, c) \/ submit_input(c, p, q) PROVE FALSE
    BY <1>1, <2>3 DEF join_room, submit_input
  <2>4. ASSUME NEW c, on_disconnect(c) \/ get_room_id(c) \/ broadcast_frame_state(c) PROVE FALSE
    BY <1>1, <2>4 DEF on_disconnect, get_room_id, broadcast_frame_state, roomVars
  <2>5. ASSUME NEW q, NEW f, create_snapshot(q, f) PROVE FALSE
    BY <1>1, <2>5 DEF create_snapshot
  <2>6. ~CallBroadcast
    BY <1>1 DEF CallBroadcast, roomVars
  <2>7. QED  BY <2>1, <2>2, <2>3, <2>4, <2>5, <2>6 DEF Next, HandlerStep
<1>3. where[c] = r /\ all_inputs_ready(where[c], input[c])
  BY <1>0, <1>1, <1>2 DEF CheckReady, PerRoom
<1> QED  BY <1>2, <1>3

\* A room moves on only when every player it broadcasts to has sent an input,
\* and the first ones are all of the same frame (handle_frame_input).
THEOREM NobodySkipped == Spec => AdvanceNeedsEveryPlayer
<1> DEFINE Advance(r) ==
      /\ \A p \in DOMAIN players[r] : inputs[r][p] # <<>>
      /\ \A p, q \in DOMAIN players[r] : Head(inputs[r][p]) = Head(inputs[r][q])
<1>1. ASSUME IInv, Next, NEW r \in Room, frame'[r] > frame[r]
      PROVE  Advance(r)
  <2>1. PICK c \in Conn : all_inputs_ready(r, input[c])
    BY <1>1, AdvanceIsCheck
  <2>2. DOMAIN players[r] \subseteq DOMAIN inputs[r]
    BY <1>1, RoomByRoom DEF RoomTyped
  <2>3. QED  BY <2>1, <2>2 DEF all_inputs_ready
<1>2. ASSUME IInv, [Next]_vars
      PROVE  [\A r \in Room : frame'[r] > frame[r] => Advance(r)]_vars
  BY <1>1, <1>2
<1> QED  BY <1>2, InitSound, StepSound, PTL DEF Spec, AdvanceNeedsEveryPlayer

-----------------------------------------------------------------------------
(* The game components.                                                    *)

Session == [player : PlayerId \cup {"none"}, room : RoomId \cup {"none"}]
Step == [do : GM!Doing, room : RoomId \cup {"none"}, lost : BOOLEAN, at : 0..Len(Order)]

\* The connection is a member of room r.
In(c, r) == gameRooms[r] # GM!NoRoom /\ c \in gameRooms[r]

\* dispatch_disconnect has been through the component.
Past(c, component) ==
    \/ step[c].do = "closed"
    \/ \E i \in 1..(step[c].at - 1) : Order[i] = component

\* Joins are handled before the disconnect, with a room in hand that is there
\* unless its loss is known; a disconnect is at some component, and the part of
\* leave_room that it calls belongs to RoomComponent.
Shaped(c) ==
    /\ step[c].do \in {"create", "insert", "record"} => step[c].at = 0
    /\ step[c].do = "create" => ~step[c].lost
    /\ step[c].do = "disconnect" => step[c].at # 0
    /\ step[c].do \in {"erase", "unmap", "sweep"} /\ step[c].at # 0 => Order[step[c].at] = "RoomComponent"
    /\ step[c].do = "insert" /\ ~step[c].lost => gameRooms[step[c].room] # GM!NoRoom

\* What a connection leaves behind, component by component, and within leave_room.
Cleaned(c) ==
    /\ Past(c, "SessionManager") => sessions[c] = GM!NoSession
    /\ Past(c, "RoomComponent") => c \notin connections_map /\ \A r \in RoomId : ~In(c, r)
    /\ step[c].do \in {"unmap", "sweep"} => \A r \in RoomId : ~In(c, r)
    /\ step[c].do = "sweep" => c \notin connections_map

\* Somebody is about to enter an empty room or to delete it.
Tended(r) == gameRooms[r] = {} => GM!Entering(r) # {} \/ GM!Sweeping # {}

GameInv ==
    /\ GM!TypeOK
    /\ \A c \in Conn : Shaped(c) /\ Cleaned(c)
    /\ \A r \in RoomId : Tended(r)

\* The records a read loop's state is made of.
LEMMA ReadingFields ==
  /\ GM!Reading.do = "read" /\ GM!Reading.at = 0 /\ GM!Done.do = "closed"
  /\ Len(Order) \in Nat => GM!Reading \in Step /\ GM!Done \in Step
BY DEF GM!Reading, GM!Done, GM!Loop, Step, GM!Doing

LEMMA GameTypes ==
  ASSUME GM!TypeOK, GM!GameAssumption
  PROVE  /\ sessions \in [Conn -> Session] /\ step \in [Conn -> Step]
         /\ DOMAIN gameRooms = RoomId
         /\ \A r \in RoomId : gameRooms[r] = GM!NoRoom \/ gameRooms[r] \subseteq Conn
         /\ connections_map \subseteq Conn
         /\ positions \in [PlayerId -> Where \cup {GM!NoWhere}]
         /\ \A c \in Conn : step[c].do \in {"create", "insert", "record"} => step[c].room \in RoomId
         /\ Len(Order) \in Nat \ {0} /\ "none" \notin PlayerId /\ "absent" \notin Conn
<1>1. Order \in Seq(STRING) /\ \E i \in 1..Len(Order) : TRUE
  BY DEF GM!GameAssumption
<1>2. Len(Order) \in Nat \ {0}
  BY <1>1
<1> QED  BY <1>2 DEF GM!TypeOK, GM!GameAssumption, Session, Step

\* Every component that matters is passed when the disconnect is through.
LEMMA GhostsFromInv == GameInv => GM!TypeOK /\ GM!NoGhosts
<1> SUFFICES ASSUME GameInv PROVE GM!NoGhosts
  BY DEF GameInv
<1>1. ASSUME NEW c \in Conn, step[c] = GM!Done
      PROVE  /\ sessions[c] = GM!NoSession /\ c \notin connections_map
             /\ \A r \in RoomId : ~In(c, r)
  <2>1. step[c].do = "closed"
    BY <1>1 DEF GM!Done, GM!Loop
  <2>2. Past(c, "SessionManager") /\ Past(c, "RoomComponent")
    BY <2>1 DEF Past
  <2>3. QED  BY <2>2 DEF GameInv, Cleaned
<1> QED  BY <1>1 DEF GM!NoGhosts, In, GameInv, Tended

\* Nobody is connected to anything yet.
LEMMA GameInit == ASSUME GM!GameAssumption PROVE GM!Init => GameInv
<1> SUFFICES ASSUME GM!Init PROVE GameInv
  OBVIOUS
<1>0. Len(Order) \in Nat
  <2>1. Order \in Seq(STRING)  BY DEF GM!GameAssumption
  <2>2. QED  BY <2>1
<1>1. \A c \in Conn : step[c] = GM!Reading /\ step[c].do = "read" /\ step[c].at = 0
  BY DEF GM!Init, GM!Reading, GM!Loop
<1>2. GM!Reading \in [do : GM!Doing, room : RoomId \cup {"none"}, lost : BOOLEAN, at : 0..Len(Order)]
  BY <1>0 DEF GM!Reading, GM!Loop, GM!Doing
<1>3. GM!TypeOK
  BY <1>1, <1>2 DEF GM!Init, GM!TypeOK, GM!NoSession, GM!NoWhere
<1>4. \A c \in Conn : Shaped(c) /\ Cleaned(c)
  BY <1>1 DEF Shaped, Cleaned, Past
<1>5. \A r \in RoomId : Tended(r)
  BY DEF GM!Init, GM!NoRoom, Tended
<1> QED  BY <1>3, <1>4, <1>5 DEF GameInv

\* What a step of one read loop leaves of the others.
Untouched(d) ==
    /\ sessions'[d] = sessions[d]
    /\ step'[d].do = step[d].do /\ step'[d].at = step[d].at
    /\ step'[d].do = "create" => step'[d].lost = step[d].lost
    /\ step'[d].do = "insert" /\ ~step'[d].lost =>
          /\ step'[d].room = step[d].room /\ ~step[d].lost
          /\ gameRooms[step[d].room] # GM!NoRoom => gameRooms'[step[d].room] # GM!NoRoom
    /\ d \in connections_map' => d \in connections_map
    /\ \A r \in RoomId : In(d, r)' => In(d, r)

LEMMA OthersKept ==
  ASSUME NEW d \in Conn, Shaped(d), Cleaned(d), Untouched(d)
  PROVE  Shaped(d)' /\ Cleaned(d)'
<1>1. \A x : Past(d, x)' <=> Past(d, x)
  BY DEF Past, Untouched
<1>2. Cleaned(d)'
  <2>1. Past(d, "SessionManager")' => sessions'[d] = GM!NoSession
    BY <1>1 DEF Cleaned, Untouched
  <2>2. Past(d, "RoomComponent")' => d \notin connections_map' /\ \A r \in RoomId : ~In(d, r)'
    BY <1>1 DEF Cleaned, Untouched
  <2>3. /\ step'[d].do \in {"unmap", "sweep"} => \A r \in RoomId : ~In(d, r)'
        /\ step'[d].do = "sweep" => d \notin connections_map'
    BY DEF Cleaned, Untouched
  <2>4. QED  BY <2>1, <2>2, <2>3 DEF Cleaned
<1>3. Shaped(d)'
  BY DEF Shaped, Untouched
<1> QED  BY <1>2, <1>3

\* An empty room that stays empty, and those who enter it or sweep.
LEMMA TendedKept ==
  ASSUME NEW r \in RoomId, Tended(r), gameRooms'[r] = {} => gameRooms[r] = {},
         \A d \in Conn : d \in GM!Entering(r) => d \in GM!Entering(r)',
         \A d \in Conn : d \in GM!Sweeping => d \in GM!Sweeping'
  PROVE  Tended(r)'
<1>1. GM!Entering(r) \subseteq Conn /\ GM!Sweeping \subseteq Conn
  BY DEF GM!Entering, GM!Sweeping
<1> QED  BY <1>1 DEF Tended

\* A step that leaves the rooms alone, by a loop that does not enter or sweep.
LEMMA QuietStep ==
  ASSUME GameInv, GM!GameAssumption, NEW c \in Conn, gameRooms' = gameRooms, GM!TypeOK',
         \A d \in Conn \ {c} : step'[d] = step[d] /\ sessions'[d] = sessions[d],
         connections_map' = connections_map,
         step[c].do \notin {"insert", "unmap", "sweep"},
         Shaped(c)', Cleaned(c)'
  PROVE  GameInv'
<1>1. ASSUME NEW d \in Conn PROVE Shaped(d)' /\ Cleaned(d)'
  <2>1. CASE d # c
    <3>1. Untouched(d)
      BY <2>1 DEF Untouched, In
    <3>2. QED  BY <3>1, OthersKept DEF GameInv
  <2>2. QED  BY <2>1
<1>2. ASSUME NEW r \in RoomId PROVE Tended(r)'
  <2>1. Tended(r)
    BY DEF GameInv
  <2>2. \A d \in Conn : d \in GM!Entering(r) => d \in GM!Entering(r)'
    BY DEF GM!Entering
  <2>3. \A d \in Conn : d \in GM!Sweeping => d \in GM!Sweeping'
    BY DEF GM!Sweeping
  <2>4. QED  BY <2>1, <2>2, <2>3, TendedKept
<1> QED  BY <1>1, <1>2 DEF GameInv

\* Messages that change a session or a position, and the end of a join.
LEMMA MessageStep ==
  ASSUME GM!GameAssumption, GameInv, NEW c \in Conn,
         \/ \E p \in PlayerId : GM!handle_login(c, p)
         \/ GM!logout(c) \/ GM!JoinRecord(c)
         \/ \E w \in Where : GM!handle_player_move(c, w)
  PROVE  GameInv'
<1>0. /\ sessions \in [Conn -> Session] /\ step \in [Conn -> Step]
      /\ positions \in [PlayerId -> Where \cup {GM!NoWhere}] /\ GM!TypeOK /\ Shaped(c)
      /\ step[c].do \in {"create", "insert", "record"} => step[c].room \in RoomId
      /\ Len(Order) \in Nat
  BY GameTypes DEF GameInv
<1>1. /\ gameRooms' = gameRooms /\ connections_map' = connections_map
      /\ \A d \in Conn \ {c} : step'[d] = step[d] /\ sessions'[d] = sessions[d]
  BY <1>0 DEF GM!handle_login, GM!logout, GM!JoinRecord, GM!handle_player_move
<1>2. step'[c] = GM!Reading /\ step[c].do \in {"read", "record"}
  BY <1>0, ReadingFields DEF GM!handle_login, GM!logout, GM!JoinRecord, GM!handle_player_move
<1>3. step'[c].do = "read" /\ step'[c].at = 0 /\ step'[c] \in Step
  BY <1>0, <1>2, ReadingFields
<1>4. Shaped(c)' /\ Cleaned(c)'
  BY <1>3 DEF Shaped, Cleaned, Past
<1>5. sessions' \in [Conn -> Session]
  <2>1. GM!NoSession \in Session
    BY DEF GM!NoSession, Session
  <2>2. QED
    BY <1>0, <2>1 DEF GM!handle_login, GM!logout, GM!JoinRecord, GM!handle_player_move, Session
<1>6. step' \in [Conn -> Step]
  BY <1>0, <1>3 DEF GM!handle_login, GM!logout, GM!JoinRecord, GM!handle_player_move
<1>7. positions' \in [PlayerId -> Where \cup {GM!NoWhere}]
  BY <1>0 DEF GM!handle_login, GM!logout, GM!JoinRecord, GM!handle_player_move, GM!LoggedIn, Session
<1>8. GM!TypeOK'
  <2>1. \A d \in Conn : step'[d].do \in {"create", "insert", "record"} => step'[d].room \in RoomId
    BY <1>0, <1>1, <1>3 DEF GM!TypeOK
  <2>2. QED  BY <1>0, <1>1, <1>5, <1>6, <1>7, <2>1 DEF GM!TypeOK, Session, Step
<1> QED  BY <1>1, <1>2, <1>4, <1>8, QuietStep

\* A join: the lookup, the creation, the insertion.
LEMMA JoinStep ==
  ASSUME GM!GameAssumption, GameInv, NEW c \in Conn,
         (\E r \in RoomId : GM!JoinFind(c, r)) \/ GM!JoinCreate(c) \/ GM!JoinInsert(c)
  PROVE  GameInv'
<1>0. /\ sessions \in [Conn -> Session] /\ step \in [Conn -> Step] /\ DOMAIN gameRooms = RoomId
      /\ \A r \in RoomId : gameRooms[r] = GM!NoRoom \/ gameRooms[r] \subseteq Conn
      /\ connections_map \subseteq Conn
      /\ positions \in [PlayerId -> Where \cup {GM!NoWhere}]
      /\ \A d \in Conn : step[d].do \in {"create", "insert", "record"} => step[d].room \in RoomId
      /\ "absent" \notin Conn /\ GM!TypeOK
      /\ \A d \in Conn : Shaped(d) /\ Cleaned(d)
      /\ \A r \in RoomId : Tended(r)
  BY GameTypes DEF GameInv
<1>1. ASSUME NEW r \in RoomId, GM!JoinFind(c, r)
      PROVE  GameInv'
  <2>0. step[c] = GM!Reading /\ step[c].do = "read" /\ step[c].at = 0 /\ GM!Reading \in Step
    BY <1>0, <1>1, ReadingFields DEF GM!JoinFind
  <2>1. /\ gameRooms' = gameRooms /\ connections_map' = connections_map
        /\ sessions' = sessions /\ positions' = positions
        /\ \A d \in Conn \ {c} : step'[d] = step[d]
        /\ step'[c].do \in {"create", "insert"} /\ step'[c].room = r /\ step'[c].at = 0
        /\ ~step'[c].lost /\ step' \in [Conn -> Step]
        /\ step'[c].do = "insert" => gameRooms[r] # GM!NoRoom
    BY <1>0, <1>1, <2>0 DEF GM!JoinFind, GM!Reading, GM!Loop, Step, GM!Doing
  <2>2. Shaped(c)' /\ Cleaned(c)'
    BY <2>1 DEF Shaped, Cleaned, Past
  <2>3. GM!TypeOK'
    <3>1. \A d \in Conn : step'[d].do \in {"create", "insert", "record"} => step'[d].room \in RoomId
      BY <1>0, <2>1
    <3>2. QED  BY <1>0, <2>1, <3>1 DEF GM!TypeOK, Step
  <2>4. QED  BY <2>0, <2>1, <2>2, <2>3, QuietStep
<1>2. CASE GM!JoinCreate(c)
  <2>0. PICK q \in RoomId : step[c].room = q /\ step[c].do = "create" /\ ~step[c].lost /\ step[c].at = 0
    BY <1>0, <1>2 DEF GM!JoinCreate, Shaped
  <2>1. /\ gameRooms' = [gameRooms EXCEPT ![q] = {}]
        /\ sessions' = sessions /\ connections_map' = connections_map /\ positions' = positions
        /\ step' = [GM!Losing({q}) EXCEPT ![c].do = "insert"]
    BY <1>2, <2>0 DEF GM!JoinCreate
  <2>2. GM!Losing({q}) \in [Conn -> Step]
    BY <1>0 DEF GM!Losing, Step
  <2>3. /\ step' \in [Conn -> Step] /\ step'[c].do = "insert" /\ step'[c].room = q
        /\ ~step'[c].lost /\ step'[c].at = 0
    <3>1. /\ GM!Losing({q})[c].room = q /\ ~GM!Losing({q})[c].lost /\ GM!Losing({q})[c].at = 0
      BY <1>0, <2>0 DEF GM!Losing, Step
    <3>2. QED  BY <2>1, <2>2, <3>1 DEF Step, GM!Doing
  <2>4. ASSUME NEW d \in Conn \ {c}
        PROVE  /\ step'[d].do = step[d].do /\ step'[d].room = step[d].room /\ step'[d].at = step[d].at
               /\ step[d].lost => step'[d].lost
               /\ step[d].do # "insert" \/ step[d].room # q => step'[d].lost = step[d].lost
    <3>1. step'[d] = GM!Losing({q})[d]
      BY <2>1, <2>2
    <3>2. step[d] \in Step
      BY <1>0
    <3>3. QED  BY <3>1, <3>2 DEF GM!Losing, Step
  <2>5. ASSUME NEW r \in RoomId
        PROVE  /\ gameRooms'[r] = GM!NoRoom \/ gameRooms'[r] \subseteq Conn
               /\ gameRooms[r] # GM!NoRoom => gameRooms'[r] # GM!NoRoom
               /\ \A d \in Conn : In(d, r)' => In(d, r)
    BY <1>0, <2>1 DEF In, GM!NoRoom
  <2>6. GM!TypeOK'
    <3>1. \A d \in Conn : step'[d].do \in {"create", "insert", "record"} => step'[d].room \in RoomId
      BY <1>0, <2>3, <2>4
    <3>2. DOMAIN gameRooms' = RoomId
      BY <1>0, <2>1
    <3>3. QED  BY <1>0, <2>1, <2>3, <2>5, <3>1, <3>2 DEF GM!TypeOK, Step
  <2>7. ASSUME NEW d \in Conn PROVE Shaped(d)' /\ Cleaned(d)'
    <3>1. CASE d = c
      <4>1. gameRooms'[q] # GM!NoRoom
        BY <1>0, <2>1 DEF GM!NoRoom
      <4>2. QED  BY <2>3, <3>1, <4>1 DEF Shaped, Cleaned, Past
    <3>2. CASE d # c
      <4>1. step[d].do = "insert" => step[d].room \in RoomId
        BY <1>0
      <4>2. Untouched(d)
        BY <2>1, <2>4, <2>5, <3>2, <4>1 DEF Untouched
      <4>3. QED  BY <1>0, <4>2, OthersKept
    <3>3. QED  BY <3>1, <3>2
  <2>8. ASSUME NEW r \in RoomId PROVE Tended(r)'
    <3>1. CASE r = q
      <4>1. c \in GM!Entering(r)'
        BY <2>3, <3>1 DEF GM!Entering
      <4>2. QED  BY <4>1 DEF Tended
    <3>2. CASE r # q
      <4>1. gameRooms'[r] = gameRooms[r]
        BY <1>0, <2>1, <3>2
      <4>2. \A d \in Conn : d \in GM!Entering(r) => d \in GM!Entering(r)'
        BY <2>0, <2>4, <3>2 DEF GM!Entering
      <4>3. \A d \in Conn : d \in GM!Sweeping => d \in GM!Sweeping'
        BY <2>0, <2>4 DEF GM!Sweeping
      <4>4. QED  BY <1>0, <4>1, <4>2, <4>3, TendedKept
    <3>3. QED  BY <3>1, <3>2
  <2>9. QED  BY <2>6, <2>7, <2>8 DEF GameInv
<1>3. CASE GM!JoinInsert(c)
  <2>0. PICK q \in RoomId : step[c].room = q /\ step[c].do = "insert" /\ step[c].at = 0
    BY <1>0, <1>3 DEF GM!JoinInsert, Shaped
  <2>1. /\ sessions' = sessions /\ connections_map' = connections_map \cup {c}
        /\ positions' = positions /\ step' = [step EXCEPT ![c].do = "record"]
        /\ gameRooms' = IF step[c].lost THEN gameRooms ELSE [gameRooms EXCEPT ![q] = @ \cup {c}]
    BY <1>3, <2>0 DEF GM!JoinInsert
  <2>2. /\ step' \in [Conn -> Step] /\ step'[c].do = "record" /\ step'[c].room = q
        /\ step'[c].at = 0
        /\ \A d \in Conn \ {c} : step'[d] = step[d]
    BY <1>0, <2>0, <2>1 DEF Step, GM!Doing
  <2>3. ASSUME NEW r \in RoomId
        PROVE  /\ gameRooms'[r] = GM!NoRoom \/ gameRooms'[r] \subseteq Conn
               /\ gameRooms[r] # GM!NoRoom => gameRooms'[r] # GM!NoRoom
               /\ \A d \in Conn : d # c => (In(d, r)' => In(d, r))
               /\ gameRooms'[r] = {} => gameRooms[r] = {} /\ c \notin GM!Entering(r)
    <3>1. gameRooms[r] = GM!NoRoom \/ gameRooms[r] \subseteq Conn
      BY <1>0
    <3>2. CASE gameRooms'[r] = gameRooms[r] /\ (step[c].lost \/ r # q)
      BY <2>0, <3>1, <3>2 DEF In, GM!Entering
    <3>3. CASE gameRooms[r] # GM!NoRoom /\ gameRooms'[r] = gameRooms[r] \cup {c}
      BY <1>0, <3>1, <3>3 DEF In, GM!NoRoom
    <3>4. \/ gameRooms'[r] = gameRooms[r] /\ (step[c].lost \/ r # q)
          \/ gameRooms[r] # GM!NoRoom /\ gameRooms'[r] = gameRooms[r] \cup {c}
      <4>1. ~step[c].lost => gameRooms[q] # GM!NoRoom
        BY <1>0, <2>0 DEF Shaped
      <4>2. QED  BY <1>0, <2>1, <4>1
    <3>5. QED  BY <3>2, <3>3, <3>4
  <2>4. GM!TypeOK'
    <3>1. \A d \in Conn : step'[d].do \in {"create", "insert", "record"} => step'[d].room \in RoomId
      BY <1>0, <2>2
    <3>2. DOMAIN gameRooms' = RoomId /\ connections_map' \subseteq Conn
      BY <1>0, <2>1
    <3>3. QED  BY <1>0, <2>1, <2>2, <2>3, <3>1, <3>2 DEF GM!TypeOK, Step
  <2>5. ASSUME NEW d \in Conn PROVE Shaped(d)' /\ Cleaned(d)'
    <3>1. CASE d = c
      BY <2>2, <3>1 DEF Shaped, Cleaned, Past
    <3>2. CASE d # c
      <4>1. Untouched(d)
        <5>1. step'[d] = step[d] /\ sessions'[d] = sessions[d]
          BY <2>1, <2>2, <3>2
        <5>2. d \in connections_map' => d \in connections_map
          BY <2>1, <3>2
        <5>3. step[d].do = "insert" => step[d].room \in RoomId
          BY <1>0
        <5>4. QED  BY <2>3, <3>2, <5>1, <5>2, <5>3 DEF Untouched
      <4>2. QED  BY <1>0, <4>1, OthersKept
    <3>3. QED  BY <3>1, <3>2
  <2>6. ASSUME NEW r \in RoomId PROVE Tended(r)'
    <3>1. CASE gameRooms'[r] = {}
      <4>1. \A d \in Conn : d \in GM!Entering(r) => d \in GM!Entering(r)'
        BY <2>2, <2>3, <3>1 DEF GM!Entering
      <4>2. \A d \in Conn : d \in GM!Sweeping => d \in GM!Sweeping'
        BY <2>0, <2>2 DEF GM!Sweeping
      <4>3. QED  BY <1>0, <2>3, <3>1, <4>1, <4>2, TendedKept
    <3>2. QED  BY <3>1 DEF Tended
  <2>7. QED  BY <2>4, <2>5, <2>6 DEF GameInv
<1> QED  BY <1>1, <1>2, <1>3

\* The state after a component's part of the dispatch, or after leave_room.
LEMMA SteppedShape ==
  ASSUME NEW c \in Conn, step[c] \in Step, GM!GameAssumption
  PROVE  /\ GM!Stepped(c) \in Step
         /\ \/ GM!Stepped(c) = GM!Reading /\ step[c].at = 0
            \/ GM!Stepped(c).do = "closed" /\ step[c].at = Len(Order)
            \/ /\ GM!Stepped(c).do = "disconnect" /\ GM!Stepped(c).at = step[c].at + 1
               /\ step[c].at # 0
<1>1. Len(Order) \in Nat
  <2>1. Order \in Seq(STRING)  BY DEF GM!GameAssumption
  <2>2. QED  BY <2>1
<1>2. PICK k \in 0..Len(Order) : step[c].at = k
  BY DEF Step
<1>3. /\ GM!Reading \in Step /\ GM!Done \in Step
      /\ GM!Done.do = "closed"
  BY <1>1 DEF GM!Reading, GM!Done, GM!Loop, Step, GM!Doing
<1>4. CASE k = 0 \/ k = Len(Order)
  BY <1>2, <1>3, <1>4 DEF GM!Stepped
<1>5. CASE k # 0 /\ k # Len(Order)
  <2>1. GM!Stepped(c) = GM!Loop("disconnect", "none", k + 1)
    BY <1>2, <1>5 DEF GM!Stepped
  <2>2. k + 1 \in 0..Len(Order)
    BY <1>1, <1>5
  <2>3. GM!Stepped(c) = [do |-> "disconnect", room |-> "none", lost |-> FALSE, at |-> k + 1]
    BY <2>1 DEF GM!Loop
  <2>4. QED  BY <1>2, <1>5, <2>2, <2>3 DEF Step, GM!Doing
<1> QED  BY <1>4, <1>5

\* The components before the one that is called have been passed.
LEMMA PastGrows ==
  ASSUME NEW c \in Conn, NEW y \in {"SessionManager", "RoomComponent"}, step[c] \in Step,
         GM!GameAssumption, step'[c] = GM!Stepped(c), Past(c, y)'
  PROVE  step[c].at # 0 /\ (Past(c, y) \/ Order[step[c].at] = y)
<1>1. Len(Order) \in Nat \ {0}
  <2>1. Order \in Seq(STRING) /\ \E i \in 1..Len(Order) : TRUE  BY DEF GM!GameAssumption
  <2>2. QED  BY <2>1
<1>2. PICK k \in 0..Len(Order) : step[c].at = k
  BY DEF Step
<1>3. CASE GM!Stepped(c) = GM!Reading
  <2>1. step'[c].do = "read" /\ step'[c].at = 0
    BY <1>3 DEF GM!Reading, GM!Loop
  <2>2. QED  BY <2>1 DEF Past
<1>4. CASE step'[c].do = "closed" /\ k = Len(Order)
  <2>1. PICK i \in 1..Len(Order) : Order[i] = y
    BY DEF GM!GameAssumption
  <2>2. CASE i = k
    BY <1>1, <1>2, <1>4, <2>1, <2>2
  <2>3. CASE i # k
    <3>1. i \in 1..(k - 1)
      BY <1>1, <1>4, <2>3
    <3>2. QED  BY <1>1, <1>2, <1>4, <2>1, <3>1 DEF Past
  <2>4. QED  BY <2>2, <2>3
<1>5. CASE step'[c].do = "disconnect" /\ step'[c].at = k + 1 /\ k # 0
  <2>1. PICK i \in 1..((k + 1) - 1) : Order[i] = y
    BY <1>5 DEF Past
  <2>2. CASE i = k
    BY <1>2, <1>5, <2>1, <2>2
  <2>3. CASE i # k
    <3>1. i \in 1..(k - 1)
      BY <2>3
    <3>2. QED  BY <1>2, <1>5, <2>1, <3>1 DEF Past
  <2>4. QED  BY <2>2, <2>3
<1> QED  BY <1>2, <1>3, <1>4, <1>5, SteppedShape

\* A loop that goes on to the next component does nothing else.
LEMMA SteppedSound ==
  ASSUME NEW c \in Conn, step[c] \in Step, GM!GameAssumption, step'[c] = GM!Stepped(c)
  PROVE  /\ Shaped(c)' /\ step'[c].do \in {"read", "disconnect", "closed"}
<1>1. PICK k \in Nat : step[c].at = k
  BY DEF Step
<1>2. GM!Reading.do = "read"
  BY DEF GM!Reading, GM!Loop
<1>3. /\ step'[c].do \in {"read", "disconnect", "closed"}
      /\ step'[c].do = "disconnect" => step'[c].at # 0
  BY <1>1, <1>2, SteppedShape
<1> QED  BY <1>3 DEF Shaped

\* The disconnect begins, and the components other than RoomComponent.
LEMMA DispatchStep ==
  ASSUME GM!GameAssumption, GameInv, NEW c \in Conn,
         GM!ReadEnds(c) \/ GM!SessionGone(c) \/ GM!PositionGone(c)
  PROVE  GameInv'
<1>0. /\ sessions \in [Conn -> Session] /\ step \in [Conn -> Step]
      /\ positions \in [PlayerId -> Where \cup {GM!NoWhere}] /\ GM!TypeOK
      /\ Shaped(c) /\ Cleaned(c)
      /\ \A d \in Conn : step[d].do \in {"create", "insert", "record"} => step[d].room \in RoomId
      /\ Len(Order) \in Nat \ {0}
  BY GameTypes DEF GameInv
<1>1. /\ gameRooms' = gameRooms /\ connections_map' = connections_map
      /\ \A d \in Conn \ {c} : step'[d] = step[d] /\ sessions'[d] = sessions[d]
      /\ step[c].do \in {"read", "disconnect"}
  BY <1>0 DEF GM!ReadEnds, GM!SessionGone, GM!PositionGone, GM!At, GM!Reading, GM!Loop
<1>2. sessions' \in [Conn -> Session] /\ positions' \in [PlayerId -> Where \cup {GM!NoWhere}]
  <2>1. GM!NoSession \in Session
    BY DEF GM!NoSession, Session
  <2>2. QED  BY <1>0, <2>1 DEF GM!ReadEnds, GM!SessionGone, GM!PositionGone
<1>3. /\ step' \in [Conn -> Step] /\ step'[c].do \in {"read", "disconnect", "closed"}
      /\ Shaped(c)' /\ Cleaned(c)'
  <2>1. CASE GM!ReadEnds(c)
    <3>1. step' = [step EXCEPT ![c] = [do |-> "disconnect", room |-> "none", lost |-> FALSE, at |-> 1]]
      BY <2>1 DEF GM!ReadEnds, GM!Reading, GM!Loop
    <3>2. [do |-> "disconnect", room |-> "none", lost |-> FALSE, at |-> 1] \in Step
      BY <1>0 DEF Step, GM!Doing
    <3>3. step' \in [Conn -> Step] /\ step'[c].do = "disconnect" /\ step'[c].at = 1
      BY <1>0, <3>1, <3>2
    <3>4. QED  BY <3>3 DEF Shaped, Cleaned, Past
  <2>2. CASE GM!SessionGone(c) \/ GM!PositionGone(c)
    <3>1. step' = [step EXCEPT ![c] = GM!Stepped(c)] /\ step[c] \in Step
      BY <1>0, <2>2 DEF GM!SessionGone, GM!PositionGone
    <3>2. step'[c] = GM!Stepped(c)
      BY <1>0, <3>1
    <3>3. step' \in [Conn -> Step]
      BY <1>0, <3>1, SteppedShape
    <3>4. Shaped(c)' /\ step'[c].do \in {"read", "disconnect", "closed"}
      BY <3>1, <3>2, SteppedSound
    <3>5. /\ Order[step[c].at] \in {"SessionManager", "PlayerMoveComponent"}
          /\ Order[step[c].at] = "SessionManager" => sessions'[c] = GM!NoSession
          /\ Order[step[c].at] # "SessionManager" => sessions'[c] = sessions[c]
      BY <1>0, <2>2 DEF GM!SessionGone, GM!PositionGone, GM!At
    <3>6. Past(c, "SessionManager")' => sessions'[c] = GM!NoSession
      <4>1. Past(c, "SessionManager")' => Past(c, "SessionManager") \/ Order[step[c].at] = "SessionManager"
        BY <3>1, <3>2, PastGrows
      <4>2. Past(c, "SessionManager") => sessions[c] = GM!NoSession
        BY <1>0 DEF Cleaned
      <4>3. QED  BY <3>5, <4>1, <4>2
    <3>7. Past(c, "RoomComponent")' => c \notin connections_map' /\ \A r \in RoomId : ~In(c, r)'
      <4>1. Past(c, "RoomComponent")' => Past(c, "RoomComponent")
        BY <3>1, <3>2, <3>5, PastGrows
      <4>2. QED  BY <1>0, <1>1, <4>1 DEF Cleaned, In
    <3>8. QED  BY <3>3, <3>4, <3>6, <3>7 DEF Cleaned
  <2>3. QED  BY <2>1, <2>2
<1>4. GM!TypeOK'
  <2>1. \A d \in Conn : step'[d].do \in {"create", "insert", "record"} => step'[d].room \in RoomId
    BY <1>0, <1>1, <1>3
  <2>2. QED  BY <1>0, <1>1, <1>2, <1>3, <2>1 DEF GM!TypeOK, Session, Step
<1> QED  BY <1>1, <1>3, <1>4, QuietStep

\* leave_room forgets the room, erases the connection and unmaps it.
LEMMA LeavingStep ==
  ASSUME GM!GameAssumption, GameInv, NEW c \in Conn,
         GM!LeaveSession(c) \/ GM!LeaveErase(c) \/ GM!LeaveUnmap(c)
  PROVE  GameInv'
<1>0. /\ sessions \in [Conn -> Session] /\ step \in [Conn -> Step] /\ DOMAIN gameRooms = RoomId
      /\ \A r \in RoomId : gameRooms[r] = GM!NoRoom \/ gameRooms[r] \subseteq Conn
      /\ connections_map \subseteq Conn
      /\ \A d \in Conn : step[d].do \in {"create", "insert", "record"} => step[d].room \in RoomId
      /\ "absent" \notin Conn /\ GM!TypeOK /\ step[c] \in Step
      /\ \A d \in Conn : Shaped(d) /\ Cleaned(d)
      /\ \A r \in RoomId : Tended(r)
  BY GameTypes DEF GameInv
<1>1. PICK x \in {"erase", "unmap", "sweep"} : step' = [step EXCEPT ![c].do = x]
  BY DEF GM!LeaveSession, GM!LeaveErase, GM!LeaveUnmap
<1>2. /\ step' \in [Conn -> Step] /\ step'[c].do = x /\ step'[c].at = step[c].at
      /\ \A d \in Conn \ {c} : step'[d] = step[d]
  BY <1>0, <1>1 DEF Step, GM!Doing
<1>3. /\ step[c].do \in {"read", "disconnect", "erase", "unmap"}
      /\ x = "erase" => step[c] = GM!Reading \/ GM!At(c, "RoomComponent")
      /\ x # "erase" => step[c].do \in {"erase", "unmap"}
  <2>1. CASE GM!LeaveSession(c)
    <3>1. step[c] = GM!Reading \/ GM!At(c, "RoomComponent")
      BY <2>1 DEF GM!LeaveSession
    <3>2. step[c].do \in {"read", "disconnect"}
      BY <3>1, ReadingFields DEF GM!At
    <3>3. x = "erase"
      BY <1>0, <1>2, <2>1 DEF GM!LeaveSession, Step
    <3>4. QED  BY <3>1, <3>2, <3>3
  <2>2. CASE GM!LeaveErase(c) \/ GM!LeaveUnmap(c)
    <3>1. step[c].do \in {"erase", "unmap"} /\ x # "erase"
      BY <1>0, <1>2, <2>2 DEF GM!LeaveErase, GM!LeaveUnmap, Step
    <3>2. QED  BY <3>1
  <2>3. QED  BY <2>1, <2>2
<1>4. x = "erase" /\ step[c].at # 0 => Order[step[c].at] = "RoomComponent"
  BY <1>3 DEF GM!At, GM!Reading, GM!Loop
<1>5. \A y : Past(c, y)' => Past(c, y)
  BY <1>2, <1>3 DEF Past
<1>6. Shaped(c)'
  BY <1>0, <1>2, <1>3, <1>4 DEF Shaped
<1>7. CASE GM!LeaveSession(c)
  <2>1. /\ sessions' = [sessions EXCEPT ![c].room = "none"] /\ gameRooms' = gameRooms
        /\ connections_map' = connections_map /\ positions' = positions
        /\ step[c].do \notin {"insert", "unmap", "sweep"} /\ step'[c].do = "erase"
    BY <1>0, <1>7 DEF GM!LeaveSession, GM!At, GM!Reading, GM!Loop, Step, GM!Doing
  <2>2. /\ sessions' \in [Conn -> Session]
        /\ \A d \in Conn \ {c} : sessions'[d] = sessions[d]
        /\ sessions[c] = GM!NoSession => sessions'[c] = GM!NoSession
    BY <1>0, <2>1 DEF Session, GM!NoSession
  <2>3. GM!TypeOK'
    <3>1. \A d \in Conn : step'[d].do \in {"create", "insert", "record"} => step'[d].room \in RoomId
      BY <1>0, <1>2, <2>1
    <3>2. QED  BY <1>0, <1>2, <2>1, <2>2, <3>1 DEF GM!TypeOK, Session, Step
  <2>4. Cleaned(c)'
    <3>1. Past(c, "SessionManager")' => sessions'[c] = GM!NoSession
      BY <1>0, <1>5, <2>2 DEF Cleaned
    <3>2. Past(c, "RoomComponent")' => c \notin connections_map' /\ \A r \in RoomId : ~In(c, r)'
      BY <1>0, <1>5, <2>1 DEF Cleaned, In
    <3>3. QED  BY <2>1, <3>1, <3>2 DEF Cleaned
  <2>5. QED  BY <1>2, <1>6, <2>1, <2>2, <2>3, <2>4, QuietStep
<1>8. CASE GM!LeaveErase(c)
  <2>1. /\ sessions' = sessions /\ connections_map' = connections_map /\ positions' = positions
        /\ \A r \in RoomId : gameRooms'[r] =
              IF gameRooms[r] # GM!NoRoom THEN gameRooms[r] \ {c} ELSE gameRooms[r]
        /\ DOMAIN gameRooms' = RoomId /\ step'[c].do = "unmap"
    BY <1>0, <1>8 DEF GM!LeaveErase, GM!leave_rooms, Step, GM!Doing
  <2>2. ASSUME NEW r \in RoomId
        PROVE  /\ gameRooms'[r] = GM!NoRoom \/ gameRooms'[r] \subseteq Conn
               /\ gameRooms[r] # GM!NoRoom => gameRooms'[r] # GM!NoRoom
               /\ \A d \in Conn : In(d, r)' => In(d, r)
               /\ ~In(c, r)'
    <3>1. gameRooms[r] = GM!NoRoom \/ gameRooms[r] \subseteq Conn
      BY <1>0
    <3>2. CASE gameRooms[r] = GM!NoRoom
      BY <2>1, <3>2 DEF In
    <3>3. CASE gameRooms[r] # GM!NoRoom
      BY <1>0, <2>1, <3>1, <3>3 DEF In, GM!NoRoom
    <3>4. QED  BY <3>2, <3>3
  <2>3. GM!TypeOK'
    <3>1. \A d \in Conn : step'[d].do \in {"create", "insert", "record"} => step'[d].room \in RoomId
      BY <1>0, <1>2, <2>1
    <3>2. QED  BY <1>0, <1>2, <2>1, <2>2, <3>1 DEF GM!TypeOK, Step
  <2>4. ASSUME NEW d \in Conn PROVE Shaped(d)' /\ Cleaned(d)'
    <3>1. CASE d = c
      <4>1. Past(c, "SessionManager")' => sessions'[c] = GM!NoSession
        BY <1>0, <1>5, <2>1 DEF Cleaned
      <4>2. Past(c, "RoomComponent")' => c \notin connections_map'
        BY <1>0, <1>5, <2>1 DEF Cleaned
      <4>3. QED  BY <1>6, <2>1, <2>2, <3>1, <4>1, <4>2 DEF Cleaned
    <3>2. CASE d # c
      <4>1. step'[d] = step[d] /\ (step[d].do = "insert" => step[d].room \in RoomId)
        BY <1>0, <1>2, <3>2
      <4>2. Untouched(d)
        BY <2>1, <2>2, <4>1 DEF Untouched
      <4>3. QED  BY <1>0, <4>2, OthersKept
    <3>3. QED  BY <3>1, <3>2
  <2>5. c \in GM!Sweeping'
    BY <2>1 DEF GM!Sweeping
  <2>6. QED  BY <2>3, <2>4, <2>5 DEF GameInv, Tended
<1>9. CASE GM!LeaveUnmap(c)
  <2>1. /\ sessions' = sessions /\ connections_map' = connections_map \ {c}
        /\ positions' = positions /\ gameRooms' = gameRooms
        /\ step'[c].do = "sweep" /\ step[c].do = "unmap"
    BY <1>0, <1>9 DEF GM!LeaveUnmap, Step, GM!Doing
  <2>2. GM!TypeOK'
    <3>1. \A d \in Conn : step'[d].do \in {"create", "insert", "record"} => step'[d].room \in RoomId
      BY <1>0, <1>2, <2>1
    <3>2. connections_map' \subseteq Conn
      BY <1>0, <2>1
    <3>3. QED  BY <1>0, <1>2, <2>1, <3>1, <3>2 DEF GM!TypeOK, Step
  <2>3. ASSUME NEW d \in Conn PROVE Shaped(d)' /\ Cleaned(d)'
    <3>1. CASE d = c
      <4>1. Past(c, "SessionManager")' => sessions'[c] = GM!NoSession
        BY <1>0, <1>5, <2>1 DEF Cleaned
      <4>2. c \notin connections_map' /\ \A r \in RoomId : ~In(c, r)'
        BY <1>0, <2>1 DEF Cleaned, In
      <4>3. QED  BY <1>6, <3>1, <4>1, <4>2 DEF Cleaned
    <3>2. CASE d # c
      <4>1. step'[d] = step[d] /\ sessions'[d] = sessions[d]
        BY <1>2, <2>1, <3>2
      <4>2. Untouched(d)
        BY <2>1, <4>1 DEF Untouched, In
      <4>3. QED  BY <1>0, <4>2, OthersKept
    <3>3. QED  BY <3>1, <3>2
  <2>4. c \in GM!Sweeping'
    BY <2>1 DEF GM!Sweeping
  <2>5. QED  BY <2>2, <2>3, <2>4 DEF GameInv, Tended
<1> QED  BY <1>7, <1>8, <1>9

\* leave_room deletes the empty rooms; those about to enter one lose it.
LEMMA SweepStep ==
  ASSUME GM!GameAssumption, GameInv, NEW c \in Conn, GM!LeaveSweep(c)
  PROVE  GameInv'
<1>0. /\ sessions \in [Conn -> Session] /\ step \in [Conn -> Step] /\ DOMAIN gameRooms = RoomId
      /\ \A r \in RoomId : gameRooms[r] = GM!NoRoom \/ gameRooms[r] \subseteq Conn
      /\ \A d \in Conn : step[d].do \in {"create", "insert", "record"} => step[d].room \in RoomId
      /\ GM!TypeOK /\ step[c] \in Step
      /\ \A d \in Conn : Shaped(d) /\ Cleaned(d)
  BY GameTypes DEF GameInv
<1> DEFINE empty == {r \in RoomId : gameRooms[r] = {}}
<1>1. /\ gameRooms' = [r \in RoomId |-> IF r \in empty THEN GM!NoRoom ELSE gameRooms[r]]
      /\ step' = [GM!Losing(empty) EXCEPT ![c] = GM!Stepped(c)]
      /\ sessions' = sessions /\ connections_map' = connections_map /\ positions' = positions
      /\ step[c].do = "sweep"
  BY DEF GM!LeaveSweep
<1>2. ASSUME NEW r \in RoomId
      PROVE  /\ gameRooms'[r] = GM!NoRoom \/ gameRooms'[r] \subseteq Conn
             /\ gameRooms'[r] # {}
             /\ gameRooms[r] # GM!NoRoom /\ r \notin empty => gameRooms'[r] # GM!NoRoom
             /\ \A d \in Conn : In(d, r)' => In(d, r)
  BY <1>0, <1>1 DEF In, GM!NoRoom
<1> HIDE DEF empty
<1>3. GM!Losing(empty) \in [Conn -> Step] /\ GM!Stepped(c) \in Step
  BY <1>0, SteppedShape DEF GM!Losing, Step
<1>4. step' \in [Conn -> Step] /\ step'[c] = GM!Stepped(c)
  BY <1>1, <1>3
<1>5. ASSUME NEW d \in Conn \ {c}
      PROVE  /\ step'[d].do = step[d].do /\ step'[d].room = step[d].room /\ step'[d].at = step[d].at
             /\ step[d].do # "insert" => step'[d].lost = step[d].lost
             /\ step[d].do = "insert" /\ ~step'[d].lost => ~step[d].lost /\ step[d].room \notin empty
  <2>1. step'[d] = GM!Losing(empty)[d] /\ step[d] \in Step
    BY <1>0, <1>1, <1>3
  <2>2. QED  BY <2>1 DEF GM!Losing, Step
<1>6. Shaped(c)' /\ step'[c].do \in {"read", "disconnect", "closed"}
  BY <1>0, <1>4, SteppedSound
<1>7. GM!TypeOK'
  <2>1. \A d \in Conn : step'[d].do \in {"create", "insert", "record"} => step'[d].room \in RoomId
    BY <1>0, <1>5, <1>6
  <2>2. DOMAIN gameRooms' = RoomId
    BY <1>1
  <2>3. QED  BY <1>0, <1>1, <1>2, <1>4, <2>1, <2>2 DEF GM!TypeOK, Step
<1>8. ASSUME NEW d \in Conn PROVE Shaped(d)' /\ Cleaned(d)'
  <2>1. CASE d = c
    <3>1. Past(c, "SessionManager")' => sessions'[c] = GM!NoSession
      <4>1. Past(c, "SessionManager")' => Past(c, "SessionManager")
        <5>1. step[c].at # 0 => Order[step[c].at] = "RoomComponent"
          BY <1>0, <1>1 DEF Shaped
        <5>2. QED  BY <1>0, <1>4, <5>1, PastGrows
      <4>2. QED  BY <1>0, <1>1, <4>1 DEF Cleaned
    <3>2. c \notin connections_map' /\ \A r \in RoomId : ~In(c, r)'
      BY <1>0, <1>1, <1>2 DEF Cleaned
    <3>3. QED  BY <1>6, <2>1, <3>1, <3>2 DEF Cleaned
  <2>2. CASE d # c
    <3>1. step[d].do = "insert" => step[d].room \in RoomId
      BY <1>0
    <3>2. Untouched(d)
      BY <1>1, <1>2, <1>5, <2>2, <3>1 DEF Untouched
    <3>3. QED  BY <1>0, <3>2, OthersKept
  <2>3. QED  BY <2>1, <2>2
<1>9. \A r \in RoomId : Tended(r)'
  BY <1>2 DEF Tended
<1> QED  BY <1>7, <1>8, <1>9 DEF GameInv

\* A connection that is gone has no session and is in no room and no map,
\* whatever the loops of others did meanwhile, and no empty room stays behind
\* unattended (dispatch_disconnect, leave_room, handle_join_room).
THEOREM GhostsNever == GM!Spec => []NoGhosts
<1>1. GameInv /\ [GM!Next]_(GM!gameVars) => GameInv'
  <2> SUFFICES ASSUME GameInv, [GM!Next]_(GM!gameVars) PROVE GameInv'
    OBVIOUS
  <2>1. CASE GM!Next
    BY <2>1, MessageStep, JoinStep, DispatchStep, LeavingStep, SweepStep, RoomsAssumption DEF GM!Next
  <2>2. CASE UNCHANGED GM!gameVars
    <3>1. /\ sessions' = sessions /\ gameRooms' = gameRooms /\ step' = step
          /\ connections_map' = connections_map /\ positions' = positions
      BY <2>2 DEF GM!gameVars
    <3>2. GM!TypeOK' /\ \A r \in RoomId : Tended(r)'
      BY <3>1 DEF GameInv, GM!TypeOK, Tended, GM!Entering, GM!Sweeping
    <3>3. \A c \in Conn : Shaped(c)' /\ Cleaned(c)'
      BY <3>1 DEF GameInv, Shaped, Cleaned, Past, In
    <3>4. QED  BY <3>2, <3>3 DEF GameInv
  <2>3. QED  BY <2>1, <2>2
<1>2. GM!Init => GameInv
  BY GameInit, RoomsAssumption
<1>3. GameInv => NoGhosts
  BY GhostsFromInv DEF NoGhosts
<1> QED  BY <1>1, <1>2, <1>3, PTL DEF GM!Spec

-----------------------------------------------------------------------------
(* StateSync.                                                              *)

\* A room of the component or of the application, with its four maps.
RoomSound(r) ==
    /\ DOMAIN r = {"val", "stamp", "subs", "known"}
    /\ DOMAIN r.val \subseteq SS!Field /\ DOMAIN r.stamp \subseteq Entity
    /\ r.subs \in [Entity -> SUBSET Conn] /\ r.known \subseteq Conn

StatesTyped ==
    /\ RoomSound(own) /\ \A x \in DOMAIN stateRooms : RoomSound(stateRooms[x])
    /\ alive \subseteq Conn /\ hung \in BOOLEAN
    /\ DOMAIN views = Conn /\ DOMAIN fresh = Conn
    /\ \A c \in Conn : DOMAIN views[c] \subseteq SS!Field

\* No statement of the component enters a connection into connections_, so the
\* rooms of the component have no subscribers.
NobodyJoined ==
    /\ DOMAIN joined = {}
    /\ \A x \in DOMAIN stateRooms : \A e \in Entity : stateRooms[x].subs[e] = {}

\* connection_map_ resolves every subscriber, and what a connection has been
\* told is about properties the room has of entities it is subscribed to.
ToldSubscribers ==
    /\ \A e \in Entity : own.subs[e] \subseteq own.known
    /\ \A c \in Conn : \A x \in DOMAIN views[c] : x \in DOMAIN own.val /\ c \in own.subs[x[1]]

StatesInv == StatesTyped /\ NobodyJoined /\ ToldSubscribers /\ SS!SubscribersFollow

\* An update keeps a room a room, with its subscribers.
LEMMA UpdatedSound ==
  ASSUME NEW r, RoomSound(r), NEW e \in Entity, NEW p \in Prop, NEW w
  PROVE  /\ RoomSound(SS!Updated(r, e, p, w))
         /\ SS!Updated(r, e, p, w).val = SS!With(r.val, <<e, p>>, w)
         /\ SS!Updated(r, e, p, w).subs = r.subs /\ SS!Updated(r, e, p, w).known = r.known
<1>1. DOMAIN r = {"val", "stamp", "subs", "known"}
  BY DEF RoomSound
<1>2. SS!Updated(r, e, p, w).val = SS!With(r.val, <<e, p>>, w)
  BY <1>1 DEF SS!Updated
<1>3. SS!Updated(r, e, p, w).stamp = SS!With(r.stamp, e, w)
  BY <1>1 DEF SS!Updated
<1>4. SS!Updated(r, e, p, w).subs = r.subs /\ SS!Updated(r, e, p, w).known = r.known
  BY <1>1 DEF SS!Updated
<1>5. DOMAIN SS!Updated(r, e, p, w) = {"val", "stamp", "subs", "known"}
  BY <1>1 DEF SS!Updated
<1>6. /\ DOMAIN SS!With(r.val, <<e, p>>, w) \subseteq SS!Field
      /\ DOMAIN SS!With(r.stamp, e, w) \subseteq Entity
  BY DEF SS!With, SS!Field, RoomSound
<1>7. RoomSound(SS!Updated(r, e, p, w))
  BY <1>2, <1>3, <1>4, <1>5, <1>6 DEF RoomSound
<1> QED  BY <1>2, <1>4, <1>7

\* Subscribing keeps a room a room, with its properties.
LEMMA SubscribedSound ==
  ASSUME NEW r, RoomSound(r), NEW e \in Entity, NEW c \in Conn
  PROVE  /\ RoomSound(SS!Subscribed(r, e, c))
         /\ SS!Subscribed(r, e, c).val = r.val
         /\ SS!Subscribed(r, e, c).subs = [r.subs EXCEPT ![e] = @ \cup {c}]
         /\ SS!Subscribed(r, e, c).known = r.known \cup {c}
<1>1. DOMAIN r = {"val", "stamp", "subs", "known"}
  BY DEF RoomSound
<1>2. SS!Subscribed(r, e, c).val = r.val /\ SS!Subscribed(r, e, c).stamp = r.stamp
  BY <1>1 DEF SS!Subscribed
<1>3. SS!Subscribed(r, e, c).subs = [r.subs EXCEPT ![e] = @ \cup {c}]
  BY <1>1 DEF SS!Subscribed
<1>4. SS!Subscribed(r, e, c).known = r.known \cup {c}
  BY <1>1 DEF SS!Subscribed
<1>5. DOMAIN SS!Subscribed(r, e, c) = {"val", "stamp", "subs", "known"}
  BY <1>1 DEF SS!Subscribed
<1>6. [r.subs EXCEPT ![e] = @ \cup {c}] \in [Entity -> SUBSET Conn] /\ r.known \cup {c} \subseteq Conn
  BY DEF RoomSound
<1>7. RoomSound(SS!Subscribed(r, e, c))
  BY <1>2, <1>3, <1>4, <1>5, <1>6 DEF RoomSound
<1> QED  BY <1>2, <1>3, <1>4, <1>7

\* So does unsubscribing; connection_map_ keeps the connection.
LEMMA UnsubscribedSound ==
  ASSUME NEW r, RoomSound(r), NEW e \in Entity, NEW c \in Conn
  PROVE  /\ RoomSound(SS!Unsubscribed(r, e, c))
         /\ SS!Unsubscribed(r, e, c).val = r.val
         /\ SS!Unsubscribed(r, e, c).subs = [r.subs EXCEPT ![e] = @ \ {c}]
         /\ SS!Unsubscribed(r, e, c).known = r.known
<1>1. DOMAIN r = {"val", "stamp", "subs", "known"}
  BY DEF RoomSound
<1>2. /\ SS!Unsubscribed(r, e, c).val = r.val /\ SS!Unsubscribed(r, e, c).stamp = r.stamp
      /\ SS!Unsubscribed(r, e, c).known = r.known
  BY <1>1 DEF SS!Unsubscribed
<1>3. SS!Unsubscribed(r, e, c).subs = [r.subs EXCEPT ![e] = @ \ {c}]
  BY <1>1 DEF SS!Unsubscribed
<1>4. DOMAIN SS!Unsubscribed(r, e, c) = {"val", "stamp", "subs", "known"}
  BY <1>1 DEF SS!Unsubscribed
<1>5. [r.subs EXCEPT ![e] = @ \ {c}] \in [Entity -> SUBSET Conn]
  BY DEF RoomSound
<1>6. RoomSound(SS!Unsubscribed(r, e, c))
  BY <1>2, <1>3, <1>4, <1>5 DEF RoomSound
<1> QED  BY <1>2, <1>3, <1>6

\* A new room.
LEMMA NewRoomSound ==
  /\ RoomSound(SS!NewRoom) /\ \A e \in Entity : SS!NewRoom.subs[e] = {}
  /\ SS!NewRoom.subs \in [Entity -> SUBSET Conn]
<1>1. DOMAIN SS!NewRoom = {"val", "stamp", "subs", "known"}
  BY DEF SS!NewRoom
<1>2. /\ SS!NewRoom.subs = [e \in Entity |-> {}] /\ SS!NewRoom.known = {}
      /\ SS!NewRoom.val = <<>> /\ SS!NewRoom.stamp = <<>>
  BY DEF SS!NewRoom
<1>3. DOMAIN <<>> = {}
  OBVIOUS
<1> QED  BY <1>1, <1>2, <1>3 DEF RoomSound

\* The room and the component before the first subscription.
LEMMA StatesInit == SS!Init => StatesInv
<1> SUFFICES ASSUME SS!Init PROVE StatesInv
  OBVIOUS
<1>1. DOMAIN <<>> = {}
  OBVIOUS
<1>2. StatesTyped
  BY <1>1, NewRoomSound DEF SS!Init, StatesTyped
<1>3. NobodyJoined
  BY <1>1 DEF SS!Init, NobodyJoined
<1>4. ToldSubscribers /\ SS!SubscribersFollow
  BY <1>1, NewRoomSound DEF SS!Init, ToldSubscribers, SS!SubscribersFollow
<1> QED  BY <1>2, <1>3, <1>4 DEF StatesInv

\* The application's own room.
LEMMA OwnStep ==
  ASSUME StatesInv, NEW e \in Entity,
         \/ \E p \in Prop, t \in Stamp : SS!update_state(e, p, t)
         \/ \E c \in Conn : SS!subscribe(e, c) \/ SS!unsubscribe(e, c)
  PROVE  StatesInv'
<1>0. /\ RoomSound(own) /\ alive \subseteq Conn
      /\ \A c \in Conn : DOMAIN views[c] \subseteq SS!Field
      /\ own.subs \in [Entity -> SUBSET Conn] /\ DOMAIN views = Conn /\ DOMAIN fresh = Conn
      /\ \A d \in Entity : own.subs[d] \subseteq own.known
      /\ \A c \in Conn : \A x \in DOMAIN views[c] : x \in DOMAIN own.val /\ c \in own.subs[x[1]]
  BY DEF StatesInv, StatesTyped, RoomSound, ToldSubscribers
<1>1. ASSUME NEW p \in Prop, NEW t \in Stamp, SS!update_state(e, p, t)
      PROVE  StatesInv'
  <2>1. /\ RoomSound(own') /\ own'.val = SS!With(own.val, <<e, p>>, t)
        /\ own'.subs = own.subs /\ own'.known = own.known
    BY <1>0, <1>1, UpdatedSound DEF SS!update_state
  <2>2. /\ hooks' = hooks /\ stateRooms' = stateRooms /\ joined' = joined
        /\ alive' = alive /\ hung' = hung
    BY <1>1 DEF SS!update_state
  <2>3. SS!Receivers(own, e) = own.subs[e]
    BY <1>0 DEF SS!Receivers
  <2>4. ASSUME NEW c \in Conn
        PROVE  /\ "diff" \in hooks => views'[c] = IF c \in own.subs[e] \cap alive
                                       THEN SS!With(views[c], <<e, p>>, t) ELSE views[c]
               /\ "diff" \notin hooks => views'[c] = views[c]
               /\ fresh'[c] = IF c \in own.subs[e] THEN fresh[c] \cup {<<e, p>>} ELSE fresh[c]
    BY <1>1, <2>3 DEF SS!update_state, SS!send_state_diff
  <2>5. DOMAIN views' = Conn /\ DOMAIN fresh' = Conn
    BY <1>0, <1>1 DEF SS!update_state, SS!send_state_diff
  <2>6. /\ DOMAIN own'.val = DOMAIN own.val \cup {<<e, p>>} /\ own'.val[<<e, p>>] = t
        /\ \A x \in DOMAIN own.val : x # <<e, p>> => own'.val[x] = own.val[x]
    BY <2>1 DEF SS!With
  <2>7. <<e, p>> \in SS!Field /\ <<e, p>>[1] = e
    BY DEF SS!Field
  <2>8. ASSUME NEW c \in Conn, c \in own.subs[e], c \in alive, "diff" \in hooks
        PROVE  /\ DOMAIN views'[c] = DOMAIN views[c] \cup {<<e, p>>} /\ views'[c][<<e, p>>] = t
               /\ \A x \in DOMAIN views[c] : x # <<e, p>> => views'[c][x] = views[c][x]
    BY <2>4, <2>8 DEF SS!With
  <2>9. ASSUME NEW c \in Conn, ~(c \in own.subs[e] /\ c \in alive /\ "diff" \in hooks)
        PROVE  views'[c] = views[c]
    BY <2>4, <2>9
  <2>10. StatesTyped'
    <3>1. \A c \in Conn : DOMAIN views'[c] \subseteq SS!Field
      BY <1>0, <2>7, <2>8, <2>9
    <3>2. QED  BY <2>1, <2>2, <2>5, <3>1 DEF StatesTyped, StatesInv
  <2>11. ToldSubscribers'
    BY <1>0, <2>1, <2>6, <2>7, <2>8, <2>9 DEF ToldSubscribers
  <2>12. SS!SubscribersFollow'
    <3> SUFFICES ASSUME "diff" \in hooks, NEW c \in alive
                 PROVE  /\ fresh'[c] = DOMAIN views'[c]
                        /\ \A x \in DOMAIN views'[c] : views'[c][x] = own'.val[x]
      BY <2>2 DEF SS!SubscribersFollow
    <3>1. c \in Conn /\ fresh[c] = DOMAIN views[c] /\ \A x \in DOMAIN views[c] : views[c][x] = own.val[x]
      BY <1>0 DEF StatesInv, SS!SubscribersFollow
    <3>2. CASE c \in own.subs[e]
      <4>1. /\ DOMAIN views'[c] = DOMAIN views[c] \cup {<<e, p>>} /\ views'[c][<<e, p>>] = t
            /\ \A x \in DOMAIN views[c] : x # <<e, p>> => views'[c][x] = views[c][x]
        BY <2>8, <3>1, <3>2
      <4>2. fresh'[c] = DOMAIN views'[c]
        BY <2>4, <3>1, <3>2, <4>1
      <4>3. ASSUME NEW x \in DOMAIN views[c], x # <<e, p>> PROVE views'[c][x] = own'.val[x]
        BY <1>0, <2>6, <3>1, <4>1, <4>3
      <4>4. QED  BY <2>6, <4>1, <4>2, <4>3
    <3>3. CASE c \notin own.subs[e]
      <4>1. <<e, p>> \notin DOMAIN views[c]
        BY <1>0, <2>7, <3>1, <3>3
      <4>2. QED  BY <1>0, <2>4, <2>6, <2>9, <3>1, <3>3, <4>1
    <3>4. QED  BY <3>2, <3>3
  <2>13. NobodyJoined'
    BY <2>2 DEF StatesInv, NobodyJoined
  <2>14. QED  BY <2>10, <2>11, <2>12, <2>13 DEF StatesInv
<1>2. ASSUME NEW c \in Conn, SS!subscribe(e, c)
      PROVE  StatesInv'
  <2>1. /\ RoomSound(own') /\ own'.val = own.val
        /\ own'.subs = [own.subs EXCEPT ![e] = @ \cup {c}] /\ own'.known = own.known \cup {c}
    BY <1>0, <1>2, SubscribedSound DEF SS!subscribe
  <2>2. /\ hooks' = hooks /\ stateRooms' = stateRooms /\ joined' = joined
        /\ alive' = alive /\ views' = views /\ fresh' = fresh /\ hung' \in BOOLEAN
    BY <1>2 DEF SS!subscribe
  <2>3. StatesTyped' /\ NobodyJoined' /\ SS!SubscribersFollow'
    BY <2>1, <2>2 DEF StatesInv, StatesTyped, NobodyJoined, SS!SubscribersFollow
  <2>4. \A d \in Entity : own.subs[d] \subseteq own'.subs[d] /\ own'.subs[d] \subseteq own'.known
    BY <1>0, <2>1
  <2>5. \A x \in SS!Field : x[1] \in Entity
    BY DEF SS!Field
  <2>6. ToldSubscribers'
    BY <1>0, <2>1, <2>2, <2>4, <2>5 DEF ToldSubscribers
  <2>7. QED  BY <2>3, <2>6 DEF StatesInv
<1>3. ASSUME NEW c \in Conn, SS!unsubscribe(e, c)
      PROVE  StatesInv'
  <2>1. /\ RoomSound(own') /\ own'.val = own.val
        /\ own'.subs = [own.subs EXCEPT ![e] = @ \ {c}] /\ own'.known = own.known
    BY <1>0, <1>3, UnsubscribedSound DEF SS!unsubscribe
  <2>2. /\ hooks' = hooks /\ stateRooms' = stateRooms /\ joined' = joined
        /\ alive' = alive /\ hung' = hung
        /\ DOMAIN views' = Conn /\ DOMAIN fresh' = Conn
        /\ \A d \in Conn : d # c => views'[d] = views[d] /\ fresh'[d] = fresh[d]
        /\ views'[c] = SS!DropEntity(views[c], e) /\ fresh'[c] = {x \in fresh[c] : x[1] # e}
    BY <1>0, <1>3 DEF SS!unsubscribe
  <2>3. /\ DOMAIN views'[c] = {x \in DOMAIN views[c] : x[1] # e}
        /\ \A x \in DOMAIN views'[c] : views'[c][x] = views[c][x]
    BY <2>2 DEF SS!DropEntity
  <2>4. StatesTyped' /\ NobodyJoined'
    BY <1>0, <2>1, <2>2, <2>3 DEF StatesInv, StatesTyped, NobodyJoined
  <2>5. \A x \in SS!Field : x[1] \in Entity
    BY DEF SS!Field
  <2>6. ToldSubscribers'
    <3>1. \A d \in Entity : own'.subs[d] \subseteq own'.known
      BY <1>0, <2>1
    <3>2. ASSUME NEW d \in Conn, NEW x \in DOMAIN views'[d]
          PROVE  x \in DOMAIN own'.val /\ d \in own'.subs[x[1]]
      <4>1. x \in DOMAIN views[d] /\ x[1] \in Entity /\ (d = c => x[1] # e)
        BY <1>0, <2>2, <2>3, <2>5, <3>2
      <4>2. QED  BY <1>0, <2>1, <4>1
    <3>3. QED  BY <3>1, <3>2 DEF ToldSubscribers
  <2>7. SS!SubscribersFollow'
    <3> SUFFICES ASSUME "diff" \in hooks, NEW d \in alive
                 PROVE  /\ fresh'[d] = DOMAIN views'[d]
                        /\ \A x \in DOMAIN views'[d] : views'[d][x] = own'.val[x]
      BY <2>2 DEF SS!SubscribersFollow
    <3>1. d \in Conn /\ fresh[d] = DOMAIN views[d] /\ \A x \in DOMAIN views[d] : views[d][x] = own.val[x]
      BY <1>0 DEF StatesInv, SS!SubscribersFollow
    <3>2. QED  BY <2>1, <2>2, <2>3, <3>1
  <2>8. QED  BY <2>4, <2>6, <2>7 DEF StatesInv
<1> QED  BY <1>1, <1>2, <1>3

\* The component: its rooms come and go, and messages find no room.
LEMMA ComponentStep ==
  ASSUME StatesInv,
         \/ \E e \in Entity, p \in Prop, t \in Stamp :
               (\E r \in StateRoom : SS!UpdateRoom(r, e, p, t)) \/ \E c \in Conn : SS!handle_state_update(c, e, p, t)
         \/ \E e \in Entity, c \in Conn : SS!handle_state_subscribe(c, e) \/ SS!handle_state_unsubscribe(c, e)
         \/ \E r \in StateRoom : SS!create_room(r) \/ SS!destroy_room(r)
         \/ \E c \in Conn : SS!on_disconnect(c)
  PROVE  StatesInv'
<1>0. /\ \A x \in DOMAIN stateRooms : /\ RoomSound(stateRooms[x])
                                      /\ \A d \in Entity : stateRooms[x].subs[d] = {}
      /\ DOMAIN joined = {} /\ DOMAIN views = Conn
  BY DEF StatesInv, StatesTyped, NobodyJoined
<1>1. \A c \in Conn : SS!get_room_id(c) = {}
  BY <1>0 DEF SS!get_room_id
<1>2. ASSUME UNCHANGED <<own, hooks, fresh>>, alive' \subseteq alive, DOMAIN joined' = {},
             hung' \in BOOLEAN, DOMAIN views' = Conn, \A d \in Conn : views'[d] = views[d],
             \A x \in DOMAIN stateRooms' : /\ RoomSound(stateRooms'[x])
                                           /\ \A d \in Entity : stateRooms'[x].subs[d] = {}
      PROVE  StatesInv'
  <2>1. StatesTyped' /\ NobodyJoined'
    BY <1>2 DEF StatesInv, StatesTyped, NobodyJoined
  <2>2. ToldSubscribers'
    BY <1>2 DEF StatesInv, ToldSubscribers
  <2>3. SS!SubscribersFollow'
    BY <1>2 DEF StatesInv, StatesTyped, SS!SubscribersFollow
  <2>4. QED  BY <2>1, <2>2, <2>3 DEF StatesInv
<1>3. ASSUME NEW e \in Entity, NEW p \in Prop, NEW t \in Stamp,
             NEW S \in SUBSET DOMAIN stateRooms, SS!RoomUpdated(S, e, p, t)
      PROVE  StatesInv'
  <2>1. /\ DOMAIN stateRooms' = DOMAIN stateRooms
        /\ \A x \in DOMAIN stateRooms :
              stateRooms'[x] = IF x \in S THEN SS!Updated(stateRooms[x], e, p, t) ELSE stateRooms[x]
        /\ UNCHANGED <<own, hooks, joined, alive, fresh, hung>>
    BY <1>3 DEF SS!RoomUpdated
  <2>2. UNION {SS!Receivers(stateRooms[x], e) : x \in S} = {}
    BY <1>0 DEF SS!Receivers
  <2>3. DOMAIN views' = Conn /\ \A d \in Conn : views'[d] = views[d]
    BY <1>3, <2>2 DEF SS!RoomUpdated, SS!send_state_diff
  <2>4. ASSUME NEW x \in DOMAIN stateRooms
        PROVE  RoomSound(stateRooms'[x]) /\ \A d \in Entity : stateRooms'[x].subs[d] = {}
    <3>1. CASE x \in S
      <4>1. stateRooms'[x] = SS!Updated(stateRooms[x], e, p, t)
        BY <2>1, <3>1
      <4>2. RoomSound(stateRooms'[x]) /\ stateRooms'[x].subs = stateRooms[x].subs
        <5>1. PICK q : q = stateRooms[x]
          OBVIOUS
        <5>2. RoomSound(q)
          BY <1>0, <5>1
        <5>3. RoomSound(SS!Updated(q, e, p, t)) /\ SS!Updated(q, e, p, t).subs = q.subs
          BY <5>2, UpdatedSound
        <5>4. QED  BY <4>1, <5>1, <5>3
      <4>3. QED  BY <1>0, <4>2
    <3>2. CASE x \notin S
      BY <1>0, <2>1, <3>2
    <3>3. QED  BY <3>1, <3>2
  <2>5. hung \in BOOLEAN
    BY DEF StatesInv, StatesTyped
  <2>6. QED  BY <1>0, <1>2, <2>1, <2>3, <2>4, <2>5
<1>4. ASSUME NEW e \in Entity, NEW p \in Prop, NEW t \in Stamp,
             (\E r \in StateRoom : SS!UpdateRoom(r, e, p, t)) \/ \E c \in Conn : SS!handle_state_update(c, e, p, t)
      PROVE  StatesInv'
  BY <1>1, <1>3, <1>4 DEF SS!UpdateRoom, SS!handle_state_update
<1>5. ASSUME NEW e \in Entity, NEW c \in Conn,
             SS!handle_state_subscribe(c, e) \/ SS!handle_state_unsubscribe(c, e)
      PROVE  StatesInv'
  <2>1. /\ DOMAIN stateRooms' = DOMAIN stateRooms
        /\ \A x \in DOMAIN stateRooms : stateRooms'[x] = stateRooms[x]
        /\ UNCHANGED <<own, hooks, joined, alive, views, fresh>>
    BY <1>1, <1>5 DEF SS!handle_state_subscribe, SS!handle_state_unsubscribe
  <2>2. hung' \in BOOLEAN
    BY <1>5 DEF SS!handle_state_subscribe, SS!handle_state_unsubscribe, StatesInv, StatesTyped
  <2>3. QED  BY <1>0, <1>2, <2>1, <2>2
<1>6. ASSUME NEW r \in StateRoom, SS!create_room(r) \/ SS!destroy_room(r)
      PROVE  StatesInv'
  <2>1. UNCHANGED <<own, hooks, joined, alive, views, fresh, hung>>
    BY <1>6 DEF SS!create_room, SS!destroy_room
  <2>2. ASSUME NEW x \in DOMAIN stateRooms'
        PROVE  (x \in DOMAIN stateRooms /\ stateRooms'[x] = stateRooms[x]) \/ stateRooms'[x] = SS!NewRoom
    BY <1>6, <2>2 DEF SS!create_room, SS!destroy_room, SS!With
  <2>3. ASSUME NEW x \in DOMAIN stateRooms'
        PROVE  RoomSound(stateRooms'[x]) /\ \A d \in Entity : stateRooms'[x].subs[d] = {}
    BY <1>0, <2>2, <2>3, NewRoomSound
  <2>4. hung \in BOOLEAN
    BY DEF StatesInv, StatesTyped
  <2>5. QED  BY <1>0, <1>2, <2>1, <2>3, <2>4
<1>7. ASSUME NEW c \in Conn, SS!on_disconnect(c)
      PROVE  StatesInv'
  <2>1. hung \in BOOLEAN
    BY DEF StatesInv, StatesTyped
  <2>2. DOMAIN joined' = {} /\ alive' \subseteq alive /\ UNCHANGED <<own, hooks, stateRooms, views, fresh, hung>>
    BY <1>0, <1>7 DEF SS!on_disconnect
  <2>3. QED  BY <1>0, <1>2, <2>1, <2>2
<1> QED  BY <1>4, <1>5, <1>6, <1>7

\* What an open connection was told of the entities it is subscribed to is what
\* the application's room holds, and it was told of every change since it
\* subscribed (StateSyncRoom::update_state, subscribe, unsubscribe).
THEOREM DiffsFollow == SS!Spec => []SubscribersFollow
<1>1. StatesInv /\ [SS!Next]_(SS!vars) => StatesInv'
  <2> SUFFICES ASSUME StatesInv, [SS!Next]_(SS!vars) PROVE StatesInv'
    OBVIOUS
  <2>1. CASE SS!Next
    <3>1. ASSUME NEW e \in Entity, NEW p \in Prop, NEW t \in Stamp, SS!update_state(e, p, t)
          PROVE  StatesInv'
      BY <3>1, OwnStep
    <3>2. ASSUME NEW e \in Entity, NEW c \in Conn, SS!subscribe(e, c) \/ SS!unsubscribe(e, c)
          PROVE  StatesInv'
      BY <3>2, OwnStep
    <3>3. QED  BY <2>1, <3>1, <3>2, ComponentStep DEF SS!Next
  <2>2. CASE UNCHANGED SS!vars
    BY <2>2 DEF SS!vars, StatesInv, StatesTyped, NobodyJoined, ToldSubscribers, SS!SubscribersFollow
  <2>3. QED  BY <2>1, <2>2
<1>2. StatesInv => SubscribersFollow
  BY DEF SubscribersFollow, StatesInv, StatesTyped, NobodyJoined, RoomSound, SS!TypeOK
<1> QED  BY StatesInit, <1>1, <1>2, PTL DEF SS!Spec
=============================================================================
