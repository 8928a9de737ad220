--------------------------- MODULE DbHandleProofs ---------------------------
(***************************************************************************)
(* Theorems about the shared database handle, for any number of requests   *)
(* with any mix of operations.                                             *)
(***************************************************************************)
EXTENDS DbHandle, TLAPS

(* Calls of WithTransaction that a request is in before the step at a position
   of its script, and what the innermost of them has done *)
DepthAt ==
    [PlaceOrder |-> <<0, 1, 1, 2, 2, 2, 2, 2, 1, 1, 1, 1, 0>>,
     MarkOrderPaid |-> <<0, 1, 1, 1, 1, 1, 1, 0>>,
     UpdateOrderStatus |-> <<0, 0, 0>>]

StageAt ==
    [PlaceOrder |-> <<"none", "begun", "swapped", "begun", "swapped", "swapped", "swapped", "restored",
                      "swapped", "swapped", "swapped", "restored", "none">>,
     MarkOrderPaid |-> <<"none", "begun", "swapped", "swapped", "swapped", "swapped", "restored", "none">>,
     UpdateOrderStatus |-> <<"none", "none", "none">>]

EndAt == [PlaceOrder |-> 13, MarkOrderPaid |-> 8, UpdateOrderStatus |-> 3]

Active(r) == outcome[r] = "none" /\ ~ failed[r]

(* A request's calls are where its script says; one that fails goes up them *)
ShapeOf(r) ==
    /\ at[r] <= EndAt[OperationOf[r]]
    /\ Active(r) => depth[r] = DepthAt[OperationOf[r]][at[r]]
    /\ Active(r) /\ depth[r] > 0 => Top(r).stage = StageAt[OperationOf[r]][at[r]]
    /\ failed[r] /\ depth[r] > 0 => Top(r).stage \in {"swapped", "restored"}
    /\ outcome[r] # "none" => depth[r] = 0
    /\ depth[r] = 2 => frame[r][1].stage = "swapped"

Shape == \A r \in Requests : ShapeOf(r)

TypeInv == DbTypeOK /\ Shape

(* Where each step of a script stands *)
LEMMA Where ==
    ASSUME HandleAssumption, NEW r \in Requests, at[r] \in Positions
    PROVE /\ OperationOf[r] \in {"PlaceOrder", "MarkOrderPaid", "UpdateOrderStatus"}
          /\ AtEnd(r) <=> at[r] >= EndAt[OperationOf[r]]
          /\ Doing(r, "open") =>
               \/ OperationOf[r] = "PlaceOrder" /\ at[r] \in {1, 3}
               \/ OperationOf[r] = "MarkOrderPaid" /\ at[r] = 1
          /\ Doing(r, "swap") =>
               \/ OperationOf[r] = "PlaceOrder" /\ at[r] \in {2, 4}
               \/ OperationOf[r] = "MarkOrderPaid" /\ at[r] = 2
          /\ Doing(r, "read") =>
               \/ OperationOf[r] = "MarkOrderPaid" /\ at[r] = 3
               \/ OperationOf[r] = "UpdateOrderStatus" /\ at[r] = 1
          /\ Doing(r, "write") =>
               \/ OperationOf[r] = "PlaceOrder" /\ at[r] \in {5, 6, 9, 10}
               \/ OperationOf[r] = "MarkOrderPaid" /\ at[r] \in {4, 5}
               \/ OperationOf[r] = "UpdateOrderStatus" /\ at[r] = 2
          /\ Doing(r, "restore") =>
               \/ OperationOf[r] = "PlaceOrder" /\ at[r] \in {7, 11}
               \/ OperationOf[r] = "MarkOrderPaid" /\ at[r] = 6
          /\ Doing(r, "finish") =>
               \/ OperationOf[r] = "PlaceOrder" /\ at[r] \in {8, 12}
               \/ OperationOf[r] = "MarkOrderPaid" /\ at[r] = 7
<1>1. OperationOf[r] \in {"PlaceOrder", "MarkOrderPaid", "UpdateOrderStatus"}
  BY DEF HandleAssumption, Script
<1>2. CASE OperationOf[r] = "PlaceOrder"
  <2>1. ScriptOf(r) = <<"open", "swap", "open", "swap", "write", "write", "restore", "finish",
                        "write", "write", "restore", "finish">>
    BY <1>2 DEF ScriptOf, Script
  <2>2. Len(ScriptOf(r)) = 12
    BY <2>1
  <2> QED BY <1>1, <1>2, <2>1, <2>2 DEF AtEnd, Doing, EndAt, Positions
<1>3. CASE OperationOf[r] = "MarkOrderPaid"
  <2>1. ScriptOf(r) = <<"open", "swap", "read", "write", "write", "restore", "finish">>
    BY <1>3 DEF ScriptOf, Script
  <2>2. Len(ScriptOf(r)) = 7
    BY <2>1
  <2> QED BY <1>1, <1>3, <2>1, <2>2 DEF AtEnd, Doing, EndAt, Positions
<1>4. CASE OperationOf[r] = "UpdateOrderStatus"
  <2>1. ScriptOf(r) = <<"read", "write">>
    BY <1>4 DEF ScriptOf, Script
  <2>2. Len(ScriptOf(r)) = 2
    BY <2>1
  <2> QED BY <1>1, <1>4, <2>1, <2>2 DEF AtEnd, Doing, EndAt, Positions
<1> QED BY <1>1, <1>2, <1>3, <1>4

-----------------------------------------------------------------------------

(* The initial state is well typed, and every request is at the start of its script. *)
LEMMA TypeInit == ASSUME HandleAssumption, Init PROVE TypeInv
<1>1. DbTypeOK
  <2>1. \A r \in Requests : NoFrame(r) \in Frames
    BY DEF NoFrame, Frames, Handles, Statements, Positions
  <2>2. frame \in [Requests -> [Depths -> Frames]]
    BY <2>1 DEF Init
  <2>3. /\ conn \in [Conns -> {"none", "open", "aborted", "done"}]
        /\ pending \in [Conns -> SUBSET Statements]
        /\ \A c \in Conns : pending[c] = {}
    BY DEF Init
  <2>4. at \in [Requests -> Positions] /\ depth \in [Requests -> {0} \cup Depths]
    BY DEF Init, Positions
  <2> QED BY <2>2, <2>3, <2>4 DEF Init, DbTypeOK, Handles
<1>2. ASSUME NEW r \in Requests PROVE ShapeOf(r)
  <2>1. OperationOf[r] \in {"PlaceOrder", "MarkOrderPaid", "UpdateOrderStatus"}
    BY DEF HandleAssumption, Script
  <2> QED BY <2>1 DEF Init, ShapeOf, Active, EndAt, DepthAt
<1> QED BY <1>1, <1>2 DEF TypeInv, Shape

(* The shape of a request depends on its own part of the state *)
LEMMA OthersKeepShape ==
    ASSUME HandleAssumption, TypeInv, NEW r \in Requests,
           NEW s \in Requests, s # r, depth'[s] = depth[s], frame'[s] = frame[s],
           at'[s] = at[s], failed'[s] = failed[s], outcome'[s] = outcome[s]
    PROVE ShapeOf(s)'
BY DEF TypeInv, Shape, ShapeOf, Active, Top

(* A step of a request that begins a call of WithTransaction *)
LEMMA PushKeeps ==
    ASSUME HandleAssumption, TypeInv, NEW r \in Requests, Doing(r, "open"),
           NEW mark \in SUBSET Statements, Push(r, mark), Step(r),
           UNCHANGED <<failed, outcome>>
    PROVE /\ Shape'
          /\ depth' \in [Requests -> {0} \cup Depths]
          /\ frame' \in [Requests -> [Depths -> Frames]]
          /\ at' \in [Requests -> Positions]
          /\ depth[r] + 1 \in Depths
<1> USE DEF TypeInv
<1>0. at[r] \in Positions
  BY DEF DbTypeOK
<1>1. \/ OperationOf[r] = "PlaceOrder" /\ at[r] \in {1, 3}
      \/ OperationOf[r] = "MarkOrderPaid" /\ at[r] = 1
  BY <1>0, Where
<1>2. Active(r) /\ depth[r] = DepthAt[OperationOf[r]][at[r]]
  BY DEF Doing, Active, Shape, ShapeOf
<1>3. depth[r] + 1 \in Depths
  BY <1>1, <1>2 DEF DepthAt, Depths
<1>4. /\ depth' \in [Requests -> {0} \cup Depths]
      /\ depth'[r] = depth[r] + 1
      /\ \A s \in Requests \ {r} : depth'[s] = depth[s]
  BY <1>3 DEF Push, DbTypeOK
<1>5. /\ frame' \in [Requests -> [Depths -> Frames]]
      /\ frame'[r] = [frame[r] EXCEPT ![depth[r] + 1] =
                         [on |-> handle, original |-> Root, sp |-> <<r, at[r]>>,
                          mark |-> mark, stage |-> "begun"]]
      /\ \A s \in Requests \ {r} : frame'[s] = frame[s]
  <2>1. [on |-> handle, original |-> Root, sp |-> <<r, at[r]>>, mark |-> mark,
         stage |-> "begun"] \in Frames
    BY <1>0 DEF DbTypeOK, Frames, Handles, Statements
  <2> QED BY <2>1, <1>3 DEF Push, DbTypeOK
<1>6. /\ at' \in [Requests -> Positions]
      /\ at'[r] = at[r] + 1
      /\ \A s \in Requests \ {r} : at'[s] = at[s]
  BY <1>0, <1>1 DEF Step, DbTypeOK, Positions
<1>7. ShapeOf(r)'
  <2>1. depth[r] = 1 => frame[r][1].stage = "swapped"
    BY <1>1, <1>2 DEF DepthAt, StageAt, Shape, ShapeOf, Top
  <2>2. frame'[r][depth'[r]].stage = "begun"
    BY <1>3, <1>4, <1>5 DEF DbTypeOK
  <2>3. depth'[r] = 2 => frame'[r][1] = frame[r][1] /\ depth[r] = 1
    BY <1>3, <1>4, <1>5 DEF DbTypeOK, Depths
  <2> QED BY <1>1, <1>2, <1>4, <1>6, <2>1, <2>2, <2>3
          DEF ShapeOf, Active, Top, EndAt, DepthAt, StageAt
<1>8. ASSUME NEW s \in Requests, s # r PROVE ShapeOf(s)'
  BY <1>4, <1>5, <1>6, <1>8, OthersKeepShape
<1> QED BY <1>3, <1>4, <1>5, <1>6, <1>7, <1>8 DEF Shape

(* A step that ends the innermost call *)
LEMMA PopKeeps ==
    ASSUME HandleAssumption, TypeInv, NEW r \in Requests, Pop(r), depth[r] > 0,
           UNCHANGED outcome,
           \/ Doing(r, "finish") /\ Step(r) /\ failed' = failed
           \/ at' = at /\ (Raise(r) \/ (failed' = failed /\ failed[r] = TRUE))
    PROVE /\ Shape'
          /\ depth' \in [Requests -> {0} \cup Depths]
          /\ frame' \in [Requests -> [Depths -> Frames]]
          /\ at' \in [Requests -> Positions]
          /\ failed' \in [Requests -> BOOLEAN]
<1> USE DEF TypeInv
<1>0. /\ at[r] \in Positions
      /\ depth[r] \in {0} \cup Depths
  BY DEF DbTypeOK
<1>1. /\ depth' \in [Requests -> {0} \cup Depths]
      /\ depth'[r] = depth[r] - 1
      /\ \A s \in Requests \ {r} : depth'[s] = depth[s]
  BY <1>0 DEF Pop, DbTypeOK, Depths
<1>2. /\ frame' \in [Requests -> [Depths -> Frames]]
      /\ frame'[r] = [frame[r] EXCEPT ![depth[r]] = NoFrame(r)]
      /\ \A s \in Requests \ {r} : frame'[s] = frame[s]
  <2>1. NoFrame(r) \in Frames
    BY DEF NoFrame, Frames, Handles, Statements, Positions
  <2> QED BY <2>1, <1>0 DEF Pop, DbTypeOK
<1>3. depth[r] = 2 => frame'[r][1] = frame[r][1] /\ frame[r][1].stage = "swapped"
  BY <1>0, <1>2 DEF Shape, ShapeOf, DbTypeOK, Depths
<1>4. depth'[r] > 0 => frame'[r][depth'[r]].stage = "swapped" /\ depth'[r] = 1
  BY <1>0, <1>1, <1>3 DEF Depths
<1>5. outcome[r] = "none"
  BY DEF Shape, ShapeOf
<1>6. /\ ShapeOf(r)'
      /\ at' \in [Requests -> Positions]
      /\ failed' \in [Requests -> BOOLEAN]
      /\ \A s \in Requests \ {r} : at'[s] = at[s] /\ failed'[s] = failed[s]
  <2>1. CASE Doing(r, "finish") /\ Step(r) /\ failed' = failed
    <3>1. \/ OperationOf[r] = "PlaceOrder" /\ at[r] \in {8, 12}
          \/ OperationOf[r] = "MarkOrderPaid" /\ at[r] = 7
      BY <1>0, <2>1, Where
    <3>2. Active(r) /\ depth[r] = DepthAt[OperationOf[r]][at[r]]
      BY <2>1 DEF Doing, Active, Shape, ShapeOf
    <3>3. /\ at' \in [Requests -> Positions]
          /\ at'[r] = at[r] + 1
          /\ \A s \in Requests \ {r} : at'[s] = at[s]
      BY <1>0, <2>1, <3>1 DEF Step, DbTypeOK, Positions
    <3>4. ShapeOf(r)'
      BY <1>1, <1>4, <1>5, <2>1, <3>1, <3>2, <3>3
      DEF ShapeOf, Active, Top, EndAt, DepthAt, StageAt
    <3> QED BY <2>1, <3>3, <3>4 DEF DbTypeOK
  <2>2. CASE at' = at /\ (Raise(r) \/ (failed' = failed /\ failed[r] = TRUE))
    <3>1. /\ failed' \in [Requests -> BOOLEAN]
          /\ failed'[r]
          /\ \A s \in Requests \ {r} : failed'[s] = failed[s]
      BY <2>2 DEF Raise, DbTypeOK
    <3>2. ShapeOf(r)'
      BY <1>0, <1>1, <1>4, <1>5, <2>2, <3>1 DEF ShapeOf, Active, Top, Shape, Depths
    <3> QED BY <2>2, <3>1, <3>2 DEF DbTypeOK
  <2> QED BY <2>1, <2>2
<1>7. ASSUME NEW s \in Requests, s # r PROVE ShapeOf(s)'
  BY <1>1, <1>2, <1>6, <1>7, OthersKeepShape
<1> QED BY <1>1, <1>2, <1>6, <1>7 DEF Shape

(* A step that leaves the calls as they are and goes on, or fails *)
LEMMA FlatKeeps ==
    ASSUME HandleAssumption, TypeInv, NEW r \in Requests,
           UNCHANGED <<depth, outcome>>,
           \/ Doing(r, "read") \/ Doing(r, "write"),
           \/ Step(r) /\ UNCHANGED <<failed, frame>>
           \/ UNCHANGED <<at, frame>> /\ Raise(r)
    PROVE /\ Shape'
          /\ at' \in [Requests -> Positions]
          /\ failed' \in [Requests -> BOOLEAN]
<1> USE DEF TypeInv
<1>0. at[r] \in Positions
  BY DEF DbTypeOK
<1>1. \/ OperationOf[r] = "PlaceOrder" /\ at[r] \in {5, 6, 9, 10}
      \/ OperationOf[r] = "MarkOrderPaid" /\ at[r] \in {3, 4, 5}
      \/ OperationOf[r] = "UpdateOrderStatus" /\ at[r] \in {1, 2}
  BY <1>0, Where
<1>2. /\ Active(r)
      /\ depth[r] = DepthAt[OperationOf[r]][at[r]]
      /\ depth[r] > 0 => Top(r).stage = StageAt[OperationOf[r]][at[r]]
  BY DEF Doing, Active, Shape, ShapeOf
<1>3. /\ ShapeOf(r)'
      /\ at' \in [Requests -> Positions]
      /\ failed' \in [Requests -> BOOLEAN]
      /\ \A s \in Requests \ {r} : at'[s] = at[s] /\ failed'[s] = failed[s]
  <2>1. CASE Step(r) /\ UNCHANGED <<failed, frame>>
    <3>1. /\ at' \in [Requests -> Positions]
          /\ at'[r] = at[r] + 1
          /\ \A s \in Requests \ {r} : at'[s] = at[s]
      BY <1>0, <1>1, <2>1 DEF Step, DbTypeOK, Positions
    <3> QED BY <1>1, <1>2, <2>1, <3>1
            DEF ShapeOf, Active, Top, EndAt, DepthAt, StageAt, Shape, DbTypeOK
  <2>2. CASE UNCHANGED <<at, frame>> /\ Raise(r)
    <3>1. /\ failed' \in [Requests -> BOOLEAN]
          /\ failed'[r]
          /\ \A s \in Requests \ {r} : failed'[s] = failed[s]
      BY <2>2 DEF Raise, DbTypeOK
    <3>2. ShapeOf(r)'
      BY <1>1, <1>2, <2>2, <3>1 DEF ShapeOf, Active, Top, Shape, DepthAt, StageAt
    <3> QED BY <2>2, <3>1, <3>2 DEF DbTypeOK
  <2> QED BY <2>1, <2>2
<1>4. ASSUME NEW s \in Requests, s # r PROVE ShapeOf(s)'
  BY <1>3, <1>4, OthersKeepShape
<1> QED BY <1>3, <1>4 DEF Shape

-----------------------------------------------------------------------------

(* Noting an overlap keeps the flag a Boolean. *)
LEMMA NoteTyped == ASSUME DbTypeOK, NEW r \in Requests, Note(r) PROVE mixed' \in BOOLEAN
BY DEF DbTypeOK, Note

(* Writing one call's frame leaves the others as they were. *)
LEMMA FrameSet ==
    ASSUME TypeInv, NEW r \in Requests, NEW d \in Depths, NEW f \in Frames,
           frame' = [frame EXCEPT ![r] = [frame[r] EXCEPT ![d] = f]]
    PROVE /\ frame' \in [Requests -> [Depths -> Frames]]
          /\ frame'[r][d] = f
          /\ d = 2 => frame'[r][1] = frame[r][1]
          /\ \A s \in Requests \ {r} : frame'[s] = frame[s]
<1>1. /\ frame \in [Requests -> [Depths -> Frames]]
      /\ frame[r] \in [Depths -> Frames]
  BY DEF TypeInv, DbTypeOK
<1>2. [frame[r] EXCEPT ![d] = f] \in [Depths -> Frames]
  BY <1>1
<1>3. frame'[r] = [frame[r] EXCEPT ![d] = f]
  BY <1>1
<1>4. 1 \in Depths
  BY DEF Depths
<1> QED BY <1>1, <1>2, <1>3, <1>4

(* Every step of a request keeps the state well typed. *)
LEMMA TypeStep ==
    ASSUME HandleAssumption, TypeInv, NEW r \in Requests, Run(r)
    PROVE TypeInv'
<1> USE DEF TypeInv
<1>0. at[r] \in Positions /\ <<r, at[r]>> \in Statements /\ handle \in Handles
  BY DEF DbTypeOK, Statements
<1>c. /\ handle # Root => handle \in Conns
      /\ \A d \in Depths : <<r, d>> \in Conns /\ <<r, d>> \in Handles
  BY <1>0 DEF Handles, Conns
<1>1. CASE OpenRoot(r)
  <2>1. /\ Shape'
        /\ depth' \in [Requests -> {0} \cup Depths]
        /\ frame' \in [Requests -> [Depths -> Frames]]
        /\ at' \in [Requests -> Positions]
        /\ depth[r] + 1 \in Depths
    BY <1>1, PushKeeps DEF OpenRoot
  <2> QED BY <1>1, <1>c, <2>1, NoteTyped DEF OpenRoot, DbTypeOK
<1>2. CASE OpenNested(r)
  <2>0. pending[handle] \in SUBSET Statements
    BY <1>2, <1>c DEF OpenNested, DbTypeOK
  <2>1. /\ Shape'
        /\ depth' \in [Requests -> {0} \cup Depths]
        /\ frame' \in [Requests -> [Depths -> Frames]]
        /\ at' \in [Requests -> Positions]
    BY <1>2, <2>0, PushKeeps DEF OpenNested
  <2> QED BY <1>0, <1>2, <1>c, <2>1, NoteTyped DEF OpenNested, DbTypeOK
<1>3. CASE OpenDead(r)
  <2>0. depth[r] > 0 => Top(r).stage = "swapped"
    <3>1. \/ OperationOf[r] = "PlaceOrder" /\ at[r] \in {1, 3}
          \/ OperationOf[r] = "MarkOrderPaid" /\ at[r] = 1
      BY <1>0, <1>3, Where DEF OpenDead
    <3>2. Active(r)
      BY <1>3 DEF OpenDead, Doing, Active
    <3> QED BY <3>1, <3>2 DEF Shape, ShapeOf, DepthAt, StageAt
  <2>1. /\ failed' \in [Requests -> BOOLEAN]
        /\ failed'[r]
        /\ \A s \in Requests \ {r} : failed'[s] = failed[s]
    BY <1>3 DEF OpenDead, Raise, DbTypeOK
  <2>2. \A s \in Requests : ShapeOf(s)'
    BY <1>3, <2>0, <2>1 DEF OpenDead, Doing, Shape, ShapeOf, Active, Top
  <2> QED BY <1>3, <2>1, <2>2, NoteTyped DEF OpenDead, DbTypeOK, Shape
<1>4. CASE Swap(r)
  <2>1. \/ OperationOf[r] = "PlaceOrder" /\ at[r] \in {2, 4}
        \/ OperationOf[r] = "MarkOrderPaid" /\ at[r] = 2
    BY <1>0, <1>4, Where DEF Swap
  <2>2. Active(r) /\ depth[r] = DepthAt[OperationOf[r]][at[r]] /\ depth[r] \in Depths
    BY <1>4, <2>1 DEF Swap, Doing, Active, Shape, ShapeOf, DepthAt, Depths
  <2>3. /\ frame' \in [Requests -> [Depths -> Frames]]
        /\ frame'[r][depth[r]].stage = "swapped"
        /\ depth[r] = 2 => frame'[r][1] = frame[r][1]
        /\ \A s \in Requests \ {r} : frame'[s] = frame[s]
    <3>1. frame[r][depth[r]] \in Frames
      BY <2>2 DEF DbTypeOK
    <3>2. [frame[r][depth[r]] EXCEPT !.original = handle, !.stage = "swapped"] \in Frames
      BY <1>0, <3>1 DEF Frames
    <3>3. frame' = [frame EXCEPT ![r] = [frame[r] EXCEPT ![depth[r]] =
              [frame[r][depth[r]] EXCEPT !.original = handle, !.stage = "swapped"]]]
      BY <1>4, <2>2, <3>1 DEF Swap, DbTypeOK, Frames
    <3>4. [frame[r][depth[r]] EXCEPT !.original = handle, !.stage = "swapped"].stage = "swapped"
      BY <3>1 DEF Frames
    <3> QED BY <2>2, <3>2, <3>3, <3>4, FrameSet
  <2>4. /\ at' \in [Requests -> Positions]
        /\ at'[r] = at[r] + 1
        /\ \A s \in Requests \ {r} : at'[s] = at[s]
    BY <1>0, <1>4, <2>1 DEF Swap, Step, DbTypeOK, Positions
  <2>5. handle' \in Handles
    BY <1>4, <1>c, <2>2 DEF Swap, ConnOf, DbTypeOK, Frames
  <2>6. ShapeOf(r)'
    <3>1. depth' = depth /\ failed' = failed /\ outcome' = outcome
      BY <1>4 DEF Swap
    <3>2. depth[r] = 2 => frame[r][1].stage = "swapped"
      BY DEF Shape, ShapeOf
    <3>3. outcome[r] = "none" /\ ~ failed[r]
      BY <2>2 DEF Active
    <3> QED BY <2>1, <2>2, <2>3, <2>4, <3>1, <3>2, <3>3
            DEF ShapeOf, Active, Top, EndAt, DepthAt, StageAt
  <2>7. ASSUME NEW s \in Requests, s # r PROVE ShapeOf(s)'
    BY <1>4, <2>3, <2>4, <2>7, OthersKeepShape DEF Swap
  <2> QED BY <1>4, <2>3, <2>4, <2>5, <2>6, <2>7, NoteTyped DEF Swap, DbTypeOK, Shape
<1>5. CASE Read(r)
  <2>1. Shape' /\ at' \in [Requests -> Positions]
    BY <1>5, FlatKeeps DEF Read
  <2> QED BY <1>5, <2>1, NoteTyped DEF Read, DbTypeOK
<1>6. CASE Write(r)
  <2>1. Shape' /\ at' \in [Requests -> Positions]
    BY <1>6, FlatKeeps DEF Write
  <2>2. /\ pending' \in [Conns -> SUBSET Statements]
        /\ committed' \in SUBSET Statements
        /\ \A c \in Conns : pending'[c] # {} => conn[c] \in {"open", "aborted"}
    <3>1. CASE handle = Root
      BY <1>0, <1>6, <3>1 DEF Write, DbTypeOK
    <3>2. CASE handle # Root
      <4>1. handle \in Conns /\ conn[handle] = "open"
        BY <1>6, <1>c, <3>2 DEF Write, Usable
      <4>2. /\ pending' = [pending EXCEPT ![handle] = @ \cup {<<r, at[r]>>}]
            /\ committed' = committed
        BY <1>6, <3>2 DEF Write
      <4> QED BY <1>0, <4>1, <4>2 DEF DbTypeOK
    <3> QED BY <3>1, <3>2
  <2> QED BY <1>6, <2>1, <2>2, NoteTyped DEF Write, DbTypeOK
<1>7. CASE StatementFails(r)
  <2>1. Shape' /\ failed' \in [Requests -> BOOLEAN]
    BY <1>7, FlatKeeps DEF StatementFails
  <2>2. /\ conn' \in [Conns -> {"none", "open", "aborted", "done"}]
        /\ \A c \in Conns : conn[c] \in {"open", "aborted"} => conn'[c] \in {"open", "aborted"}
    BY <1>7, <1>c DEF StatementFails, DbTypeOK
  <2> QED BY <1>7, <2>1, <2>2, NoteTyped DEF StatementFails, DbTypeOK
<1>8. CASE Restore(r)
  <2>0. depth[r] \in Depths /\ frame[r][depth[r]] \in Frames
    BY <1>8 DEF Restore, DbTypeOK, Depths
  <2>1. /\ frame' \in [Requests -> [Depths -> Frames]]
        /\ frame'[r][depth[r]].stage = "restored"
        /\ depth[r] = 2 => frame'[r][1] = frame[r][1]
        /\ \A s \in Requests \ {r} : frame'[s] = frame[s]
    <3>1. [frame[r][depth[r]] EXCEPT !.stage = "restored"] \in Frames
      BY <2>0 DEF Frames
    <3>2. frame' = [frame EXCEPT ![r] = [frame[r] EXCEPT ![depth[r]] =
              [frame[r][depth[r]] EXCEPT !.stage = "restored"]]]
      BY <1>8, <2>0 DEF Restore, DbTypeOK
    <3>3. [frame[r][depth[r]] EXCEPT !.stage = "restored"].stage = "restored"
      BY <2>0 DEF Frames
    <3> QED BY <2>0, <3>1, <3>2, <3>3, FrameSet
  <2>2. handle' \in Handles
    BY <1>8, <2>0 DEF Restore, Top, Frames
  <2>3. outcome[r] = "none"
    BY <1>8 DEF Restore, Shape, ShapeOf
  <2>4. /\ ShapeOf(r)'
        /\ at' \in [Requests -> Positions]
        /\ \A s \in Requests \ {r} : at'[s] = at[s]
    <3>1. CASE Doing(r, "restore") /\ Step(r)
      <4>1. \/ OperationOf[r] = "PlaceOrder" /\ at[r] \in {7, 11}
            \/ OperationOf[r] = "MarkOrderPaid" /\ at[r] = 6
        BY <1>0, <3>1, Where
      <4>2. Active(r) /\ depth[r] = DepthAt[OperationOf[r]][at[r]]
        BY <3>1 DEF Doing, Active, Shape, ShapeOf
      <4>3. /\ at' \in [Requests -> Positions]
            /\ at'[r] = at[r] + 1
            /\ \A s \in Requests \ {r} : at'[s] = at[s]
        BY <1>0, <3>1, <4>1 DEF Step, DbTypeOK, Positions
      <4>4. /\ at'[r] <= EndAt[OperationOf[r]]
            /\ DepthAt[OperationOf[r]][at'[r]] = DepthAt[OperationOf[r]][at[r]]
            /\ StageAt[OperationOf[r]][at'[r]] = "restored"
        BY <4>1, <4>3 DEF EndAt, DepthAt, StageAt
      <4>5. /\ depth' = depth /\ failed' = failed /\ outcome' = outcome
            /\ Top(r)'.stage = "restored"
        BY <1>8, <2>1 DEF Restore, Top
      <4>6. depth[r] = 2 => frame'[r][1].stage = "swapped"
        BY <2>1 DEF Shape, ShapeOf
      <4> QED BY <2>3, <4>2, <4>3, <4>4, <4>5, <4>6 DEF ShapeOf, Active
    <3>2. CASE failed[r] = TRUE /\ at' = at
      BY <1>8, <2>1, <2>3, <3>2 DEF Restore, ShapeOf, Shape, Active, Top, DbTypeOK
    <3> QED BY <1>8, <3>1, <3>2 DEF Restore, DbTypeOK
  <2>5. ASSUME NEW s \in Requests, s # r PROVE ShapeOf(s)'
    BY <1>8, <2>1, <2>4, <2>5, OthersKeepShape DEF Restore
  <2> QED BY <1>8, <2>1, <2>2, <2>4, <2>5, NoteTyped DEF Restore, DbTypeOK, Shape
<1>d. depth[r] > 0 => depth[r] \in Depths /\ Top(r) \in Frames
  BY DEF DbTypeOK, Depths, Top
<1>9. CASE Commit(r)
  <2>0. depth[r] > 0 /\ depth[r] \in Depths
    <3>1. \/ OperationOf[r] = "PlaceOrder" /\ at[r] \in {8, 12}
          \/ OperationOf[r] = "MarkOrderPaid" /\ at[r] = 7
      BY <1>0, <1>9, Where DEF Commit
    <3> QED BY <1>9, <3>1 DEF Commit, Doing, Active, Shape, ShapeOf, DepthAt, Depths
  <2>1. /\ Shape'
        /\ depth' \in [Requests -> {0} \cup Depths]
        /\ frame' \in [Requests -> [Depths -> Frames]]
        /\ at' \in [Requests -> Positions]
        /\ failed' \in [Requests -> BOOLEAN]
    <3>1. \/ Doing(r, "finish") /\ Step(r) /\ failed' = failed
          \/ at' = at /\ Raise(r)
      BY <1>9 DEF Commit
    <3> QED BY <1>9, <2>0, <3>1, PopKeeps DEF Commit
  <2>2. /\ conn' \in [Conns -> {"none", "open", "aborted", "done"}]
        /\ pending' \in [Conns -> SUBSET Statements]
        /\ committed' \in SUBSET Statements
        /\ \A c \in Conns : pending'[c] # {} => conn'[c] \in {"open", "aborted"}
    BY <1>9, <1>c, <2>0 DEF Commit, DbTypeOK
  <2> QED BY <1>9, <2>1, <2>2, NoteTyped DEF Commit, DbTypeOK
<1>10. CASE LeaveNested(r)
  <2>0. depth[r] > 0
    <3>1. \/ OperationOf[r] = "PlaceOrder" /\ at[r] \in {8, 12}
          \/ OperationOf[r] = "MarkOrderPaid" /\ at[r] = 7
      BY <1>0, <1>10, Where DEF LeaveNested
    <3> QED BY <1>10, <3>1 DEF LeaveNested, Doing, Active, Shape, ShapeOf, DepthAt
  <2>1. /\ Shape'
        /\ depth' \in [Requests -> {0} \cup Depths]
        /\ frame' \in [Requests -> [Depths -> Frames]]
        /\ at' \in [Requests -> Positions]
    BY <1>10, <2>0, PopKeeps DEF LeaveNested
  <2> QED BY <1>10, <2>1, NoteTyped DEF LeaveNested, DbTypeOK
<1>11. CASE Rollback(r)
  <2>1. /\ Shape'
        /\ depth' \in [Requests -> {0} \cup Depths]
        /\ frame' \in [Requests -> [Depths -> Frames]]
    <3>1. failed[r] = TRUE
      BY <1>11 DEF Rollback, DbTypeOK
    <3> QED BY <1>11, <3>1, PopKeeps DEF Rollback
  <2>2. /\ conn' \in [Conns -> {"none", "open", "aborted", "done"}]
        /\ pending' \in [Conns -> SUBSET Statements]
        /\ \A c \in Conns : pending'[c] # {} => conn'[c] \in {"open", "aborted"}
    BY <1>11, <1>c, <1>d DEF Rollback, DbTypeOK
  <2> QED BY <1>11, <2>1, <2>2, NoteTyped DEF Rollback, DbTypeOK
<1>12. CASE RollbackNested(r)
  <2>1. /\ Shape'
        /\ depth' \in [Requests -> {0} \cup Depths]
        /\ frame' \in [Requests -> [Depths -> Frames]]
    <3>1. failed[r] = TRUE
      BY <1>12 DEF RollbackNested, DbTypeOK
    <3> QED BY <1>12, <3>1, PopKeeps DEF RollbackNested
  <2>2. Top(r).on \in Conns /\ Top(r).mark \cup {Top(r).sp} \in SUBSET Statements
    BY <1>12, <1>d DEF RollbackNested, Frames, Handles
  <2>3. /\ conn' \in [Conns -> {"none", "open", "aborted", "done"}]
        /\ pending' \in [Conns -> SUBSET Statements]
        /\ \A c \in Conns : pending'[c] # {} => conn'[c] \in {"open", "aborted"}
    BY <1>12, <2>2 DEF RollbackNested, DbTypeOK
  <2> QED BY <1>12, <2>1, <2>3, NoteTyped DEF RollbackNested, DbTypeOK
<1>13. CASE Reply(r)
  <2>1. Shape'
    BY <1>13 DEF Reply, Shape, ShapeOf, Active, Top, DbTypeOK
  <2> QED BY <1>13, <2>1 DEF Reply, DbTypeOK
<1> QED BY <1>1, <1>2, <1>3, <1>4, <1>5, <1>6, <1>7, <1>8, <1>9, <1>10, <1>11, <1>12, <1>13
        DEF Run

(* So does a restart. *)
LEMMA TypeRestart == ASSUME HandleAssumption, TypeInv, Restart PROVE TypeInv'
<1>1. frame' \in [Requests -> [Depths -> Frames]]
  <2>1. \A r \in Requests : NoFrame(r) \in Frames
    BY DEF NoFrame, Frames, Handles, Statements, Positions
  <2> QED BY <2>1 DEF Restart
<1>2. DbTypeOK'
  BY <1>1 DEF TypeInv, Restart, DbTypeOK, Handles
<1>3. ASSUME NEW r \in Requests PROVE ShapeOf(r)'
  <2>1. OperationOf[r] \in {"PlaceOrder", "MarkOrderPaid", "UpdateOrderStatus"}
    BY DEF HandleAssumption, Script
  <2>2. outcome'[r] = "none" => at[r] = 1 /\ ~ failed[r]
    <3>1. outcome'[r] = IF Started(r) /\ outcome[r] = "none" THEN "lost" ELSE outcome[r]
      BY DEF Restart
    <3>2. at[r] \in 1..13
      BY DEF TypeInv, DbTypeOK, Positions
    <3> QED BY <3>1, <3>2 DEF Started
  <2> QED BY <2>1, <2>2 DEF Restart, TypeInv, Shape, ShapeOf, Active, DepthAt, DbTypeOK
<1> QED BY <1>2, <1>3 DEF TypeInv, Shape

(* The state of the handle and of every request is well typed, and only a
   transaction under way has statements that wait for its end: pkg/dbs/dbs.go *)
THEOREM DbTypeCorrect == ASSUME HandleAssumption PROVE Spec => [](TypeInv /\ DbTypeOK)
<1>1. Init => TypeInv
  BY TypeInit
<1>2. TypeInv /\ [Next]_vars => TypeInv'
  <2>1. ASSUME TypeInv, UNCHANGED vars PROVE TypeInv'
    BY <2>1 DEF vars, TypeInv, DbTypeOK, Shape, ShapeOf, Active, Top
  <2> QED BY <2>1, TypeStep, TypeRestart DEF Next
<1>3. TypeInv => DbTypeOK
  BY DEF TypeInv
<1> QED BY <1>1, <1>2, <1>3, PTL DEF Spec

-----------------------------------------------------------------------------
(* While requests do not run inside each other's transactions *)

Own(r) == {r} \X Positions

(* The writes that the request's script is past *)
Past(r) == {w \in WritesOf(r) : w[2] < at[r]}

(* The calls of r are on one connection of its own, which has only its writes *)
Calls(r) ==
    /\ pending[<<r, 1>>] \subseteq Own(r)
    /\ depth[r] > 0 =>
         /\ frame[r][1].on = Root
         /\ conn[<<r, 1>>] \in {"open", "aborted"}
         /\ frame[r][1].stage # "begun" => frame[r][1].original = Root
    /\ depth[r] = 2 =>
         /\ frame[r][2].on = <<r, 1>>
         /\ frame[r][2].sp \in Own(r)
         /\ frame[r][2].mark \subseteq Own(r)
         /\ frame[r][2].stage # "begun" => frame[r][2].original = <<r, 1>>

(* A request in a transaction has its writes in it, one outside has them in the
   database, a failing one nowhere *)
Writes(r) ==
    /\ Active(r) /\ depth[r] > 0 =>
         conn[<<r, 1>>] = "open" /\ Past(r) \subseteq pending[<<r, 1>>]
    /\ outcome[r] = "none" /\ (failed[r] \/ depth[r] > 0) => WritesOf(r) \cap committed = {}
    /\ Active(r) /\ depth[r] = 0 => WritesOf(r) \cap committed = Past(r)
    /\ AtomicRequest(r)

Solo == \A r, s \in Requests : depth[r] > 0 /\ depth[s] > 0 => r = s

LoneInv == ~ mixed => Solo /\ HandleFollowsCalls /\ \A r \in Requests : Calls(r) /\ Writes(r)

(* The writes of each operation, by their positions in its script. *)
LEMMA WritesAre ==
    ASSUME HandleAssumption, NEW r \in Requests
    PROVE /\ OperationOf[r] \in {"PlaceOrder", "MarkOrderPaid", "UpdateOrderStatus"}
          /\ OperationOf[r] = "PlaceOrder" => WritesOf(r) = {<<r, 5>>, <<r, 6>>, <<r, 9>>, <<r, 10>>}
          /\ OperationOf[r] = "MarkOrderPaid" => WritesOf(r) = {<<r, 4>>, <<r, 5>>}
          /\ OperationOf[r] = "UpdateOrderStatus" => WritesOf(r) = {<<r, 2>>}
          /\ WritesOf(r) \subseteq Own(r)
<1>1. OperationOf[r] \in {"PlaceOrder", "MarkOrderPaid", "UpdateOrderStatus"}
  BY DEF HandleAssumption, Script
<1>2. CASE OperationOf[r] = "PlaceOrder"
  <2>1. ScriptOf(r) = <<"open", "swap", "open", "swap", "write", "write", "restore", "finish",
                        "write", "write", "restore", "finish">>
    BY <1>2 DEF ScriptOf, Script
  <2>2. {j \in DOMAIN ScriptOf(r) : ScriptOf(r)[j] = "write"} = {5, 6, 9, 10}
    BY <2>1
  <2> QED BY <1>2, <2>2 DEF WritesOf, Own, Positions
<1>3. CASE OperationOf[r] = "MarkOrderPaid"
  <2>1. ScriptOf(r) = <<"open", "swap", "read", "write", "write", "restore", "finish">>
    BY <1>3 DEF ScriptOf, Script
  <2>2. {j \in DOMAIN ScriptOf(r) : ScriptOf(r)[j] = "write"} = {4, 5}
    BY <2>1
  <2> QED BY <1>3, <2>2 DEF WritesOf, Own, Positions
<1>4. CASE OperationOf[r] = "UpdateOrderStatus"
  <2>1. ScriptOf(r) = <<"read", "write">>
    BY <1>4 DEF ScriptOf, Script
  <2>2. {j \in DOMAIN ScriptOf(r) : ScriptOf(r)[j] = "write"} = {2}
    BY <2>1
  <2> QED BY <1>4, <2>2 DEF WritesOf, Own, Positions
<1> QED BY <1>1, <1>2, <1>3, <1>4

(* Nothing has been written at the start. *)
LEMMA LoneInit == ASSUME HandleAssumption, Init PROVE LoneInv
<1>1. ASSUME NEW r \in Requests PROVE Calls(r) /\ Writes(r)
  <2>1. Past(r) = {}
    BY WritesAre DEF Init, Past
  <2>2. pending[<<r, 1>>] = {}
    BY DEF Init, Conns, Depths
  <2>3. depth[r] = 0 /\ committed = {} /\ outcome[r] = "none" /\ ~ failed[r]
    BY DEF Init
  <2>4. Calls(r)
    BY <2>2, <2>3 DEF Calls
  <2> QED BY <2>1, <2>3, <2>4 DEF Writes, AtomicRequest, Active
<1>2. HandleFollowsCalls /\ Solo
  BY DEF Init, HandleFollowsCalls, Solo
<1> QED BY <1>1, <1>2 DEF LoneInv

(* A request outside its transaction is left alone by the others *)
LEMMA OthersStayLone ==
    ASSUME HandleAssumption, NEW r \in Requests, Calls(r), Writes(r), depth[r] = 0,
           depth'[r] = 0, at'[r] = at[r], failed'[r] = failed[r], outcome'[r] = outcome[r],
           pending'[<<r, 1>>] = pending[<<r, 1>>],
           committed' \cap Own(r) = committed \cap Own(r)
    PROVE Calls(r)' /\ Writes(r)'
<1>1. WritesOf(r)' = WritesOf(r) /\ Past(r)' = Past(r) /\ Own(r)' = Own(r)
  BY DEF WritesOf, ScriptOf, Past, Own
<1>2. WritesOf(r) \cap committed' = WritesOf(r) \cap committed
  BY WritesAre
<1>3. WritesOf(r) \subseteq committed' <=> WritesOf(r) \subseteq committed
  BY <1>2
<1> QED BY <1>1, <1>2, <1>3 DEF Calls, Writes, Active, AtomicRequest

(* A step that is not noted as an overlap finds no other request in a transaction. *)
LEMMA OthersOut ==
    ASSUME TypeInv, NEW r \in Requests, Note(r), ~ mixed', NEW s \in Requests, s # r
    PROVE depth[s] = 0
<1>1. depth[s] \in {0, 1, 2}
  BY DEF TypeInv, DbTypeOK, Depths
<1>2. ~ (depth[s] > 0)
  BY Zenon DEF Note
<1> QED BY <1>1, <1>2

(* The step of a request that is alone: what it keeps, from what it does to the
   request itself *)
LEMMA AloneKeeps ==
    ASSUME HandleAssumption, TypeInv, LoneInv, ~ mixed, NEW r \in Requests, Note(r), ~ mixed',
           \A s \in Requests \ {r} :
             /\ depth'[s] = depth[s] /\ at'[s] = at[s]
             /\ failed'[s] = failed[s] /\ outcome'[s] = outcome[s]
             /\ pending'[<<s, 1>>] = pending[<<s, 1>>]
             /\ committed' \cap Own(s) = committed \cap Own(s),
           Calls(r)', Writes(r)',
           depth'[r] = 0 => handle' = Root,
           depth'[r] > 0 => handle' = IF frame'[r][depth'[r]].stage = "swapped" THEN <<r, 1>>
                                      ELSE IF depth'[r] = 1 THEN Root ELSE <<r, 1>>
    PROVE LoneInv'
<1>1. \A s \in Requests \ {r} : depth[s] = 0
  BY OthersOut
<1>5. \A s \in Requests \ {r} : depth'[s] = 0
  BY <1>1
<1>2. ASSUME NEW s \in Requests, s # r PROVE Calls(s)' /\ Writes(s)'
  <2>1. Calls(s) /\ Writes(s)
    BY DEF LoneInv
  <2> QED BY <1>1, <1>2, <2>1, OthersStayLone
<1>3. Solo'
  <2>1. ASSUME NEW a \in Requests, depth'[a] > 0 PROVE a = r
    BY <1>5, <2>1
  <2> QED BY <2>1 DEF Solo
<1>4. HandleFollowsCalls'
  <2>1. (\A s \in Requests : depth'[s] = 0) => handle' = Root
    OBVIOUS
  <2>2. ASSUME NEW s \in Requests, depth'[s] > 0
        PROVE handle' = IF frame'[s][depth'[s]].stage = "swapped" THEN <<s, 1>>
                        ELSE IF depth'[s] = 1 THEN Root ELSE <<s, 1>>
    <3>1. s = r
      BY <1>5, <2>2
    <3> QED BY <2>2, <3>1
  <2> QED BY <2>1, <2>2 DEF HandleFollowsCalls, Top
<1> QED BY <1>2, <1>3, <1>4 DEF LoneInv

(* The handle before the step of a request that is alone *)
LEMMA HandleAlone ==
    ASSUME HandleAssumption, TypeInv, LoneInv, ~ mixed, NEW r \in Requests, Note(r), ~ mixed'
    PROVE /\ \A s \in Requests \ {r} : depth[s] = 0
          /\ depth[r] \in {0, 1, 2}
          /\ depth[r] = 0 => handle = Root
          /\ depth[r] > 0 => handle = IF Top(r).stage = "swapped" THEN <<r, 1>>
                                      ELSE IF depth[r] = 1 THEN Root ELSE <<r, 1>>
          /\ \A d \in Depths : <<r, d>> \in Conns /\ <<r, d>> # Root
          /\ Calls(r) /\ Writes(r)
<1>1. \A s \in Requests \ {r} : depth[s] = 0
  BY OthersOut
<1>2. depth[r] \in {0, 1, 2}
  BY DEF TypeInv, DbTypeOK, Depths
<1>3. \A d \in Depths : <<r, d>> \in Conns /\ <<r, d>> # Root
  BY DEF HandleAssumption, Conns
<1> QED BY <1>1, <1>2, <1>3 DEF LoneInv, HandleFollowsCalls

(* A script is a finite sequence. *)
LEMMA ScriptLength ==
    ASSUME HandleAssumption, NEW r \in Requests
    PROVE Len(ScriptOf(r)) \in Nat /\ DOMAIN ScriptOf(r) = 1..Len(ScriptOf(r))
<1>1. OperationOf[r] \in {"PlaceOrder", "MarkOrderPaid", "UpdateOrderStatus"}
  BY DEF HandleAssumption, Script
<1>2. \/ ScriptOf(r) = <<"open", "swap", "open", "swap", "write", "write", "restore", "finish",
                           "write", "write", "restore", "finish">>
      \/ ScriptOf(r) = <<"open", "swap", "read", "write", "write", "restore", "finish">>
      \/ ScriptOf(r) = <<"read", "write">>
  BY <1>1 DEF ScriptOf, Script
<1> QED BY <1>2

(* Moving on past a write or past anything else *)
LEMMA PastMoves ==
    ASSUME HandleAssumption, TypeInv, NEW r \in Requests, Active(r), ~ AtEnd(r)
    PROVE /\ Step(r) /\ ~ Doing(r, "write") => Past(r)' = Past(r)
          /\ Step(r) /\ Doing(r, "write") => Past(r)' = Past(r) \cup {<<r, at[r]>>}
          /\ UNCHANGED at => Past(r)' = Past(r)
          /\ Doing(r, "write") => <<r, at[r]>> \in WritesOf(r)
          /\ <<r, at[r]>> \in Own(r)
          /\ WritesOf(r)' = WritesOf(r) /\ Own(r)' = Own(r)
          /\ WritesOf(r) \subseteq Own(r) /\ Past(r) \subseteq WritesOf(r)
<1>1. WritesOf(r)' = WritesOf(r) /\ Own(r)' = Own(r)
  BY DEF WritesOf, ScriptOf, Own
<1>2. at[r] \in Positions /\ at[r] \in 1..Len(ScriptOf(r))
  <2>1. at[r] \in Positions
    BY DEF TypeInv, DbTypeOK
  <2> QED BY <2>1, ScriptLength DEF AtEnd, Positions
<1>3. Step(r) => at'[r] = at[r] + 1
  BY DEF Step, TypeInv, DbTypeOK
<1>4. \A w \in WritesOf(r) : w = <<r, w[2]>> /\ w[2] \in Positions
  BY WritesAre DEF Own
<1>5. Doing(r, "write") <=> <<r, at[r]>> \in WritesOf(r)
  <2>1. Doing(r, "write") <=> ScriptOf(r)[at[r]] = "write"
    BY DEF Doing, Active
  <2> QED BY <1>2, <2>1, ScriptLength DEF WritesOf
<1>6. \A w \in WritesOf(r) : w[2] < at[r] + 1 <=> w[2] < at[r] \/ w = <<r, at[r]>>
  BY <1>2, <1>4 DEF Positions
<1>7. Past(r)' = {w \in WritesOf(r) : w[2] < at'[r]}
  BY <1>1 DEF Past
<1> QED BY <1>1, <1>2, <1>3, <1>5, <1>6, <1>7, WritesAre DEF Past, Own

(* Every step of a request that runs alone keeps its writes together. *)
LEMMA LoneStep ==
    ASSUME HandleAssumption, TypeInv, TypeInv', LoneInv, NEW r \in Requests, Run(r)
    PROVE LoneInv'
<1>1. CASE Reply(r)
  <2>1. ASSUME ~ mixed PROVE Calls(r)' /\ Writes(r)'
    <3>1. Calls(r) /\ Writes(r)
      BY <2>1 DEF LoneInv
    <3>2. Calls(r)'
      BY <1>1, <3>1 DEF Reply, Calls, Own
    <3>3. AtEnd(r) => Past(r) = WritesOf(r)
      <4>1. at[r] \in Positions
        BY DEF TypeInv, DbTypeOK
      <4>2. AtEnd(r) => at[r] >= EndAt[OperationOf[r]]
        BY <4>1, Where
      <4> QED BY <4>1, <4>2, WritesAre DEF Past, EndAt, Positions
    <3>4. WritesOf(r)' = WritesOf(r)
      BY DEF WritesOf, ScriptOf
    <3>5. outcome'[r] = IF failed[r] THEN "error" ELSE "ok"
      BY <1>1 DEF Reply, TypeInv, DbTypeOK
    <3>6. failed[r] => WritesOf(r) \cap committed = {}
      BY <1>1, <3>1 DEF Reply, Writes
    <3>7. ~ failed[r] => WritesOf(r) \subseteq committed
      BY <1>1, <3>1, <3>3 DEF Reply, Writes, Active
    <3>8. committed' = committed
      BY <1>1 DEF Reply
    <3> QED BY <3>2, <3>4, <3>5, <3>6, <3>7, <3>8 DEF Writes, Active, AtomicRequest
  <2>2. ASSUME ~ mixed, NEW s \in Requests, s # r PROVE Calls(s)' /\ Writes(s)'
    <3>1. Calls(s) /\ Writes(s)
      BY <2>2 DEF LoneInv
    <3>2. outcome'[s] = outcome[s]
      BY <1>1, <2>2 DEF Reply, TypeInv, DbTypeOK
    <3> QED BY <1>1, <3>1, <3>2
            DEF Reply, Calls, Writes, Active, AtomicRequest, Past, WritesOf, ScriptOf, Own
  <2> QED BY <1>1, <2>1, <2>2 DEF Reply, LoneInv, Solo, HandleFollowsCalls, Top
<1>2. SUFFICES ASSUME ~ Reply(r), ~ mixed, ~ mixed' PROVE LoneInv'
  BY <1>1 DEF LoneInv, Run, Note, OpenRoot, OpenNested, OpenDead, Swap, Read, Write,
              StatementFails, Restore, Commit, LeaveNested, Rollback, RollbackNested
<1>3. Note(r)
  BY <1>2 DEF Run, OpenRoot, OpenNested, OpenDead, Swap, Read, Write,
              StatementFails, Restore, Commit, LeaveNested, Rollback, RollbackNested
<1>4. /\ \A s \in Requests \ {r} : depth[s] = 0
      /\ depth[r] \in {0, 1, 2}
      /\ depth[r] = 0 => handle = Root
      /\ depth[r] > 0 => handle = IF Top(r).stage = "swapped" THEN <<r, 1>>
                                  ELSE IF depth[r] = 1 THEN Root ELSE <<r, 1>>
      /\ \A d \in Depths : <<r, d>> \in Conns /\ <<r, d>> # Root
      /\ Calls(r) /\ Writes(r)
  BY <1>2, <1>3, HandleAlone
<1>5. at[r] \in Positions
  BY DEF TypeInv, DbTypeOK
<1> DEFINE Others == \A s \in Requests \ {r} :
             /\ depth'[s] = depth[s] /\ at'[s] = at[s]
             /\ failed'[s] = failed[s] /\ outcome'[s] = outcome[s]
             /\ pending'[<<s, 1>>] = pending[<<s, 1>>]
             /\ committed' \cap Own(s) = committed \cap Own(s)
<1> DEFINE HandleThen ==
             /\ depth'[r] = 0 => handle' = Root
             /\ depth'[r] > 0 => handle' = IF frame'[r][depth'[r]].stage = "swapped" THEN <<r, 1>>
                                           ELSE IF depth'[r] = 1 THEN Root ELSE <<r, 1>>
<1>6. SUFFICES Others /\ HandleThen /\ Calls(r)' /\ Writes(r)'
  BY <1>2, <1>3, AloneKeeps
<1>a. \A s \in Requests \ {r} : \A d \in Depths : <<s, 1>> # <<r, d>> /\ <<s, 1>> \in Conns
  BY DEF Conns, Depths
<1>b. 1 \in Depths /\ 2 \in Depths
  BY DEF Depths
<1>7. CASE OpenRoot(r)
  <2>1. \/ OperationOf[r] = "PlaceOrder" /\ at[r] \in {1, 3}
        \/ OperationOf[r] = "MarkOrderPaid" /\ at[r] = 1
    BY <1>5, <1>7, Where DEF OpenRoot
  <2>2. Active(r) /\ ~ AtEnd(r) /\ ~ Doing(r, "write")
    BY <1>7 DEF OpenRoot, Doing, Active
  <2>3. depth[r] = 0
    <3>1. depth[r] > 0 => Top(r).stage = "swapped"
      BY <2>1, <2>2 DEF TypeInv, Shape, ShapeOf, DepthAt, StageAt
    <3> QED BY <1>4, <1>7, <1>b, <3>1 DEF OpenRoot
  <2>4. Past(r) = {}
    <3>1. at[r] = 1
      BY <2>1, <2>2, <2>3 DEF TypeInv, Shape, ShapeOf, DepthAt
    <3> QED BY <3>1, WritesAre DEF Past
  <2>5. /\ depth'[r] = 1
        /\ frame'[r][1] = [on |-> Root, original |-> Root, sp |-> <<r, at[r]>>, mark |-> {},
                            stage |-> "begun"]
        /\ conn'[<<r, 1>>] = "open"
    BY <1>4, <1>7, <1>b, <2>3 DEF OpenRoot, Push, TypeInv, DbTypeOK
  <2>6. Past(r)' = {} /\ WritesOf(r)' = WritesOf(r) /\ Own(r)' = Own(r)
    BY <1>7, <2>2, <2>4, PastMoves DEF OpenRoot
  <2>7. Calls(r)'
    BY <1>4, <1>7, <2>5, <2>6 DEF OpenRoot, Calls
  <2>8. WritesOf(r) \cap committed = {} /\ outcome[r] = "none"
    BY <1>4, <2>2, <2>3, <2>4 DEF Writes, Active
  <2>9. Writes(r)'
    BY <1>7, <2>5, <2>6, <2>8 DEF OpenRoot, Writes, Active, AtomicRequest
  <2>10. Others
    BY <1>7, <1>a DEF OpenRoot, Push, Step, TypeInv, DbTypeOK
  <2>11. HandleThen
    BY <1>7, <2>5 DEF OpenRoot
  <2> QED BY <2>7, <2>9, <2>10, <2>11
<1>8. CASE OpenNested(r)
  <2>1. /\ Active(r) /\ ~ AtEnd(r) /\ ~ Doing(r, "write")
        /\ \/ OperationOf[r] = "PlaceOrder" /\ at[r] \in {1, 3}
           \/ OperationOf[r] = "MarkOrderPaid" /\ at[r] = 1
    BY <1>5, <1>8, Where DEF OpenNested, Doing, Active
  <2>2. depth[r] = 1 /\ handle = <<r, 1>> /\ frame[r][1].stage = "swapped"
    BY <1>4, <1>8, <2>1 DEF OpenNested, TypeInv, Shape, ShapeOf, DepthAt, StageAt, Top
  <2>3. /\ depth'[r] = 2
        /\ frame'[r][1] = frame[r][1]
        /\ frame'[r][2] = [on |-> <<r, 1>>, original |-> Root, sp |-> <<r, at[r]>>,
                            mark |-> pending[<<r, 1>>], stage |-> "begun"]
        /\ pending'[<<r, 1>>] = pending[<<r, 1>>] \cup {<<r, at[r]>>}
    BY <1>4, <1>8, <1>b, <2>2 DEF OpenNested, Push, TypeInv, DbTypeOK
  <2>4. /\ Past(r)' = Past(r) /\ WritesOf(r)' = WritesOf(r) /\ Own(r)' = Own(r)
        /\ <<r, at[r]>> \in Own(r)
    BY <1>8, <2>1, PastMoves DEF OpenNested
  <2>5. Calls(r)'
    BY <1>4, <1>8, <2>2, <2>3, <2>4 DEF OpenNested, Calls
  <2>6. Writes(r)'
    BY <1>4, <1>8, <2>1, <2>2, <2>3, <2>4 DEF OpenNested, Writes, Active, AtomicRequest
  <2>7. Others
    BY <1>8, <1>a, <1>b, <2>2 DEF OpenNested, Push, Step, TypeInv, DbTypeOK
  <2>8. HandleThen
    BY <1>8, <2>2, <2>3 DEF OpenNested
  <2> QED BY <2>5, <2>6, <2>7, <2>8
<1>9. CASE OpenDead(r)
  <2>1. Active(r)
    BY <1>9 DEF OpenDead, Doing, Active
  <2>2. handle # Root /\ conn[handle] # "open"
    BY <1>9 DEF OpenDead, Usable
  <2>3. depth[r] > 0 /\ handle = <<r, 1>>
    BY <1>4, <2>2
  <2> QED BY <1>4, <2>1, <2>2, <2>3 DEF Writes
<1>10. CASE Swap(r)
  <2>1. /\ Active(r) /\ ~ AtEnd(r) /\ ~ Doing(r, "write")
        /\ \/ OperationOf[r] = "PlaceOrder" /\ at[r] \in {2, 4}
           \/ OperationOf[r] = "MarkOrderPaid" /\ at[r] = 2
    BY <1>5, <1>10, Where DEF Swap, Doing, Active
  <2>2. depth[r] \in {1, 2} /\ Top(r).stage = "begun"
    BY <1>10, <2>1 DEF Swap, TypeInv, Shape, ShapeOf, DepthAt, StageAt
  <2>3. ConnOf(r, depth[r]) = <<r, 1>>
    BY <1>4, <1>b, <2>2 DEF Calls, ConnOf
  <2>4. handle = IF depth[r] = 1 THEN Root ELSE <<r, 1>>
    BY <1>4, <2>2
  <2>5. /\ frame'[r][depth[r]] = [Top(r) EXCEPT !.original = handle, !.stage = "swapped"]
        /\ depth[r] = 2 => frame'[r][1] = frame[r][1]
    BY <1>10, <1>b, <2>2 DEF Swap, Top, TypeInv, DbTypeOK, Frames
  <2>6. Top(r) \in Frames
    BY <1>b, <2>2 DEF Top, TypeInv, DbTypeOK
  <2>7. /\ frame'[r][depth[r]].on = Top(r).on /\ frame'[r][depth[r]].original = handle
        /\ frame'[r][depth[r]].sp = Top(r).sp /\ frame'[r][depth[r]].mark = Top(r).mark
        /\ frame'[r][depth[r]].stage = "swapped"
    BY <2>5, <2>6 DEF Frames
  <2>8. /\ Past(r)' = Past(r) /\ WritesOf(r)' = WritesOf(r) /\ Own(r)' = Own(r)
    BY <1>10, <2>1, PastMoves DEF Swap
  <2>9. Calls(r)'
    BY <1>4, <1>10, <2>2, <2>4, <2>5, <2>7, <2>8 DEF Swap, Calls, Top
  <2>10. Writes(r)'
    BY <1>4, <1>10, <2>1, <2>2, <2>8 DEF Swap, Writes, Active, AtomicRequest
  <2>11. Others
    BY <1>10, <1>a DEF Swap, Step, TypeInv, DbTypeOK
  <2>12. HandleThen
    BY <1>10, <2>2, <2>3, <2>7 DEF Swap
  <2> QED BY <2>9, <2>10, <2>11, <2>12
<1>11. CASE Read(r)
  <2>1. Active(r) /\ ~ AtEnd(r) /\ ~ Doing(r, "write")
    BY <1>11 DEF Read, Doing, Active
  <2>2. /\ Past(r)' = Past(r) /\ WritesOf(r)' = WritesOf(r) /\ Own(r)' = Own(r)
    BY <1>11, <2>1, PastMoves DEF Read
  <2>3. Calls(r)' /\ Writes(r)'
    BY <1>4, <1>11, <2>2 DEF Read, Calls, Writes, Active, AtomicRequest
  <2>4. Others
    BY <1>11 DEF Read, Step, TypeInv, DbTypeOK
  <2>5. HandleThen
    BY <1>4, <1>11 DEF Read, Top
  <2> QED BY <2>3, <2>4, <2>5
<1>12. CASE Write(r)
  <2>1. Active(r) /\ ~ AtEnd(r) /\ Doing(r, "write")
    BY <1>12 DEF Write, Doing, Active
  <2>2. /\ Past(r)' = Past(r) \cup {<<r, at[r]>>}
        /\ WritesOf(r)' = WritesOf(r) /\ Own(r)' = Own(r)
        /\ <<r, at[r]>> \in Own(r) /\ <<r, at[r]>> \in WritesOf(r)
    BY <1>12, <2>1, PastMoves DEF Write
  <2>3. \A s \in Requests \ {r} : <<r, at[r]>> \notin Own(s)
    BY DEF Own
  <2>4. CASE handle = Root
    <3>1. committed' = committed \cup {<<r, at[r]>>} /\ pending' = pending
      BY <1>12, <2>4 DEF Write
    <3>2. depth[r] = 0
      <4>1. \/ OperationOf[r] = "PlaceOrder" /\ at[r] \in {5, 6, 9, 10}
            \/ OperationOf[r] = "MarkOrderPaid" /\ at[r] \in {4, 5}
            \/ OperationOf[r] = "UpdateOrderStatus" /\ at[r] = 2
        BY <1>5, <2>1, Where
      <4>2. depth[r] > 0 => Top(r).stage = "swapped"
        BY <2>1, <4>1 DEF TypeInv, Shape, ShapeOf, DepthAt, StageAt
      <4> QED BY <1>4, <1>b, <2>4, <4>2
    <3>3. Calls(r)'
      BY <1>4, <1>12, <2>2, <3>1, <3>2 DEF Write, Calls
    <3>4. Writes(r)'
      <4>1. WritesOf(r) \cap committed' = Past(r)'
        BY <1>4, <2>1, <2>2, <3>1, <3>2 DEF Writes
      <4> QED BY <1>4, <1>12, <2>1, <2>2, <3>2, <4>1
              DEF Write, Writes, Active, AtomicRequest
    <3>5. Others
      BY <1>12, <2>3, <3>1 DEF Write, Step, TypeInv, DbTypeOK
    <3> QED BY <1>4, <1>12, <3>2, <3>3, <3>4, <3>5 DEF Write
  <2>5. CASE handle # Root
    <3>1. depth[r] > 0 /\ handle = <<r, 1>>
      BY <1>4, <2>5
    <3>2. /\ committed' = committed
          /\ pending'[<<r, 1>>] = pending[<<r, 1>>] \cup {<<r, at[r]>>}
          /\ \A c \in Conns : c # <<r, 1>> => pending'[c] = pending[c]
      <4>1. /\ committed' = committed
            /\ pending' = [pending EXCEPT ![<<r, 1>>] = @ \cup {<<r, at[r]>>}]
        BY <1>12, <2>5, <3>1 DEF Write
      <4> QED BY <1>4, <1>b, <4>1 DEF TypeInv, DbTypeOK
    <3>3. Calls(r)'
      BY <1>4, <1>12, <2>2, <3>2 DEF Write, Calls
    <3>4. Writes(r)'
      BY <1>4, <1>12, <2>1, <2>2, <3>1, <3>2 DEF Write, Writes, Active, AtomicRequest
    <3>5. Others
      BY <1>12, <1>a, <1>b, <3>2 DEF Write, Step, TypeInv, DbTypeOK
    <3> QED BY <1>4, <1>12, <3>1, <3>3, <3>4, <3>5 DEF Write, Top
  <2> QED BY <2>4, <2>5
<1>c. ASSUME failed[r] = FALSE, failed'[r] = TRUE, outcome[r] = "none", outcome'[r] = "none",
              at' = at, committed' = committed, WritesOf(r) \cap committed = {}
      PROVE Writes(r)'
  BY <1>c DEF Writes, Active, AtomicRequest, WritesOf, ScriptOf
<1>13. CASE StatementFails(r)
  <2>1. /\ Active(r) /\ outcome[r] = "none" /\ failed[r] = FALSE
        /\ \/ OperationOf[r] = "PlaceOrder" /\ at[r] \in {5, 6, 9, 10}
           \/ OperationOf[r] = "MarkOrderPaid" /\ at[r] \in {3, 4, 5}
           \/ OperationOf[r] = "UpdateOrderStatus" /\ at[r] \in {1, 2}
    BY <1>5, <1>13, Where DEF StatementFails, Doing, Active, TypeInv, DbTypeOK
  <2>2. WritesOf(r) \cap committed = {}
    <3>1. CASE depth[r] > 0
      BY <1>4, <2>1, <3>1 DEF Writes
    <3>2. CASE depth[r] = 0
      <4>1. Past(r) = {}
        BY <2>1, <3>2, WritesAre DEF TypeInv, Shape, ShapeOf, DepthAt, Past
      <4> QED BY <1>4, <2>1, <3>2, <4>1 DEF Writes
    <3> QED BY <1>4, <3>1, <3>2
  <2>3. /\ failed'[r] = TRUE
        /\ \A s \in Requests \ {r} : failed'[s] = failed[s]
    BY <1>13 DEF StatementFails, Raise, TypeInv, DbTypeOK
  <2>4. Writes(r)'
    BY <1>13, <1>c, <2>1, <2>2, <2>3 DEF StatementFails
  <2>5. depth[r] > 0 => conn'[<<r, 1>>] \in {"open", "aborted"}
    BY <1>4, <1>13, <1>b DEF StatementFails, Calls, TypeInv, DbTypeOK
  <2>6. Calls(r)'
    BY <1>4, <1>13, <2>5 DEF StatementFails, Calls, Own
  <2>7. Others
    BY <1>13, <2>3 DEF StatementFails
  <2> QED BY <1>4, <1>13, <2>4, <2>6, <2>7 DEF StatementFails, Top
<1>14. CASE Restore(r)
  <2>1. /\ depth[r] \in {1, 2} /\ Top(r) \in Frames /\ Top(r).stage = "swapped"
        /\ outcome[r] = "none"
    <3>1. depth[r] \in {1, 2} /\ Top(r) \in Frames /\ outcome[r] = "none"
      BY <1>4, <1>14, <1>b DEF Restore, Top, TypeInv, DbTypeOK, Shape, ShapeOf
    <3>2. CASE Doing(r, "restore")
      <4>1. \/ OperationOf[r] = "PlaceOrder" /\ at[r] \in {7, 11}
            \/ OperationOf[r] = "MarkOrderPaid" /\ at[r] = 6
        BY <1>5, <3>2, Where
      <4>2. Active(r)
        BY <3>2 DEF Doing, Active
      <4> QED BY <3>1, <4>1, <4>2 DEF TypeInv, Shape, ShapeOf, DepthAt, StageAt
    <3> QED BY <1>14, <3>1, <3>2 DEF Restore
  <2>2. handle' = IF depth[r] = 1 THEN Root ELSE <<r, 1>>
    BY <1>4, <1>14, <2>1 DEF Restore, Calls, Top
  <2>3. /\ frame'[r][depth[r]] = [Top(r) EXCEPT !.stage = "restored"]
        /\ depth[r] = 2 => frame'[r][1] = frame[r][1] /\ frame[r][1].stage = "swapped"
    BY <1>14, <1>b, <2>1 DEF Restore, Top, TypeInv, DbTypeOK, Shape, ShapeOf
  <2>4. /\ frame'[r][depth[r]].on = Top(r).on /\ frame'[r][depth[r]].original = Top(r).original
        /\ frame'[r][depth[r]].sp = Top(r).sp /\ frame'[r][depth[r]].mark = Top(r).mark
        /\ frame'[r][depth[r]].stage = "restored"
    BY <2>1, <2>3 DEF Frames
  <2>5. Calls(r)'
    BY <1>4, <1>14, <2>1, <2>3, <2>4 DEF Restore, Calls, Top, Own
  <2>6. Writes(r)'
    <3>1. CASE Doing(r, "restore") /\ Step(r)
      <4>1. Active(r) /\ ~ AtEnd(r) /\ ~ Doing(r, "write")
        BY <3>1 DEF Doing, Active
      <4>2. Past(r)' = Past(r) /\ WritesOf(r)' = WritesOf(r)
        BY <3>1, <4>1, PastMoves
      <4> QED BY <1>4, <1>14, <2>1, <4>1, <4>2 DEF Restore, Writes, Active, AtomicRequest
    <3>2. CASE failed[r] = TRUE /\ at' = at
      BY <1>4, <1>14, <2>1, <3>2
      DEF Restore, Writes, Active, AtomicRequest, WritesOf, ScriptOf
    <3> QED BY <1>14, <3>1, <3>2 DEF Restore, TypeInv, DbTypeOK
  <2>7. Others
    BY <1>14 DEF Restore, Step, TypeInv, DbTypeOK
  <2>8. HandleThen
    BY <1>14, <2>1, <2>2, <2>4 DEF Restore
  <2> QED BY <2>5, <2>6, <2>7, <2>8
<1>15. CASE Commit(r)
  <2>1. /\ Active(r) /\ ~ AtEnd(r) /\ ~ Doing(r, "write")
        /\ \/ OperationOf[r] = "PlaceOrder" /\ at[r] \in {8, 12}
           \/ OperationOf[r] = "MarkOrderPaid" /\ at[r] = 7
    BY <1>5, <1>15, Where DEF Commit, Doing, Active
  <2>2. depth[r] = 1 /\ at[r] \in {7, 12} /\ Top(r).stage = "restored"
    BY <1>4, <1>15, <1>b, <2>1 DEF Commit, Calls, Top, TypeInv, Shape, ShapeOf, DepthAt, StageAt
  <2>3. conn[<<r, 1>>] = "open" /\ Past(r) \subseteq pending[<<r, 1>>]
    BY <1>4, <2>1, <2>2 DEF Writes
  <2>4. /\ committed' = committed \cup pending[<<r, 1>>]
        /\ pending' = [pending EXCEPT ![<<r, 1>>] = {}]
        /\ Step(r) /\ failed' = failed
    BY <1>15, <2>2, <2>3 DEF Commit
  <2>5. /\ depth'[r] = 0 /\ depth' = [depth EXCEPT ![r] = 0]
    BY <1>15, <2>2 DEF Commit, Pop, TypeInv, DbTypeOK
  <2>6. Past(r)' = Past(r) /\ WritesOf(r)' = WritesOf(r) /\ Own(r)' = Own(r)
    BY <2>1, <2>4, PastMoves
  <2>7. Past(r) = WritesOf(r)
    BY <2>1, <2>2, WritesAre DEF Past
  <2>8. WritesOf(r) \cap committed' = Past(r)
    BY <2>3, <2>4, <2>7
  <2>9. Calls(r)'
    <3>1. pending'[<<r, 1>>] = {}
      BY <1>4, <1>b, <2>4 DEF TypeInv, DbTypeOK
    <3> QED BY <2>5, <3>1 DEF Calls
  <2>10. Writes(r)'
    BY <1>15, <2>1, <2>4, <2>5, <2>6, <2>8 DEF Commit, Writes, Active, AtomicRequest
  <2>11. Others
    <3>1. \A s \in Requests \ {r} : pending[<<r, 1>>] \cap Own(s) = {}
      BY <1>4 DEF Calls, Own
    <3>2. \A s \in Requests \ {r} : at'[s] = at[s]
      BY <2>4 DEF Step, TypeInv, DbTypeOK
    <3>3. \A s \in Requests \ {r} : pending'[<<s, 1>>] = pending[<<s, 1>>]
      BY <1>a, <1>b, <2>4 DEF TypeInv, DbTypeOK
    <3>4. \A s \in Requests \ {r} : depth'[s] = depth[s]
      BY <2>5 DEF TypeInv, DbTypeOK
    <3> QED BY <1>15, <2>4, <3>1, <3>2, <3>3, <3>4 DEF Commit
  <2>12. HandleThen
    BY <1>4, <1>15, <2>2, <2>5 DEF Commit
  <2> QED BY <2>9, <2>10, <2>11, <2>12
<1>16. CASE LeaveNested(r)
  <2>1. /\ Active(r) /\ ~ AtEnd(r) /\ ~ Doing(r, "write")
        /\ \/ OperationOf[r] = "PlaceOrder" /\ at[r] \in {8, 12}
           \/ OperationOf[r] = "MarkOrderPaid" /\ at[r] = 7
    BY <1>5, <1>16, Where DEF LeaveNested, Doing, Active
  <2>2. depth[r] = 2 /\ Top(r).stage = "restored" /\ frame[r][1].stage = "swapped"
    BY <1>4, <1>16, <2>1
    DEF LeaveNested, Calls, Top, TypeInv, Shape, ShapeOf, DepthAt, StageAt
  <2>3. /\ depth'[r] = 1 /\ frame'[r][1] = frame[r][1]
        /\ \A s \in Requests \ {r} : depth'[s] = depth[s]
    BY <1>16, <1>b, <2>2 DEF LeaveNested, Pop, TypeInv, DbTypeOK
  <2>4. Past(r)' = Past(r) /\ WritesOf(r)' = WritesOf(r) /\ Own(r)' = Own(r)
    BY <1>16, <2>1, PastMoves DEF LeaveNested
  <2>5. Calls(r)'
    BY <1>4, <1>16, <2>2, <2>3, <2>4 DEF LeaveNested, Calls
  <2>6. Writes(r)'
    BY <1>4, <1>16, <2>1, <2>2, <2>3, <2>4 DEF LeaveNested, Writes, Active, AtomicRequest
  <2>7. Others
    BY <1>16, <2>3 DEF LeaveNested, Step, TypeInv, DbTypeOK
  <2>8. HandleThen
    BY <1>4, <1>16, <2>2, <2>3 DEF LeaveNested
  <2> QED BY <2>5, <2>6, <2>7, <2>8
<1>17. CASE Rollback(r)
  <2>1. failed[r] = TRUE /\ outcome[r] = "none"
    BY <1>17 DEF Rollback, TypeInv, DbTypeOK, Shape, ShapeOf
  <2>2. depth[r] = 1 /\ Top(r).stage = "restored"
    BY <1>4, <1>17, <1>b DEF Rollback, Calls, Top
  <2>3. /\ depth'[r] = 0
        /\ pending'[<<r, 1>>] = {}
        /\ \A s \in Requests \ {r} :
             depth'[s] = depth[s] /\ pending'[<<s, 1>>] = pending[<<s, 1>>]
    BY <1>17, <1>4, <1>a, <1>b, <2>2 DEF Rollback, Pop, TypeInv, DbTypeOK
  <2>4. Calls(r)'
    BY <2>3 DEF Calls
  <2>5. Writes(r)'
    BY <1>4, <1>17, <2>1, <2>3
    DEF Rollback, Writes, Active, AtomicRequest, WritesOf, ScriptOf
  <2>6. Others
    BY <1>17, <2>3 DEF Rollback
  <2>7. HandleThen
    BY <1>4, <1>17, <2>2, <2>3 DEF Rollback
  <2> QED BY <2>4, <2>5, <2>6, <2>7
<1>18. CASE RollbackNested(r)
  <2>1. failed[r] = TRUE /\ outcome[r] = "none"
    BY <1>18 DEF RollbackNested, TypeInv, DbTypeOK, Shape, ShapeOf
  <2>2. /\ depth[r] = 2 /\ Top(r).stage = "restored" /\ frame[r][1].stage = "swapped"
        /\ Top(r).on = <<r, 1>> /\ Top(r).sp \in Own(r) /\ Top(r).mark \subseteq Own(r)
    <3>1. depth[r] = 2
      <4>1. depth[r] # 0 /\ frame[r][depth[r]].on # Root
        BY <1>18, <1>4 DEF RollbackNested, Top
      <4> QED BY <1>4, <4>1 DEF Calls
    <3>2. Top(r) = frame[r][2] /\ Top(r).stage = "restored"
      BY <1>18, <3>1 DEF RollbackNested, Top
    <3>3. frame[r][1].stage = "swapped"
      BY <3>1 DEF TypeInv, Shape, ShapeOf
    <3> QED BY <1>4, <3>1, <3>2, <3>3 DEF Calls
  <2>3. /\ depth'[r] = 1 /\ frame'[r][1] = frame[r][1]
        /\ \A s \in Requests \ {r} : depth'[s] = depth[s]
    BY <1>18, <1>b, <2>2 DEF RollbackNested, Pop, TypeInv, DbTypeOK
  <2>4. /\ conn'[<<r, 1>>] \in {"open", "aborted"}
        /\ pending'[<<r, 1>>] \subseteq Own(r)
        /\ \A s \in Requests \ {r} : pending'[<<s, 1>>] = pending[<<s, 1>>]
    <3>1. <<r, 1>> \in Conns /\ conn[<<r, 1>>] # "done"
      BY <1>4, <1>b, <2>2 DEF Calls
    <3>2. \/ /\ conn' = [conn EXCEPT ![<<r, 1>>] = "open"]
             /\ pending' = [pending EXCEPT ![<<r, 1>>] = Top(r).mark \cup {Top(r).sp}]
          \/ conn' = [conn EXCEPT ![<<r, 1>>] = "aborted"] /\ pending' = pending
      BY <1>18, <2>2, <3>1 DEF RollbackNested
    <3>3. /\ conn \in [Conns -> {"none", "open", "aborted", "done"}]
          /\ pending \in [Conns -> SUBSET Statements]
      BY DEF TypeInv, DbTypeOK
    <3>4. /\ conn[<<r, 1>>] \in {"open", "aborted"}
          /\ pending[<<r, 1>>] \subseteq Own(r)
      BY <1>4, <2>2 DEF Calls
    <3>5. \A s \in Requests \ {r} : <<s, 1>> \in Conns /\ <<s, 1>> # <<r, 1>>
      BY <1>b DEF Conns
    <3>6. CASE /\ conn' = [conn EXCEPT ![<<r, 1>>] = "open"]
               /\ pending' = [pending EXCEPT ![<<r, 1>>] = Top(r).mark \cup {Top(r).sp}]
      <4>1. conn'[<<r, 1>>] = "open" /\ pending'[<<r, 1>>] = Top(r).mark \cup {Top(r).sp}
        BY <3>1, <3>3, <3>6
      <4>2. \A s \in Requests \ {r} : pending'[<<s, 1>>] = pending[<<s, 1>>]
        BY <3>3, <3>5, <3>6
      <4> QED BY <2>2, <4>1, <4>2
    <3>7. CASE conn' = [conn EXCEPT ![<<r, 1>>] = "aborted"] /\ pending' = pending
      BY <3>1, <3>3, <3>4, <3>7
    <3> QED BY <3>2, <3>6, <3>7
  <2>5. Calls(r)'
    BY <1>4, <1>18, <2>2, <2>3, <2>4 DEF Calls, Own
  <2>6. Writes(r)'
    BY <1>4, <1>18, <2>1, <2>2, <2>3
    DEF RollbackNested, Writes, Active, AtomicRequest, WritesOf, ScriptOf
  <2>7. Others
    BY <1>18, <2>3, <2>4 DEF RollbackNested
  <2>8. HandleThen
    BY <1>4, <1>18, <2>2, <2>3 DEF RollbackNested
  <2> QED BY <2>5, <2>6, <2>7, <2>8
<1> QED BY <1>2, <1>7, <1>8, <1>9, <1>10, <1>11, <1>12, <1>13, <1>14, <1>15, <1>16, <1>17, <1>18
        DEF Run

(* A restart keeps all or none of what a request that ran alone has written. *)
LEMMA LoneRestart ==
    ASSUME HandleAssumption, TypeInv, LoneInv, Restart PROVE LoneInv'
<1>1. SUFFICES ASSUME ~ mixed PROVE LoneInv'
  BY DEF LoneInv, Restart
<1>2. ASSUME NEW r \in Requests PROVE Calls(r)' /\ Writes(r)'
  <2>1. Calls(r) /\ Writes(r) /\ depth'[r] = 0 /\ committed' = committed
    BY <1>1 DEF LoneInv, Restart
  <2>2. pending'[<<r, 1>>] = {}
    BY DEF Restart, Conns, Depths
  <2>3. /\ WritesOf(r)' = WritesOf(r) /\ Past(r)' = Past(r)
        /\ failed'[r] = failed[r]
    BY DEF Restart, WritesOf, ScriptOf, Past
  <2>4. outcome'[r] = IF Started(r) /\ outcome[r] = "none" THEN "lost" ELSE outcome[r]
    BY DEF Restart
  <2>5. outcome'[r] = "none" => Active(r) /\ depth[r] = 0 /\ Past(r) = {}
    <3>1. at[r] \in 1..13
      BY DEF TypeInv, DbTypeOK, Positions
    <3>2. outcome'[r] = "none" => at[r] = 1 /\ ~ failed[r] /\ outcome[r] = "none"
      BY <2>4, <3>1 DEF Started
    <3>3. OperationOf[r] \in {"PlaceOrder", "MarkOrderPaid", "UpdateOrderStatus"}
      BY WritesAre
    <3> QED BY <3>2, <3>3, WritesAre DEF Active, Past, TypeInv, Shape, ShapeOf, DepthAt
  <2>6. outcome[r] = "none" => WritesOf(r) \cap committed \in {{}, WritesOf(r)}
    <3>1. ASSUME Active(r), depth[r] = 0 PROVE Past(r) \in {{}, WritesOf(r)}
      <4>1. at[r] \in Positions
        BY DEF TypeInv, DbTypeOK
      <4>2. \/ OperationOf[r] = "PlaceOrder" /\ at[r] \in {1, 13}
            \/ OperationOf[r] = "MarkOrderPaid" /\ at[r] \in {1, 8}
            \/ OperationOf[r] = "UpdateOrderStatus" /\ at[r] \in {1, 2, 3}
        BY <3>1, <4>1, WritesAre DEF TypeInv, Shape, ShapeOf, DepthAt, EndAt, Positions
      <4> QED BY <4>2, WritesAre DEF Past
    <3>2. depth[r] \in {0, 1, 2} /\ failed[r] \in BOOLEAN
      BY DEF TypeInv, DbTypeOK, Depths
    <3> QED BY <2>1, <3>1, <3>2 DEF Writes, Active
  <2>7. AtomicRequest(r)'
    BY <2>1, <2>3, <2>4, <2>6 DEF Writes, AtomicRequest
  <2> QED BY <2>1, <2>2, <2>3, <2>4, <2>5, <2>7 DEF Calls, Writes, Active
<1> QED BY <1>2 DEF LoneInv, Restart, Solo, HandleFollowsCalls

(* The invariant holds in every behaviour. *)
LEMMA LoneAlways == ASSUME HandleAssumption PROVE Spec => [](TypeInv /\ LoneInv)
<1>1. Init => TypeInv /\ LoneInv
  BY TypeInit, LoneInit
<1>2. TypeInv /\ LoneInv /\ [Next]_vars => TypeInv' /\ LoneInv'
  <2>1. ASSUME TypeInv, LoneInv, UNCHANGED vars PROVE TypeInv' /\ LoneInv'
    <3>1. TypeInv'
      <4>1. DbTypeOK'
        BY <2>1 DEF vars, TypeInv, DbTypeOK
      <4>2. Shape'
        BY <2>1 DEF vars, TypeInv, Shape, ShapeOf, Active, Top
      <4> QED BY <4>1, <4>2 DEF TypeInv
    <3>2. LoneInv'
      <4>1. ASSUME NEW r \in Requests PROVE Calls(r)' = Calls(r) /\ Writes(r)' = Writes(r)
        <5>1. Calls(r)' = Calls(r)
          BY <2>1 DEF vars, Calls, Own
        <5>2. Active(r)' = Active(r) /\ Past(r)' = Past(r) /\ WritesOf(r)' = WritesOf(r)
          BY <2>1 DEF vars, Active, Past, WritesOf, ScriptOf
        <5>3. Writes(r)' = Writes(r)
          BY <2>1, <5>2 DEF vars, Writes, AtomicRequest
        <5> QED BY <5>1, <5>3
      <4>2. Solo' = Solo /\ HandleFollowsCalls' = HandleFollowsCalls /\ mixed' = mixed
        BY <2>1 DEF vars, Solo, HandleFollowsCalls, Top
      <4> QED BY <2>1, <4>1, <4>2 DEF LoneInv
    <3> QED BY <3>1, <3>2
  <2> QED BY <2>1, TypeStep, TypeRestart, LoneStep, LoneRestart DEF Next
<1> QED BY <1>1, <1>2, PTL DEF Spec

(* Nesting, failing statements and restarts put the handle back as long as
   requests do not overlap: WithTransaction, pkg/dbs/dbs.go:77-84 *)
THEOREM HandleRestored == ASSUME HandleAssumption PROVE Spec => []HandleFollowsCalls
<1>1. LoneInv => HandleFollowsCalls
  BY DEF LoneInv, HandleFollowsCalls
<1> QED BY <1>1, LoneAlways, PTL

(* As long as requests do not overlap, each of them is atomic and its answer
   says what became of it, for any number of requests and restarts *)
THEOREM LoneRequestsAtomic == ASSUME HandleAssumption PROVE Spec => []LoneRequestsAreAtomic
<1>1. LoneInv => LoneRequestsAreAtomic
  BY DEF LoneInv, Writes, LoneRequestsAreAtomic
<1> QED BY <1>1, LoneAlways, PTL

-----------------------------------------------------------------------------
(* However requests overlap: a handle that is left over is of no use *)

(* A transaction that goes on is that of a call that is under way and that began it *)
Live(c) == conn[c] \in {"open", "aborted"}

LiveIsHeld ==
    \A r \in Requests, d \in Depths :
      Live(<<r, d>>) => depth[r] >= d /\ frame[r][d].on = Root

(* A nested call stands on a transaction that was begun *)
NestedOnBegun ==
    \A r \in Requests, d \in Depths :
      d <= depth[r] /\ frame[r][d].on # Root => conn[frame[r][d].on] # "none"

HeldInv == LiveIsHeld /\ NestedOnBegun

(* No transaction goes on at the start. *)
LEMMA HeldInit == Init => HeldInv
BY DEF Init, HeldInv, LiveIsHeld, NestedOnBegun, Live, Conns, NoFrame, Depths

(* A step of a request keeps the transactions with those who began them. *)
LEMMA HeldStep ==
    ASSUME HandleAssumption, TypeInv, HeldInv, NEW r \in Requests, Run(r)
    PROVE  HeldInv'
<1> USE DEF HeldInv
<1>1. /\ conn \in [Conns -> {"none", "open", "aborted", "done"}]
      /\ depth \in [Requests -> {0, 1, 2}] /\ frame \in [Requests -> [Depths -> Frames]]
      /\ handle \in Handles /\ Depths = {1, 2}
  BY DEF TypeInv, DbTypeOK, Depths
<1>2. \A s \in Requests, d \in Depths :
        /\ <<s, d>> \in Conns /\ frame[s][d] \in Frames
        /\ frame[s][d].on # Root => frame[s][d].on \in Conns
  BY <1>1 DEF Conns, Frames, Handles
<1>3. CASE OpenRoot(r)
  <2>1. /\ conn' = [conn EXCEPT ![<<r, depth[r] + 1>>] = "open"]
        /\ depth' = [depth EXCEPT ![r] = @ + 1]
        /\ \A s \in Requests, d \in Depths :
             frame'[s][d].on = IF s = r /\ d = depth[r] + 1 THEN Root ELSE frame[s][d].on
    BY <1>1, <1>3 DEF OpenRoot, Push
  <2>2. LiveIsHeld'
    <3> SUFFICES ASSUME NEW s \in Requests, NEW d \in Depths, Live(<<s, d>>)'
                 PROVE  depth'[s] >= d /\ frame'[s][d].on = Root
      BY DEF LiveIsHeld
    <3>1. CASE s = r /\ d = depth[r] + 1
      BY <1>1, <2>1, <3>1
    <3>2. CASE ~ (s = r /\ d = depth[r] + 1)
      <4>1. conn'[<<s, d>>] = conn[<<s, d>>]
        BY <1>1, <1>2, <2>1, <3>2
      <4>2. depth[s] >= d /\ frame[s][d].on = Root
        BY <4>1 DEF LiveIsHeld, Live
      <4> QED BY <1>1, <2>1, <3>2, <4>2
    <3> QED BY <3>1, <3>2
  <2>3. NestedOnBegun'
    BY <1>1, <1>2, <2>1 DEF NestedOnBegun
  <2> QED BY <2>2, <2>3
<1>4. CASE OpenNested(r)
  <2>1. /\ conn' = conn /\ conn[handle] = "open" /\ handle # Root
        /\ depth' = [depth EXCEPT ![r] = @ + 1]
        /\ \A s \in Requests, d \in Depths :
             frame'[s][d].on = IF s = r /\ d = depth[r] + 1 THEN handle ELSE frame[s][d].on
    BY <1>1, <1>4 DEF OpenNested, Push
  <2>2. LiveIsHeld'
    <3> SUFFICES ASSUME NEW s \in Requests, NEW d \in Depths, Live(<<s, d>>)'
                 PROVE  depth'[s] >= d /\ frame'[s][d].on = Root
      BY DEF LiveIsHeld
    <3>1. depth[s] >= d /\ frame[s][d].on = Root
      BY <2>1 DEF LiveIsHeld, Live
    <3> QED BY <1>1, <2>1, <3>1
  <2>3. NestedOnBegun'
    BY <1>1, <1>2, <2>1 DEF NestedOnBegun
  <2> QED BY <2>2, <2>3
<1>5. CASE OpenDead(r) \/ Read(r) \/ Write(r) \/ Reply(r)
  <2>1. UNCHANGED <<conn, depth, frame>>
    BY <1>5 DEF OpenDead, Read, Write, Reply
  <2> QED BY <2>1 DEF LiveIsHeld, NestedOnBegun, Live
<1>6. CASE StatementFails(r)
  <2>1. /\ UNCHANGED <<depth, frame>>
        /\ \/ conn' = conn
           \/ /\ handle # Root /\ conn[handle] = "open"
              /\ conn' = [conn EXCEPT ![handle] = "aborted"]
    BY <1>6 DEF StatementFails
  <2>2. \A c \in Conns : (Live(c)' => Live(c)) /\ (conn[c] # "none" => conn'[c] # "none")
    BY <1>1, <2>1 DEF Live
  <2> QED BY <1>2, <2>1, <2>2 DEF LiveIsHeld, NestedOnBegun
<1>7. CASE Swap(r) \/ Restore(r)
  <2>1. /\ UNCHANGED <<conn, depth>>
        /\ \A s \in Requests, d \in Depths : frame'[s][d].on = frame[s][d].on
    <3>1. PICK i : i = depth[r]
      OBVIOUS
    <3>2. i \in Depths
      <4>1. Doing(r, "swap") => depth[r] > 0
        BY Where DEF Doing, TypeInv, DbTypeOK, Shape, ShapeOf, Active, DepthAt
      <4> QED BY <1>1, <1>7, <3>1, <4>1 DEF Swap, Restore
    <3>3. UNCHANGED <<conn, depth>>
      BY <1>7 DEF Swap, Restore
    <3>4. CASE Swap(r)
      <4>1. frame' = [frame EXCEPT ![r][i].original = handle, ![r][i].stage = "swapped"]
        BY <3>1, <3>4 DEF Swap
      <4>2. \A s \in Requests, d \in Depths : frame'[s][d].on = frame[s][d].on
        BY <1>1, <1>2, <3>2, <4>1 DEF Frames
      <4> QED BY <3>3, <4>2
    <3>5. CASE Restore(r)
      <4>1. frame' = [frame EXCEPT ![r][i].stage = "restored"]
        BY <3>1, <3>5 DEF Restore
      <4>2. \A s \in Requests, d \in Depths : frame'[s][d].on = frame[s][d].on
        BY <1>1, <1>2, <3>2, <4>1 DEF Frames
      <4> QED BY <3>3, <4>2
    <3> QED BY <1>7, <3>4, <3>5
  <2> QED BY <2>1 DEF LiveIsHeld, NestedOnBegun, Live
<1>8. ASSUME depth[r] > 0, Pop(r), Top(r).on = Root, conn' = [conn EXCEPT ![<<r, depth[r]>>] = "done"]
      PROVE  HeldInv'
  <2>1. /\ depth' = [depth EXCEPT ![r] = @ - 1] /\ depth[r] \in Depths
        /\ \A s \in Requests, d \in Depths :
             frame'[s][d].on = IF s = r /\ d = depth[r] THEN Root ELSE frame[s][d].on
    BY <1>1, <1>8 DEF Pop, NoFrame
  <2>2. LiveIsHeld'
    <3> SUFFICES ASSUME NEW s \in Requests, NEW d \in Depths, Live(<<s, d>>)'
                 PROVE  depth'[s] >= d /\ frame'[s][d].on = Root
      BY DEF LiveIsHeld
    <3>1. ~ (s = r /\ d = depth[r])
      BY <1>1, <1>2, <1>8 DEF Live
    <3>2. conn'[<<s, d>>] = conn[<<s, d>>]
      BY <1>1, <1>2, <1>8, <3>1
    <3>3. depth[s] >= d /\ frame[s][d].on = Root
      BY <3>2 DEF LiveIsHeld, Live
    <3> QED BY <1>1, <2>1, <3>1, <3>3
  <2>3. NestedOnBegun'
    BY <1>1, <1>2, <1>8, <2>1 DEF NestedOnBegun
  <2> QED BY <2>2, <2>3
<1>9. ASSUME depth[r] > 0, Pop(r), Top(r).on # Root,
             \A c \in Conns : (Live(c)' => Live(c)) /\ (conn[c] # "none" => conn'[c] # "none")
      PROVE  HeldInv'
  <2>1. /\ depth' = [depth EXCEPT ![r] = @ - 1] /\ depth[r] \in Depths
        /\ \A s \in Requests, d \in Depths :
             frame'[s][d].on = IF s = r /\ d = depth[r] THEN Root ELSE frame[s][d].on
    BY <1>1, <1>9 DEF Pop, NoFrame
  <2>2. LiveIsHeld'
    <3> SUFFICES ASSUME NEW s \in Requests, NEW d \in Depths, Live(<<s, d>>)'
                 PROVE  depth'[s] >= d /\ frame'[s][d].on = Root
      BY DEF LiveIsHeld
    <3>1. depth[s] >= d /\ frame[s][d].on = Root
      BY <1>2, <1>9 DEF LiveIsHeld
    <3>2. s # r \/ d # depth[r]
      BY <1>9, <3>1 DEF Top
    <3> QED BY <1>1, <2>1, <3>1, <3>2
  <2>3. NestedOnBegun'
    <3> SUFFICES ASSUME NEW s \in Requests, NEW d \in Depths,
                        d <= depth'[s], frame'[s][d].on # Root
                 PROVE  conn'[frame'[s][d].on] # "none"
      BY DEF NestedOnBegun
    <3>1. d <= depth[s] /\ ~ (s = r /\ d = depth[r])
      BY <1>1, <2>1
    <3>2. frame'[s][d].on = frame[s][d].on
      BY <2>1, <3>1
    <3>3. conn[frame[s][d].on] # "none" /\ frame[s][d].on \in Conns
      BY <1>2, <3>1, <3>2 DEF NestedOnBegun
    <3> QED BY <1>9, <3>2, <3>3
  <2> QED BY <2>2, <2>3
<1>10. Doing(r, "finish") => depth[r] > 0
  BY Where DEF Doing, TypeInv, DbTypeOK, Shape, ShapeOf, Active, DepthAt
<1>11. CASE Commit(r) \/ Rollback(r)
  BY <1>8, <1>10, <1>11 DEF Commit, Rollback
<1>12. CASE LeaveNested(r)
  BY <1>9, <1>10, <1>12 DEF LeaveNested, Live
<1>13. CASE RollbackNested(r)
  <2>1. depth[r] \in Depths /\ Top(r).on \in Conns /\ conn[Top(r).on] # "none"
    <3>1. depth[r] \in Depths /\ frame[r][depth[r]].on # Root /\ depth[r] <= depth[r]
      BY <1>1, <1>13 DEF RollbackNested, Top
    <3>2. frame[r][depth[r]].on \in Conns
      BY <1>2, <3>1
    <3>3. conn[frame[r][depth[r]].on] # "none"
      BY <3>1 DEF NestedOnBegun
    <3> QED BY <3>1, <3>2, <3>3 DEF Top
  <2>2. \/ conn' = conn
        \/ /\ conn[Top(r).on] # "done"
           /\ \E v \in {"open", "aborted"} : conn' = [conn EXCEPT ![Top(r).on] = v]
    BY <1>13 DEF RollbackNested
  <2>3. \A c \in Conns : (Live(c)' => Live(c)) /\ (conn[c] # "none" => conn'[c] # "none")
    BY <1>1, <2>1, <2>2 DEF Live
  <2> QED BY <1>9, <1>13, <2>3 DEF RollbackNested
<1> QED BY <1>3, <1>4, <1>5, <1>6, <1>7, <1>11, <1>12, <1>13 DEF Run

(* What is open when the process dies is rolled back. *)
LEMMA HeldRestart == ASSUME HeldInv, Restart PROVE HeldInv'
BY DEF HeldInv, LiveIsHeld, NestedOnBegun, Live, Restart, Conns, NoFrame, Depths

(* Every transaction that goes on is held by a call, in every behaviour. *)
LEMMA HeldAlways == ASSUME HandleAssumption PROVE Spec => [](TypeInv /\ HeldInv)
<1>1. Init => HeldInv
  BY HeldInit
<1>2. TypeInv /\ HeldInv /\ [Next]_vars => HeldInv'
  <2>1. ASSUME HeldInv, UNCHANGED vars PROVE HeldInv'
    BY <2>1 DEF vars, HeldInv, LiveIsHeld, NestedOnBegun, Live
  <2> QED BY <2>1, HeldStep, HeldRestart DEF Next
<1> QED BY <1>1, <1>2, DbTypeCorrect, PTL DEF Spec

(* Nobody can use a handle that is left over when no request is under way. *)
LEMMA StuckStep ==
    ASSUME HandleAssumption, TypeInv, HeldInv, Next,
           \A r \in Requests : depth[r] = 0, handle # Root
    PROVE  committed' = committed /\ (handle' = handle \/ Restart)
<1>1. CASE Restart
  BY <1>1 DEF Restart
<1>2. ASSUME NEW r \in Requests, Run(r) PROVE committed' = committed /\ handle' = handle
  <2>1. handle \in Conns /\ conn[handle] # "open"
    <3>1. handle \in Conns
      BY DEF TypeInv, DbTypeOK, Handles
    <3>2. PICK s \in Requests, d \in Depths : handle = <<s, d>>
      BY <3>1 DEF Conns
    <3>3. depth[s] = 0 /\ ~ (0 >= d)
      BY DEF Depths
    <3>4. ~ Live(<<s, d>>)
      BY <3>3 DEF HeldInv, LiveIsHeld
    <3> QED BY <3>1, <3>2, <3>4 DEF Live
  <2>2. ~ Usable(handle)
    BY <2>1 DEF Usable
  <2>3. ~ Doing(r, "swap") /\ ~ Doing(r, "finish")
    BY Where DEF Doing, TypeInv, DbTypeOK, Shape, ShapeOf, Active, DepthAt
  <2>4. ~ (depth[r] > 0)
    OBVIOUS
  <2> QED BY <1>2, <2>1, <2>2, <2>3, <2>4
    DEF Run, OpenRoot, OpenNested, OpenDead, Swap, Read, Write, StatementFails, Restore, Commit,
        LeaveNested, Rollback, RollbackNested, Reply
<1> QED BY <1>1, <1>2 DEF Next

(* A transaction that is left as the handle when every request is over has
   ended: nothing is written any more, and nothing but a restart puts the pool
   back, whatever requests come (pkg/dbs/dbs.go:77-84) *)
THEOREM LeftoverIsDead == ASSUME HandleAssumption PROVE Spec => StuckUntilRestart
<1>1. TypeInv /\ HeldInv /\ [Next]_vars =>
        [(\A r \in Requests : depth[r] = 0) /\ handle # Root
           => committed' = committed /\ (handle' = handle \/ Restart)]_vars
  BY StuckStep
<1> QED BY <1>1, HeldAlways, PTL DEF Spec, StuckUntilRestart

=============================================================================
