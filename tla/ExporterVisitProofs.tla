------------------------ MODULE ExporterVisitProofs -------------------------
(***************************************************************************)
(* The copies that exporters make, continued: a call of the destination,   *)
(* the export of a version with what it references, and the visit of a     *)
(* version leave every destination as the log has it (CopyInv).            *)
(***************************************************************************)
EXTENDS ExporterProofs

\* A leaf that names no prover is proved by Zenon.
USE Zenon

-----------------------------------------------------------------------------
(***************************************************************************)
(* Calls of the destination.                                               *)
(***************************************************************************)
LEMMA Puts ==
    ASSUME Step, InJob, NEW k \in Keys, NEW v \in Kinds
    PROVE  /\ Put(k, v) \in [Dests -> [Keys -> Kinds]]
           /\ \A d : d # job.dest => Put(k, v)[d] = dst[d]
           /\ \A j \in Keys : Put(k, v)[job.dest][j] = IF j = k THEN v ELSE Here[j]
<1>1. dst \in [Dests -> [Keys -> Kinds]] /\ job.dest \in Dests
  BY DEF Step, CopyInv, WorkInv, WorkTypes, Jobs
<1> DEFINE h == [dst[job.dest] EXCEPT ![k] = v]
<1>2. Put(k, v) = [dst EXCEPT ![job.dest] = h]
  BY DEF Put
<1>3. h \in [Keys -> Kinds] /\ \A j \in Keys : h[j] = IF j = k THEN v ELSE Here[j]
  BY <1>1 DEF Here
<1> HIDE DEF h
<1> QED  BY <1>1, <1>2, <1>3, SMT

LEMMA DeleteEffect ==
    ASSUME Step, InJob, NEW k \in Keys, NEW permanent \in BOOLEAN
    PROVE  LET call == DeleteVersion(k, permanent)
           IN /\ \/ call.dst = dst
                 \/ ~permanent /\ Here[k] = "live" /\ call.dst = Put(k, "deleted")
                 \/ permanent /\ Here[k] = "deleted" /\ call.dst = Put(k, "absent")
              /\ call.is = "ok" /\ ~permanent => call.dst[job.dest][k] # "live"
              /\ call.is = "ok" /\ permanent /\ Here[k] # "live" => call.dst[job.dest][k] = "absent"
<1>1. Put(k, "deleted")[job.dest][k] = "deleted" /\ Put(k, "absent")[job.dest][k] = "absent"
  BY Puts DEF Kinds
<1>2. NotPermitted # "ok"
  BY DEF NotPermitted
<1>3. Here[k] \in Kinds
  BY DEF Step, CopyInv, WorkInv, WorkTypes, Jobs, Here
<1>4. CASE permanent
  BY <1>1, <1>2, <1>3, <1>4 DEF DeleteVersion, Here, Kinds
<1>5. CASE ~permanent
  BY <1>1, <1>2, <1>3, <1>5 DEF DeleteVersion, Here, Kinds
<1> QED  BY <1>4, <1>5

\* A write of one version that is good for every exporter behind the worker.
LEMMA PutKept ==
    ASSUME Step, InJob, UNCHANGED <<rows, snap, log>>, NEW k \in Keys, NEW v \in Kinds,
           dst' = dst \/ dst' = Put(k, v), Ever(k, "live"),
           dst' # dst /\ k \in Selected /\ Follow(k) =>
               \A x \in 0..at : GoodKey(k, Here[k], x) => GoodKey(k, v, x)
    PROVE  DstKept /\ Heard' /\ dst' \in [Dests -> [Keys -> Kinds]]
<1>1. CASE dst' = dst
  BY <1>1, HeardLater DEF DstKept, Step, CopyInv, WorkInv, WorkTypes
<1>2. CASE dst' # dst
  <2>1. /\ dst' \in [Dests -> [Keys -> Kinds]]
        /\ \A d : d # job.dest => dst'[d] = dst[d]
        /\ \A j \in Keys : dst'[job.dest][j] = IF j = k THEN v ELSE dst[job.dest][j]
    BY <1>2, Puts, SMT DEF Here
  <2>2. DstKept
    <3>1. Selected \subseteq Keys
      BY ExporterAssumption
    <3>2. ASSUME NEW j \in Selected, Follow(j), NEW x \in 0..at, GoodKey(j, dst[job.dest][j], x)
          PROVE  GoodKey(j, dst'[job.dest][j], x)
      <4>1. CASE j = k
        BY <1>2, <2>1, <3>2, <4>1 DEF Here
      <4>2. CASE j # k
        BY <2>1, <3>1, <3>2, <4>2
      <4> QED  BY <4>1, <4>2
    <3> QED  BY <2>1, <3>2 DEF DstKept
  <2>3. Heard'
    <3>1. \A j : Ever(j, "live") => Ever(j, "live")'
      BY Later DEF Step, IInv
    <3> QED  BY <2>1, <3>1 DEF Step, CopyInv, KeyInv, Heard
  <2> QED  BY <2>1, <2>2, <2>3
<1> QED  BY <1>1, <1>2

LEMMA HaltKeeps ==
    ASSUME Step, InJob, DstKept, Heard', dst' \in [Dests -> [Keys -> Kinds]], UNCHANGED floor,
           NEW STATE state, Halt(state)
    PROVE  CopyInv'
<1>1. PICK st, a, d : st = state /\ a = at /\ d = job.dest
  OBVIOUS
<1>2. exporters' = ExporterState(job.name, at, a, st) /\ Leave
  BY <1>1 DEF Halt, ExporterState
<1> QED  BY <1>1, <1>2, EndKeeps

\* A call ends the attempt or is answered and accepted.
LEMMA SendCases ==
    ASSUME NEW STATE call, NEW fate, NEW ACTION next, Send(call, fate, next)
    PROVE  /\ UNCHANGED <<rows, snap, log, floor, early, copies>>
           /\ dst' = dst \/ dst' = call.dst
           /\ \/ \E st : st = "ERROR" /\ Halt(st)
              \/ Halt(call.is)
              \/ next /\ dst' = call.dst /\ call.is = "ok"
<1>1. UNCHANGED <<rows, snap, log, floor, early, copies>> /\ (dst' = dst \/ dst' = call.dst)
  BY DEF Send, Work, source
<1>2. CASE fate # "answered"
  BY <1>1, <1>2 DEF Send
<1>3. CASE fate = "answered"
  <2>1. dst' = call.dst
    BY <1>3 DEF Send
  <2> QED  BY <1>1, <1>3, <2>1 DEF Send
<1> QED  BY <1>2, <1>3

LEMMA SendKeeps ==
    ASSUME Step, InJob, NEW STATE call, NEW fate, NEW ACTION next, Send(call, fate, next),
           DstKept, Heard', dst' \in [Dests -> [Keys -> Kinds]]
    PROVE  CopyInv' \/ (next /\ dst' = call.dst /\ call.is = "ok")
<1>1. /\ UNCHANGED floor
      /\ \/ \E st : st = "ERROR" /\ Halt(st)
         \/ Halt(call.is)
         \/ next /\ dst' = call.dst /\ call.is = "ok"
  BY SendCases
<1>2. ASSUME NEW st, Halt(st) PROVE CopyInv'
  BY <1>1, <1>2, HaltKeeps
<1>3. CASE Halt(call.is)
  BY <1>1, <1>3, HaltKeeps
<1> QED  BY <1>1, <1>2, <1>3

LEMMA EnsureKeeps ==
    ASSUME Step, InJob, NEW fate, NEW ACTION next, EnsureImportMode(fate, next)
    PROVE  CopyInv' \/ (next /\ UNCHANGED <<rows, snap, log, floor, dst, early, copies>>)
<1>1. UNCHANGED <<rows, snap, log, floor, dst, early, copies>>
  BY DEF EnsureImportMode, Work, source
<1>2. (\E st : Halt(st)) \/ next
  BY DEF EnsureImportMode
<1>3. DstKept /\ Heard' /\ dst' \in [Dests -> [Keys -> Kinds]]
  BY <1>1, HeardLater DEF DstKept, Step, CopyInv, WorkInv, WorkTypes
<1>4. ASSUME NEW st, Halt(st) PROVE CopyInv'
  BY <1>1, <1>3, <1>4, HaltKeeps
<1> QED  BY <1>1, <1>2, <1>4

-----------------------------------------------------------------------------
(***************************************************************************)
(* Steps within an attempt.                                                *)
(***************************************************************************)
LEMMA SameLog ==
    ASSUME UNCHANGED <<rows, snap, log>>
    PROVE  /\ \A k, kind, x : Has(k, kind, x)' <=> Has(k, kind, x)
           /\ \A k, kind : Ever(k, kind)' <=> Ever(k, kind)
           /\ \A k : Shown(k)' <=> Shown(k)
           /\ \A k, x : Redo(k, x)' <=> Redo(k, x)
           /\ \A k : Above(k)' = Above(k)
BY SMT DEF Has, Ever, Shown, Redo, At, Above

\* The worker goes on with the same record, at the same offset.
GoesOn ==
    /\ UNCHANGED <<rows, snap, log, exporters, todo, job, at, until, floor>>
    /\ (pc \in Reading /\ pc' \in Reading) \/ (pc \in Copying /\ pc' \in Copying)

LEMMA GoesOnKeeps ==
    ASSUME Step, GoesOn, DstKept
    PROVE  /\ Jobs' /\ Cursors' /\ Stored' /\ Listed' /\ Standing'
           /\ InJob /\ InJob' /\ Pos' = Pos
<1>1. InJob /\ InJob' /\ Pos' = Pos
  BY DEF GoesOn, InJob, Pos, Reading, Copying
<1>2. Jobs'
  BY <1>1 DEF Step, CopyInv, WorkInv, Jobs, GoesOn, InJob, Reading, Copying
<1>3. Cursors'
  BY <1>1 DEF Step, CopyInv, WorkInv, Cursors, GoesOn, Reading, Copying
<1>4. Stored'
  BY StoredKept DEF GoesOn
<1>5. Listed'
  BY ListedKept DEF GoesOn
<1>6. Standing'
  BY StandingKept DEF GoesOn, Reading, Copying
<1> QED  BY <1>1, <1>2, <1>3, <1>4, <1>5, <1>6

\* The copy's set of versions does not change, and no others are exported.
LEMMA CopiesKept ==
    ASSUME Step, GoesOn, UNCHANGED <<current, copies>>, pc' \in {"copy", "reconcile"} => pc \in {"copy", "reconcile"},
           \A k \in exported' : \/ k \in exported \cup current
                                \/ \E j \in exported : k \in Refs[j]
    PROVE  Copies'
<1> SUFFICES ASSUME pc \in {"copy", "reconcile"} PROVE Copies'
  BY DEF Copies
<1> USE DEF Step
<1>1. PICK c \in until..Len(log) :
            /\ \A k \in exported \cup current : Has(k, "live", c)
            /\ \A k \in Keys : Follow(k) /\ Has(k, "live", c) => k \in current
  BY DEF CopyInv, WorkInv, Copies
<1>2. copies /\ until \in Nat /\ Len(log) \in Nat /\ c \in Nat /\ exported \subseteq Keys
  BY SMT DEF CopyInv, WorkInv, Copies, WorkTypes, IInv, Shape
<1>3. ASSUME NEW j \in exported, NEW k \in Refs[j] PROVE Has(k, "live", c)
  <2>1. PICK i \in 1..c : At(j, "live", i)
    BY <1>1 DEF Has
  <2>2. i \in 1..Len(log) /\ i \in Nat
    BY <1>2, SMT
  <2>3. Has(k, "live", i)
    BY <1>2, <2>1, <2>2 DEF SourceInv, RefsFirst
  <2> QED  BY <1>2, <2>2, <2>3, SMT DEF Has
<1>4. \A k \in exported' \cup current' : Has(k, "live", c)
  BY <1>1, <1>3
<1>5. (\A k, x : Has(k, "live", x)' <=> Has(k, "live", x)) /\ \A k : Follow(k)' => Follow(k)
  BY SameLog, Later DEF GoesOn, IInv
<1>6. /\ \A k \in exported' \cup current' : Has(k, "live", c)'
      /\ \A k \in Keys : Follow(k)' /\ Has(k, "live", c)' => k \in current'
  BY <1>1, <1>4, <1>5
<1>7. c \in until'..Len(log') /\ copies'
  BY <1>2 DEF GoesOn
<1> QED  BY <1>6, <1>7 DEF Copies

\* What is gone was deleted before, and what was deleted was registered before.
LEMMA Chain ==
    ASSUME Shape, SourceInv, NEW k \in Keys
    PROVE  /\ \A x \in 0..Len(log) : /\ Has(k, "absent", x) => Has(k, "deleted", x)
                                     /\ Has(k, "deleted", x) => Has(k, "live", x)
           /\ Ever(k, "absent") => Ever(k, "deleted")
           /\ Ever(k, "deleted") => Ever(k, "live")
           /\ Shown(k) => Ever(k, "live")
<1>0. Len(log) \in Nat
  BY SMT DEF Shape
<1>1. ASSUME NEW x \in 0..Len(log), Has(k, "absent", x) PROVE Has(k, "deleted", x)
  <2>1. PICK i \in 1..x : At(k, "absent", i)
    BY <1>1 DEF Has
  <2>2. Has(k, "deleted", i)
    BY <1>0, <2>1, SMT DEF SourceInv, Ordered
  <2> QED  BY <1>0, <2>2, SMT DEF Has
<1>2. ASSUME NEW x \in 0..Len(log), Has(k, "deleted", x) PROVE Has(k, "live", x)
  <2>1. PICK i \in 1..x : At(k, "deleted", i)
    BY <1>2 DEF Has
  <2>2. Has(k, "live", i)
    BY <1>0, <2>1, SMT DEF SourceInv, Ordered
  <2> QED  BY <1>0, <2>2, SMT DEF Has
<1>3. Len(log) \in 0..Len(log)
  BY <1>0, SMT
<1>4. (Ever(k, "absent") => Ever(k, "deleted")) /\ (Ever(k, "deleted") => Ever(k, "live"))
  BY <1>1, <1>2, <1>3 DEF Ever
<1>5. Shown(k) => Ever(k, "live")
  BY <1>4 DEF Shown, SourceInv, Rowed
<1> QED  BY <1>1, <1>2, <1>4, <1>5

\* The version on top of the stack, by what is known of all under export.
LEMMA TopFacts ==
    ASSUME Step, Busy
    PROVE  /\ InJob /\ Top \in Frame /\ Top \in FramesOf(stack) /\ Top.key \in Keys
           /\ stack \in Seq(Frame) /\ stack # <<>> /\ Distinct(stack)
           /\ Ever(Top.key, "live")
           /\ Top.key \in Selected /\ Follow(Top.key) =>
                 /\ Top.kind = "live" => ~Has(Top.key, "deleted", Pos)
                 /\ Top.kind = "deleted" => Ever(Top.key, "deleted")
                 /\ Top.step = "mirror" => Top.kind = "deleted" /\ Here[Top.key] = "live"
                 /\ \A x \in 0..at : ~Has(Top.key, "absent", x)
                 /\ \A x \in 0..at : Has(Top.key, "deleted", x) => Redo(Top.key, x)
<1> USE DEF Step
<1>1. /\ InJob /\ stack \in Seq(Frame) /\ stack # <<>> /\ Distinct(stack)
      /\ pc \in {"version", "copy"}
  BY DEF Busy, InJob, CopyInv, WorkInv, WorkTypes, Reading, Copying
<1>2. PICK f : f = Top
  OBVIOUS
<1>3. f \in Frame /\ f \in FramesOf(stack)
  BY <1>1, <1>2, TopAndTail
<1>4. f.key \in Keys
  BY <1>3 DEF Frame
<1>5. Ever(f.key, "live")
  <2>1. Shown(f.key)
    BY <1>3 DEF CopyInv, WorkInv, Frames
  <2> QED  BY <1>4, <2>1, Chain DEF IInv
<1>6. ASSUME f.key \in Selected, Follow(f.key)
      PROVE  /\ f.kind = "live" => ~Has(f.key, "deleted", Pos)
             /\ f.kind = "deleted" => Ever(f.key, "deleted")
             /\ f.step = "mirror" => f.kind = "deleted" /\ Here[f.key] = "live"
             /\ \A x \in 0..at : ~Has(f.key, "absent", x)
             /\ \A x \in 0..at : Has(f.key, "deleted", x) => Redo(f.key, x)
  <2>1. /\ f.kind = "live" => ~Has(f.key, "deleted", Pos)
        /\ f.kind = "deleted" => Ever(f.key, "deleted")
        /\ ~Has(f.key, "absent", Pos)
        /\ f.step = "mirror" => f.kind = "deleted" /\ Here[f.key] = "live"
    BY <1>1, <1>3, <1>6 DEF CopyInv, KeyInv, FrameGood, WorkInv, Frames
  <2>2. CASE pc = "version"
    <3>1. /\ Event.kind = "live" /\ Event.key \in Selected /\ Shown(Event.key) /\ Event.key \in Above(f.key)
      BY <1>1, <1>3, <2>2 DEF CopyInv, WorkInv, Reads
    <3>2. at \in Nat /\ at + 1 <= Len(log) /\ Len(log) \in Nat
      BY <2>2, SMT DEF IInv, Shape, Place, Reading
    <3>3. Pos = at
      BY <2>2 DEF Pos, Reading
    <3>4. \A x \in 0..at : ~Has(f.key, "absent", x)
      BY <2>1, <3>2, <3>3, SMT DEF Has
    <3>5. \A x \in 0..at : Redo(f.key, x)
      BY <3>1, <3>2, SMT DEF Redo, Event
    <3> QED  BY <2>1, <3>4, <3>5
  <2>3. CASE pc = "copy"
    <3>1. at = 0
      BY <2>3 DEF CopyInv, WorkInv, Cursors, Copying
    <3> QED  BY <2>1, <3>1, SMT DEF Has
  <2> QED  BY <1>1, <2>2, <2>3
<1> QED  BY <1>1, <1>2, <1>3, <1>4, <1>5, <1>6

LEMMA ExportCopies ==
    ASSUME Step, \E fate : ExportMode(fate) \/ ExportPost(fate) \/ ExportMirror(fate)
    PROVE  CopyInv'
\* What each call may do to the version it is about.
<1>PostEffect. ASSUME InJob, NEW k \in Keys
      PROVE  /\ PostVersion(k).dst = dst \/ PostVersion(k).dst = Put(k, "live")
             /\ PostVersion(k).is = "ok" => PostVersion(k).dst[job.dest][k] = "live"
  <2> USE <1>PostEffect
  <2>1. Put(k, "live")[job.dest][k] = "live"
    BY Puts DEF Kinds
  <2>2. NotPermitted # "ok"
    BY DEF NotPermitted
  <2> QED  BY <2>1, <2>2 DEF PostVersion, Here
\* A step of the version on top of the stack, once its references are exported.
<1>TopStep. ASSUME GoesOn, DstKept, Busy, UNCHANGED <<pc, current, exported, early, copies>>,
             dst' \in [Dests -> [Keys -> Kinds]], Heard', Top.refs = {},
             stack' \in Seq(Frame), Distinct(stack)',
             \A g \in FramesOf(stack') :
                 \/ g \in FramesOf(stack) /\ g.key # Top.key
                 \/ g.key = Top.key /\ g.kind = Top.kind /\ g.refs = {} /\ (g.step = "mirror" => g.kind = "deleted"),
             \A g \in FramesOf(stack) : g.key = Top.key \/ g \in FramesOf(stack'),
             \A j \in Keys : j # Top.key => dst'[job.dest][j] = Here[j],
             Top.key \in Selected /\ Follow(Top.key) =>
                 /\ \A g \in FramesOf(stack') : g.key = Top.key /\ g.step = "mirror" => dst'[job.dest][Top.key] = "live"
                 /\ (\A g \in FramesOf(stack') : g.key # Top.key) /\ ~Ever(Top.key, "absent") =>
                       /\ dst'[job.dest][Top.key] # "absent"
                       /\ ~Ever(Top.key, "deleted") => dst'[job.dest][Top.key] = "live"
                       /\ Has(Top.key, "deleted", Pos) => dst'[job.dest][Top.key] = "deleted"
      PROVE  CopyInv'
  <2>Goes. /\ GoesOn /\ DstKept /\ UNCHANGED <<pc, current, exported, early, copies>>
    BY <1>TopStep
  <2>Held. /\ Busy /\ Heard' /\ Top.refs = {} /\ dst' \in [Dests -> [Keys -> Kinds]]
           /\ \A j \in Keys : j # Top.key => dst'[job.dest][j] = Here[j]
    BY <1>TopStep
  <2>Stack. /\ stack' \in Seq(Frame) /\ Distinct(stack)'
            /\ \A g \in FramesOf(stack') :
                   \/ g \in FramesOf(stack) /\ g.key # Top.key
                   \/ g.key = Top.key /\ g.kind = Top.kind /\ g.refs = {} /\ (g.step = "mirror" => g.kind = "deleted")
            /\ \A g \in FramesOf(stack) : g.key = Top.key \/ g \in FramesOf(stack')
    BY <1>TopStep
  <2>Good. Top.key \in Selected /\ Follow(Top.key) =>
               /\ \A g \in FramesOf(stack') : g.key = Top.key /\ g.step = "mirror" => dst'[job.dest][Top.key] = "live"
               /\ (\A g \in FramesOf(stack') : g.key # Top.key) /\ ~Ever(Top.key, "absent") =>
                     /\ dst'[job.dest][Top.key] # "absent"
                     /\ ~Ever(Top.key, "deleted") => dst'[job.dest][Top.key] = "live"
                     /\ Has(Top.key, "deleted", Pos) => dst'[job.dest][Top.key] = "deleted"
    BY <1>TopStep
  <2> USE DEF Step
  <2>1. Jobs' /\ Cursors' /\ Stored' /\ Listed' /\ Standing' /\ InJob /\ InJob' /\ Pos' = Pos
    BY <2>Goes, GoesOnKeeps
  <2>2. /\ \A k, kind, x : Has(k, kind, x)' <=> Has(k, kind, x)
        /\ \A k, kind : Ever(k, kind)' <=> Ever(k, kind)
        /\ \A k : Shown(k)' <=> Shown(k)
        /\ \A k : Above(k)' = Above(k)
    BY <2>Goes, SameLog DEF GoesOn
  <2>3. \A k : Follow(k)' => Follow(k)
    BY Later DEF IInv
  <2>4. /\ pc \in {"version", "copy"} /\ stack # <<>> /\ stack \in Seq(Frame) /\ Distinct(stack)
        /\ exported \subseteq Keys /\ current \subseteq Keys
    BY <2>Held DEF Busy, CopyInv, WorkInv, WorkTypes
  <2>5. PICK top : top = Top
    OBVIOUS
  <2>6. top \in FramesOf(stack) /\ top.key \in exported /\ Refs[top.key] \subseteq exported
    BY <2>Held, <2>4, <2>5, TopAndTail DEF CopyInv, WorkInv, Frames
  <2>7. WorkTypes'
    BY <2>Goes, <2>Held, <2>Stack, <2>1, <2>4 DEF CopyInv, WorkInv, WorkTypes, InJob
  <2>8. Frames'
    <3> SUFFICES ASSUME NEW g \in FramesOf(stack')
                 PROVE  /\ g.key \in exported /\ Shown(g.key)
                        /\ g.refs \subseteq Refs[g.key] /\ Refs[g.key] \ g.refs \subseteq exported
                        /\ g.step # "refs" => g.refs = {}
                        /\ g.step = "mirror" => g.kind = "deleted"
      BY <2>Goes, <2>2 DEF Frames
    <3>1. CASE g \in FramesOf(stack)
      BY <3>1 DEF CopyInv, WorkInv, Frames
    <3>2. CASE g.key = top.key /\ g.refs = {} /\ (g.step = "mirror" => g.kind = "deleted")
      BY <2>6, <3>2 DEF CopyInv, WorkInv, Frames
    <3> QED  BY <2>Stack, <2>5, <3>1, <3>2
  <2>9. \A g \in FramesOf(stack') : \E h \in FramesOf(stack) : h.key = g.key
    BY <2>Stack, <2>5, <2>6
  <2>10. Event' = Event
    BY <2>Goes DEF GoesOn, Event
  <2>11. Reads'
    BY <2>Goes, <2>2, <2>4, <2>9, <2>10 DEF CopyInv, WorkInv, Reads
  <2>12. Copies'
    BY <2>Goes, CopiesKept
  <2>13. Here' = dst'[job.dest]
    BY <2>Goes DEF GoesOn, Here
  <2>14. FrameGood'
    <3> SUFFICES ASSUME NEW g \in FramesOf(stack'), g.key \in Selected, Follow(g.key)'
                 PROVE  /\ g.kind = "live" => ~Has(g.key, "deleted", Pos)
                        /\ g.kind = "deleted" => Ever(g.key, "deleted")
                        /\ ~Has(g.key, "absent", Pos)
                        /\ g.step = "mirror" => dst'[job.dest][g.key] = "live"
      BY <2>1, <2>2, <2>13 DEF FrameGood
    <3>1. Follow(g.key) /\ g.key \in Keys
      BY <2>3, ExporterAssumption
    <3>2. CASE g \in FramesOf(stack) /\ g.key # top.key
      BY <2>Held, <2>1, <2>5, <3>1, <3>2 DEF CopyInv, KeyInv, FrameGood, Here
    <3>3. CASE g.key = top.key /\ g.kind = top.kind
      BY <2>Good, <2>1, <2>5, <2>6, <3>1, <3>3 DEF CopyInv, KeyInv, FrameGood
    <3> QED  BY <2>Stack, <2>5, <3>2, <3>3
  <2>15. DoneGood'
    <3> SUFFICES ASSUME NEW k \in exported \cap Selected, Follow(k)', ~OnStack(k)', ~Ever(k, "absent")
                 PROVE  /\ dst'[job.dest][k] # "absent"
                        /\ ~Ever(k, "deleted") => dst'[job.dest][k] = "live"
                        /\ Has(k, "deleted", Pos) => dst'[job.dest][k] = "deleted"
      BY <2>Goes, <2>1, <2>2, <2>13 DEF DoneGood
    <3>1. Follow(k) /\ k \in Keys /\ \A g \in FramesOf(stack') : g.key # k
      BY <2>3, <2>4 DEF OnStack
    <3>2. CASE k = top.key
      BY <2>Good, <2>5, <3>1, <3>2
    <3>3. CASE k # top.key
      <4>1. ~OnStack(k)
        BY <2>Stack, <2>5, <3>1, <3>3 DEF OnStack
      <4> QED  BY <2>Held, <2>1, <2>5, <3>1, <3>3, <4>1 DEF CopyInv, KeyInv, DoneGood, Here
    <3> QED  BY <3>2, <3>3
  <2>16. EventGood'
    <3>1. pc = "version" => Event.kind = "live"
      BY <2>4 DEF CopyInv, WorkInv, Reads
    <3> QED  BY <2>Goes, <2>10, <3>1 DEF EventGood
  <2>17. Closed'
    <3> SUFFICES ASSUME pc \in Reading, NEW m \in exported, ~OnStack(m)', ~Ever(m, "absent")
                 PROVE  Refs[m] \subseteq exported
      BY <2>Goes, <2>2 DEF Closed
    <3>1. CASE m = top.key
      BY <2>6, <3>1
    <3>2. CASE m # top.key
      <4>1. ~OnStack(m)
        BY <2>Stack, <2>5, <3>2 DEF OnStack
      <4> QED  BY <2>4, <4>1 DEF CopyInv, KeyInv, Closed, Skipped
    <3> QED  BY <3>1, <3>2
  <2> QED  BY <2>Held, <2>1, <2>7, <2>8, <2>11, <2>12, <2>14, <2>15, <2>16, <2>17 DEF CopyInv, WorkInv, KeyInv
\* export_version goes on to the next call for the same version, or is done with it.
<1>TopGoesOn. ASSUME Busy, Stay, UNCHANGED <<rows, snap, log, floor, early, copies>>
      PROVE  GoesOn /\ UNCHANGED <<pc, current, exported, early, copies>>
  BY <1>TopGoesOn DEF GoesOn, Stay, Busy, Reading, Copying
<1>Swaps. ASSUME Busy, Top.refs = {}, NEW step \in {"post", "mirror"}, step = "mirror" => Top.kind = "deleted",
             Goto(step)
      PROVE  /\ stack' \in Seq(Frame) /\ Distinct(stack)'
             /\ \A g \in FramesOf(stack') :
                   \/ g \in FramesOf(stack) /\ g.key # Top.key
                   \/ /\ g.key = Top.key /\ g.kind = Top.kind /\ g.refs = {} /\ g.step = step
                      /\ g.step = "mirror" => g.kind = "deleted"
             /\ \A g \in FramesOf(stack) : g.key = Top.key \/ g \in FramesOf(stack')
             /\ \E g \in FramesOf(stack') : g.key = Top.key
  <2> USE <1>Swaps
  <2>1. PICK f : f = [Top EXCEPT !.step = step]
    OBVIOUS
  <2>2. Top \in Frame /\ stack \in Seq(Frame) /\ stack # <<>> /\ Distinct(stack)
    BY TopFacts
  <2>3. f \in Frame /\ f.key = Top.key /\ f.kind = Top.kind /\ f.refs = {} /\ f.step = step
    BY <2>1, <2>2 DEF Frame
  <2>4. stack' = <<f>> \o Tail(stack)
    BY <2>1 DEF Goto
  <2> HIDE DEF Frame
  <2>5. LET t == <<f>> \o Tail(stack)
        IN /\ t \in Seq(Frame) /\ Distinct(t) /\ t # <<>>
           /\ \A g \in FramesOf(t) : g = f \/ (g \in FramesOf(stack) /\ g.key # f.key)
           /\ \A g \in FramesOf(stack) : g = Top \/ g \in FramesOf(t)
           /\ f \in FramesOf(t)
    BY <2>2, <2>3, Swapped
  <2>6. Distinct(stack)' <=> Distinct(stack')
    BY DEF Distinct
  <2> QED  BY <2>3, <2>4, <2>5, <2>6
<1>Pops. ASSUME Busy, Pop
      PROVE  /\ stack' \in Seq(Frame) /\ Distinct(stack)'
             /\ \A g \in FramesOf(stack') : g \in FramesOf(stack) /\ g.key # Top.key
             /\ \A g \in FramesOf(stack) : g.key = Top.key \/ g \in FramesOf(stack')
  <2> USE <1>Pops
  <2>1. stack' = Tail(stack)
    BY DEF Pop
  <2>2. stack \in Seq(Frame) /\ stack # <<>> /\ Distinct(stack)
    BY TopFacts
  <2>3. /\ Tail(stack) \in Seq(Frame) /\ Distinct(Tail(stack))
        /\ \A f \in FramesOf(Tail(stack)) : f \in FramesOf(stack) /\ f.key # Top.key
        /\ \A f \in FramesOf(stack) : f = Top \/ f \in FramesOf(Tail(stack))
    BY <2>2, TopAndTail
  <2>4. Distinct(stack)' <=> Distinct(stack')
    BY DEF Distinct
  <2> QED  BY <2>1, <2>3, <2>4
<1>ModeCopies. ASSUME NEW fate, ExportMode(fate)
      PROVE  CopyInv'
  <2> USE <1>ModeCopies
  <2>1. Busy /\ InJob /\ Top.refs = {}
    BY TopFacts DEF ExportMode
  <2>2. CopyInv' \/ (Goto("post") /\ Stay /\ UNCHANGED <<rows, snap, log, floor, dst, early, copies>>)
    BY <2>1, EnsureKeeps DEF ExportMode
  <2>3. CASE Goto("post") /\ Stay /\ UNCHANGED <<rows, snap, log, floor, dst, early, copies>>
    <3>1. GoesOn /\ UNCHANGED <<pc, current, exported, early, copies>>
      BY <2>1, <2>3, <1>TopGoesOn
    <3>2. DstKept /\ Heard' /\ dst' \in [Dests -> [Keys -> Kinds]]
      BY <2>3, HeardLater DEF DstKept, Step, CopyInv, WorkInv, WorkTypes
    <3>3. \A j \in Keys : j # Top.key => dst'[job.dest][j] = Here[j]
      BY <2>3 DEF Here
    <3>4. PICK step \in {"post", "mirror"} : step = "post"
      OBVIOUS
    <3>5. /\ stack' \in Seq(Frame) /\ Distinct(stack)'
          /\ \A g \in FramesOf(stack') :
                \/ g \in FramesOf(stack) /\ g.key # Top.key
                \/ /\ g.key = Top.key /\ g.kind = Top.kind /\ g.refs = {} /\ g.step = step
                   /\ g.step = "mirror" => g.kind = "deleted"
          /\ \A g \in FramesOf(stack) : g.key = Top.key \/ g \in FramesOf(stack')
          /\ \E g \in FramesOf(stack') : g.key = Top.key
      BY <2>1, <2>3, <3>4, <1>Swaps
    <3>6. step # "mirror"
      BY <3>4
    <3> QED  BY <2>1, <3>1, <3>2, <3>3, <3>5, <3>6, <1>TopStep
  <2> QED  BY <2>2, <2>3
<1>PostCopies. ASSUME NEW fate, ExportPost(fate)
      PROVE  CopyInv'
  <2> USE <1>PostCopies
  <2> DEFINE next == /\ IF Top.kind = "deleted" THEN Goto("mirror") ELSE Pop
                     /\ Stay /\ UNCHANGED ready
  <2>1. Busy /\ Top.step = "post" /\ Send(PostVersion(Top.key), fate, next)
    BY DEF ExportPost
  <2>2. /\ InJob /\ Top \in Frame /\ Top \in FramesOf(stack) /\ Top.key \in Keys /\ Ever(Top.key, "live")
        /\ Top.key \in Selected /\ Follow(Top.key) =>
                   /\ Top.kind = "live" => ~Has(Top.key, "deleted", Pos)
                   /\ \A x \in 0..at : ~Has(Top.key, "absent", x)
                   /\ \A x \in 0..at : Has(Top.key, "deleted", x) => Redo(Top.key, x)
    BY <2>1, TopFacts
  <2>3. Top.refs = {}
    BY <2>1, <2>2 DEF Step, CopyInv, WorkInv, Frames
  <2>4. PICK k \in Keys : k = Top.key
    BY <2>2
  <2> HIDE DEF next
  <2>5. /\ UNCHANGED <<rows, snap, log, floor, early, copies>>
        /\ dst' = dst \/ dst' = PostVersion(Top.key).dst
    BY <2>1, SendCases
  <2>6. /\ PostVersion(k).dst = dst \/ PostVersion(k).dst = Put(k, "live")
        /\ PostVersion(k).is = "ok" => PostVersion(k).dst[job.dest][k] = "live"
    BY <2>2, <1>PostEffect
  <2>7. k \in Selected /\ Follow(k) => \A x \in 0..at : GoodKey(k, "live", x)
    BY <2>2, <2>4 DEF GoodKey
  <2>8. DstKept /\ Heard' /\ dst' \in [Dests -> [Keys -> Kinds]]
    <3>1. PICK v \in Kinds : v = "live"
      BY DEF Kinds
    <3>2. dst' = dst \/ dst' = Put(k, v)
      BY <2>4, <2>5, <2>6, <3>1
    <3> QED  BY <2>2, <2>4, <2>5, <2>7, <3>1, <3>2, PutKept
  <2>9. CopyInv' \/ (next /\ dst' = PostVersion(Top.key).dst /\ PostVersion(Top.key).is = "ok")
    BY <2>1, <2>2, <2>8, SendKeeps
  <2>10. CASE next /\ dst' = PostVersion(Top.key).dst /\ PostVersion(Top.key).is = "ok"
    <3>1. dst'[job.dest][k] = "live"
      BY <2>4, <2>6, <2>10
    <3>2. \A j \in Keys : j # k => dst'[job.dest][j] = Here[j]
      <4>1. dst' = dst \/ dst' = Put(k, "live")
        BY <2>4, <2>5, <2>6
      <4> QED  BY <2>2, <4>1, Puts, SMT DEF Here, Kinds
    <3>3. Stay /\ (IF Top.kind = "deleted" THEN Goto("mirror") ELSE Pop)
      BY <2>10 DEF next
    <3>4. GoesOn /\ UNCHANGED <<pc, current, exported, early, copies>>
      BY <2>1, <2>5, <3>3, <1>TopGoesOn
    <3>5. CASE Top.kind = "deleted"
      <4>1. PICK step \in {"post", "mirror"} : step = "mirror"
        OBVIOUS
      <4>2. Goto(step)
        BY <3>3, <3>5, <4>1
      <4>3. /\ stack' \in Seq(Frame) /\ Distinct(stack)'
            /\ \A g \in FramesOf(stack') :
                  \/ g \in FramesOf(stack) /\ g.key # Top.key
                  \/ /\ g.key = Top.key /\ g.kind = Top.kind /\ g.refs = {} /\ g.step = step
                     /\ g.step = "mirror" => g.kind = "deleted"
            /\ \A g \in FramesOf(stack) : g.key = Top.key \/ g \in FramesOf(stack')
            /\ \E g \in FramesOf(stack') : g.key = Top.key
        BY <2>1, <2>3, <3>5, <4>2, <1>Swaps
      <4> QED  BY <2>1, <2>3, <2>4, <2>8, <3>1, <3>2, <3>4, <4>3, <1>TopStep
    <3>6. CASE Top.kind # "deleted"
      <4>1. /\ stack' \in Seq(Frame) /\ Distinct(stack)'
            /\ \A g \in FramesOf(stack') : g \in FramesOf(stack) /\ g.key # Top.key
            /\ \A g \in FramesOf(stack) : g.key = Top.key \/ g \in FramesOf(stack')
        BY <2>1, <3>3, <3>6, <1>Pops
      <4>2. Top.kind = "live"
        BY <2>2, <3>6 DEF Frame
      <4> QED  BY <2>1, <2>2, <2>3, <2>4, <2>8, <3>1, <3>2, <3>4, <4>1, <4>2, <1>TopStep
    <3> QED  BY <3>5, <3>6
  <2> QED  BY <2>9, <2>10
<1>MirrorCopies. ASSUME NEW fate, ExportMirror(fate)
      PROVE  CopyInv'
  <2> USE <1>MirrorCopies
  <2> DEFINE next == Pop /\ Stay /\ UNCHANGED ready
  <2>1. Busy /\ Top.step = "mirror" /\ Send(DeleteVersion(Top.key, FALSE), fate, next)
    BY DEF ExportMirror
  <2>2. /\ InJob /\ Top \in FramesOf(stack) /\ Top.key \in Keys /\ Ever(Top.key, "live")
        /\ Top.key \in Selected /\ Follow(Top.key) =>
                   /\ Top.kind = "deleted" => Ever(Top.key, "deleted")
                   /\ Top.step = "mirror" => Top.kind = "deleted" /\ Here[Top.key] = "live"
                   /\ \A x \in 0..at : ~Has(Top.key, "absent", x)
    BY <2>1, TopFacts
  <2>3. Top.refs = {}
    BY <2>1, <2>2 DEF Step, CopyInv, WorkInv, Frames
  <2>4. PICK k \in Keys : k = Top.key
    BY <2>2
  <2>5. PICK permanent \in BOOLEAN : permanent = FALSE
    OBVIOUS
  <2> HIDE DEF next
  <2>6. /\ UNCHANGED <<rows, snap, log, floor, early, copies>>
        /\ dst' = dst \/ dst' = DeleteVersion(Top.key, FALSE).dst
    BY <2>1, SendCases
  <2>7. LET call == DeleteVersion(k, permanent)
        IN /\ \/ call.dst = dst
              \/ ~permanent /\ Here[k] = "live" /\ call.dst = Put(k, "deleted")
              \/ permanent /\ Here[k] = "deleted" /\ call.dst = Put(k, "absent")
           /\ call.is = "ok" /\ ~permanent => call.dst[job.dest][k] # "live"
    BY <2>2, DeleteEffect
  <2>8. LET call == DeleteVersion(Top.key, FALSE)
        IN /\ call.dst = dst \/ (Here[k] = "live" /\ call.dst = Put(k, "deleted"))
           /\ call.is = "ok" => call.dst[job.dest][k] # "live"
    BY <2>4, <2>5, <2>7
  <2>9. k \in Selected /\ Follow(k) => \A x \in 0..at : GoodKey(k, "deleted", x)
    BY <2>1, <2>2, <2>4 DEF GoodKey
  <2>10. DstKept /\ Heard' /\ dst' \in [Dests -> [Keys -> Kinds]]
    <3>1. PICK v \in Kinds : v = "deleted"
      BY DEF Kinds
    <3>2. dst' = dst \/ dst' = Put(k, v)
      BY <2>6, <2>8, <3>1
    <3> QED  BY <2>2, <2>4, <2>6, <2>9, <3>1, <3>2, PutKept
  <2>11. CopyInv' \/ (next /\ dst' = DeleteVersion(Top.key, FALSE).dst /\ DeleteVersion(Top.key, FALSE).is = "ok")
    BY <2>1, <2>2, <2>10, SendKeeps
  <2>12. CASE next /\ dst' = DeleteVersion(Top.key, FALSE).dst /\ DeleteVersion(Top.key, FALSE).is = "ok"
    <3>1. dst' = dst \/ dst' = Put(k, "deleted")
      BY <2>6, <2>8
    <3>2. \A j \in Keys : dst'[job.dest][j] = IF j = k /\ dst' # dst THEN "deleted" ELSE Here[j]
      BY <2>2, <3>1, Puts, SMT DEF Here, Kinds
    <3>3. dst'[job.dest][k] # "live"
      BY <2>8, <2>12
    <3>4. Here[k] = "live" => dst'[job.dest][k] = "deleted"
      BY <3>2, <3>3
    <3>5. Stay /\ Pop
      BY <2>12 DEF next
    <3>6. GoesOn /\ UNCHANGED <<pc, current, exported, early, copies>>
      BY <2>1, <2>6, <3>5, <1>TopGoesOn
    <3>7. /\ stack' \in Seq(Frame) /\ Distinct(stack)'
          /\ \A g \in FramesOf(stack') : g \in FramesOf(stack) /\ g.key # Top.key
          /\ \A g \in FramesOf(stack) : g.key = Top.key \/ g \in FramesOf(stack')
      BY <2>1, <3>5, <1>Pops
    <3>8. /\ \A j \in Keys : j # Top.key => dst'[job.dest][j] = Here[j]
          /\ Top.key \in Selected /\ Follow(Top.key) =>
                /\ dst'[job.dest][Top.key] = "deleted"
                /\ Ever(Top.key, "deleted")
      BY <2>1, <2>2, <2>4, <3>2, <3>4
    <3> QED  BY <2>1, <2>3, <2>10, <3>6, <3>7, <3>8, <1>TopStep
  <2> QED  BY <2>11, <2>12
<1> QED  BY <1>ModeCopies, <1>PostCopies, <1>MirrorCopies

-----------------------------------------------------------------------------
(***************************************************************************)
(* A version is visited.                                                   *)
(***************************************************************************)
\* The event in hand is one of the log.
LEMMA EventFacts ==
    ASSUME Step, pc \in Reading
    PROVE  /\ at \in Nat /\ at + 1 \in 1..Len(log) /\ at + 1 <= until /\ until <= Len(log)
           /\ until \in Nat /\ Len(log) \in Nat
           /\ Event.key \in Keys /\ Event.kind \in Kinds /\ At(Event.key, Event.kind, at + 1)
           /\ Ever(Event.key, Event.kind) /\ Ever(Event.key, "live")
           /\ Pos = at
<1>1. /\ at \in Nat /\ at + 1 \in 1..Len(log) /\ at + 1 <= until /\ until <= Len(log)
      /\ until \in Nat /\ Len(log) \in Nat /\ Shape
  BY SMT DEF Step, IInv, Shape, Place
<1>2. Event.key \in Keys /\ Event.kind \in Kinds /\ At(Event.key, Event.kind, at + 1)
  BY <1>1, Entries DEF Event, At
<1>3. Ever(Event.key, Event.kind)
  BY <1>1, <1>2 DEF Ever, Has
<1>4. PICK k \in Keys, kind \in Kinds : k = Event.key /\ kind = Event.kind
  BY <1>2
<1>5. Ever(k, "live")
  BY <1>1, <1>3, <1>4, Chain DEF Step, Kinds
<1> QED  BY <1>1, <1>2, <1>3, <1>4, <1>5 DEF Pos

\* The stack below the visited version, as it was but for its mark in the frame
\* of the one that references it.
Below(k, below) ==
    /\ below \in Seq(Frame) /\ Distinct(below)
    /\ \A g \in FramesOf(below) : \E h \in FramesOf(stack) :
          /\ h.key = g.key /\ h.kind = g.kind /\ h.step = g.step
          /\ g.refs \subseteq h.refs /\ h.refs \subseteq g.refs \cup {k}
    /\ \A h \in FramesOf(stack) : \E g \in FramesOf(below) : g.key = h.key

LEMMA VisitCopies ==
    ASSUME Step, StartEvent \/ \E k \in Keys : ExportReference(k) \/ CopyVersion(k)
    PROVE  CopyInv'
<1>AboveAbove. ASSUME NEW k, NEW j \in Above(k), NEW i \in Above(j)
      PROVE  i \in Above(k)
  <2>1. Above(k) \in SUBSET Keys
    BY DEF Above
  <2>2. \A m \in Keys : Refs[m] \cap Above(k) # {} => m \in Above(k)
    BY AboveStep
  <2> QED  BY <2>1, <2>2 DEF Above
\* One that was read while all its changes were published is as the log has it.
<1>VisitedKind. ASSUME NEW k \in Keys, NEW below, Visit(k, below), k \notin exported, Follow(k)', Ever(k, "live")
      PROVE  /\ snap[k] = "live" => ~Ever(k, "deleted")
             /\ snap[k] = "deleted" => Ever(k, "deleted")
             /\ snap[k] # "absent" => ~Ever(k, "absent")
             /\ snap[k] = "absent" => Ever(k, "absent")
  <2> USE <1>VisitedKind
  <2>1. snap[k] = rows[k]
    BY DEF Visit, Follow
  <2>2. Once(k)
    BY Later DEF Step, IInv, Follow
  <2> QED  BY <2>1, <2>2 DEF Step, SourceInv, Rowed
<1>VisitedStack. ASSUME NEW k \in Keys, NEW below, Below(k, below), Visit(k, below)
      PROVE  /\ stack' \in Seq(Frame) /\ Distinct(stack)'
             /\ \A g \in FramesOf(stack') :
                   \/ g \in FramesOf(below)
                   \/ /\ k \notin exported /\ snap[k] # "absent"
                      /\ g.key = k /\ g.kind = snap[k] /\ g.refs = Refs[k] /\ g.step = "refs"
             /\ \A g \in FramesOf(below) : g \in FramesOf(stack')
             /\ k \notin exported /\ snap[k] # "absent" => \E g \in FramesOf(stack') : g.key = k
  <2> USE <1>VisitedStack
  <2>1. Distinct(stack)' <=> Distinct(stack')
    BY DEF Distinct
  <2>2. CASE k \in exported \/ snap[k] = "absent"
    <3>1. stack' = below
      BY <2>2 DEF Visit
    <3> QED  BY <2>1, <2>2, <3>1 DEF Below
  <2>3. CASE k \notin exported /\ snap[k] # "absent"
    <3>1. PICK f : f = [key |-> k, kind |-> snap[k], refs |-> Refs[k], step |-> "refs"]
      OBVIOUS
    <3>2. f.key = k /\ f.kind = snap[k] /\ f.refs = Refs[k] /\ f.step = "refs"
      BY <3>1
    <3>3. f \in Frame
      <4>1. snap[k] \in {"live", "deleted"} /\ Refs[k] \subseteq Keys
        BY <2>3, ExporterAssumption DEF Step, SourceInv, SourceTypes, Kinds
      <4> QED  BY <3>1, <4>1 DEF Frame
    <3>4. stack' = <<f>> \o below
      BY <2>3, <3>1 DEF Visit
    <3>5. \A g \in FramesOf(below) : g.key # k
      BY <2>3, SMT DEF Below, Step, CopyInv, WorkInv, Frames
    <3>6. LET t == <<f>> \o below
          IN t \in Seq(Frame) /\ Distinct(t) /\ FramesOf(t) = FramesOf(below) \cup {f}
      BY <3>2, <3>3, <3>5, Pushed, SMT DEF Below
    <3> QED  BY <2>1, <2>3, <3>2, <3>4, <3>6
  <2> QED  BY <2>2, <2>3
<1>VisitStep. ASSUME GoesOn, UNCHANGED <<dst, current, copies>>,
             NEW k \in Keys, NEW below, Below(k, below), Visit(k, below), Ever(k, "live"),
             pc' \in {"version", "copy"}, pc = "version" => stack # <<>>,
             pc' = "version" =>
                 /\ Event.kind = "live" /\ Event.key \in Selected \cap exported' /\ Event.key \in Above(k)
                 /\ Event.key = k \/ Shown(Event.key)
                 /\ pc = "version" \/ stack = <<>>
                 /\ k \notin exported /\ snap[k] = "absent" /\ ~Ever(k, "absent") => Skipped(k)',
             pc' = "copy" =>
                 /\ pc = "copy"
                 /\ k \in current \/ \E j \in exported : k \in Refs[j]
      PROVE  CopyInv'
  <2>Goes. /\ GoesOn /\ UNCHANGED <<dst, current, copies>>
           /\ pc' \in {"version", "copy"} /\ (pc = "version" => stack # <<>>)
    BY <1>VisitStep
  <2>Visits. Below(k, below) /\ Visit(k, below) /\ Ever(k, "live")
    BY <1>VisitStep
  <2>AtVersion. pc' = "version" =>
                    /\ Event.kind = "live" /\ Event.key \in Selected \cap exported' /\ Event.key \in Above(k)
                    /\ Event.key = k \/ Shown(Event.key)
                    /\ pc = "version" \/ stack = <<>>
                    /\ k \notin exported /\ snap[k] = "absent" /\ ~Ever(k, "absent") => Skipped(k)'
    BY <1>VisitStep
  <2>AtCopy. pc' = "copy" =>
                 /\ pc = "copy"
                 /\ k \in current \/ \E j \in exported : k \in Refs[j]
    BY <1>VisitStep
  <2> USE DEF Step
  <2>1. DstKept
    BY <2>Goes DEF DstKept
  <2>2. Jobs' /\ Cursors' /\ Stored' /\ Listed' /\ Standing' /\ InJob /\ InJob' /\ Pos' = Pos
    BY <2>Goes, <2>1, GoesOnKeeps
  <2>3. /\ \A j, kind, x : Has(j, kind, x)' <=> Has(j, kind, x)
        /\ \A j, kind : Ever(j, kind)' <=> Ever(j, kind)
        /\ \A j : Shown(j)' <=> Shown(j)
        /\ \A j : Above(j)' = Above(j)
    BY <2>Goes, SameLog DEF GoesOn
  <2>4. \A j : Follow(j)' => Follow(j)
    BY Later DEF IInv
  <2>5. exported' = exported \cup {k} /\ exported \subseteq Keys /\ current \subseteq Keys
    BY <2>Visits DEF Visit, CopyInv, WorkInv, WorkTypes
  <2>6. /\ stack' \in Seq(Frame) /\ Distinct(stack)'
        /\ \A g \in FramesOf(stack') :
              \/ g \in FramesOf(below)
              \/ /\ k \notin exported /\ snap[k] # "absent"
                 /\ g.key = k /\ g.kind = snap[k] /\ g.refs = Refs[k] /\ g.step = "refs"
        /\ \A g \in FramesOf(below) : g \in FramesOf(stack')
        /\ k \notin exported /\ snap[k] # "absent" => \E g \in FramesOf(stack') : g.key = k
    BY <2>Visits, <1>VisitedStack
  <2>7. Event' = Event /\ Here' = Here
    BY <2>Goes DEF GoesOn, Event, Here
  <2>8. WorkTypes'
    <3>1. dst' \in [Dests -> [Keys -> Kinds]] /\ pc' \in Reading \cup Copying
      BY <2>Goes DEF CopyInv, WorkInv, WorkTypes, Reading, Copying
    <3>2. exported' \subseteq Keys /\ current' \subseteq Keys
      BY <2>Goes, <2>5
    <3> QED  BY <2>Goes, <2>2, <2>6, <3>1, <3>2 DEF WorkTypes
  <2>9. Frames'
    <3> SUFFICES ASSUME NEW g \in FramesOf(stack')
                 PROVE  /\ g.key \in exported' /\ Shown(g.key)
                        /\ g.refs \subseteq Refs[g.key] /\ Refs[g.key] \ g.refs \subseteq exported'
                        /\ g.step # "refs" => g.refs = {}
                        /\ g.step = "mirror" => g.kind = "deleted"
      BY <2>3 DEF Frames
    <3>1. CASE g \in FramesOf(below)
      <4>1. PICK h \in FramesOf(stack) :
                /\ h.key = g.key /\ h.kind = g.kind /\ h.step = g.step
                /\ g.refs \subseteq h.refs /\ h.refs \subseteq g.refs \cup {k}
        BY <2>Visits, <3>1 DEF Below
      <4>2. /\ h.key \in exported /\ Shown(h.key)
            /\ h.refs \subseteq Refs[h.key] /\ Refs[h.key] \ h.refs \subseteq exported
            /\ h.step # "refs" => h.refs = {}
            /\ h.step = "mirror" => h.kind = "deleted"
        BY DEF CopyInv, WorkInv, Frames
      <4> QED  BY <2>5, <4>1, <4>2
    <3>2. CASE /\ snap[k] # "absent"
               /\ g.key = k /\ g.refs = Refs[k] /\ g.step = "refs"
      BY <2>5, <3>2 DEF Shown
    <3> QED  BY <2>6, <3>1, <3>2
  <2>10. Reads'
    <3> SUFFICES ASSUME pc' = "version", stack' # <<>>
                 PROVE  /\ Shown(Event.key)
                        /\ \A g \in FramesOf(stack') : Event.key \in Above(g.key)
      BY <2>AtVersion, <2>3, <2>7 DEF Reads
    <3>1. ASSUME NEW g \in FramesOf(below) PROVE Event.key \in Above(g.key) /\ Shown(Event.key)
      <4>1. PICK h \in FramesOf(stack) : h.key = g.key
        BY <2>Visits DEF Below
      <4>2. stack # <<>> /\ pc = "version"
        BY <2>AtVersion, EmptyStack
      <4> QED  BY <4>1, <4>2 DEF CopyInv, WorkInv, Reads
    <3>2. \A g \in FramesOf(stack') : Event.key \in Above(g.key)
      BY <2>AtVersion, <2>6, <3>1
    <3>3. Shown(Event.key)
      <4> SUFFICES ASSUME Event.key = k, ~Shown(k) PROVE FALSE
        BY <2>AtVersion
      <4>1. snap[k] = "absent"
        BY DEF Shown
      <4>2. stack' = below
        BY <2>Visits, <4>1 DEF Visit
      <4>3. FramesOf(below) # {}
        <5>1. below \in Seq(Frame) /\ below # <<>>
          BY <2>Visits, <4>2 DEF Below
        <5>2. 1 \in DOMAIN below
          BY <5>1, SMT
        <5> QED  BY <5>2 DEF FramesOf
      <4> QED  BY <3>1, <4>3
    <3> QED  BY <3>2, <3>3
  <2>11. Copies'
    <3>1. CASE pc' = "copy"
      BY <2>Goes, <2>AtCopy, <2>5, <3>1, CopiesKept
    <3>2. CASE pc' = "version"
      BY <3>2 DEF Copies
    <3> QED  BY <2>Goes, <3>1, <3>2
  <2>12. Heard'
    BY <2>Goes, HeardLater
  <2>13. k \notin exported /\ Follow(k)' =>
             /\ snap[k] = "live" => ~Has(k, "deleted", Pos)
             /\ snap[k] = "deleted" => Ever(k, "deleted")
             /\ snap[k] # "absent" => ~Has(k, "absent", Pos)
             /\ snap[k] = "absent" => Ever(k, "absent")
    <3>1. Pos \in 0..Len(log) /\ Shape /\ Len(log) \in Nat
      BY <2>2, PosInLog, SMT DEF IInv, Shape
    <3>2. \A kind : Has(k, kind, Pos) => Ever(k, kind)
      BY <3>1, SMT DEF Has, Ever
    <3>3. k \notin exported /\ Follow(k)' =>
             /\ snap[k] = "live" => ~Ever(k, "deleted")
             /\ snap[k] = "deleted" => Ever(k, "deleted")
             /\ snap[k] # "absent" => ~Ever(k, "absent")
             /\ snap[k] = "absent" => Ever(k, "absent")
      BY <2>Visits, <1>VisitedKind
    <3> QED  BY <3>2, <3>3
  <2>14. FrameGood'
    <3> SUFFICES ASSUME NEW g \in FramesOf(stack'), g.key \in Selected, Follow(g.key)'
                 PROVE  /\ g.kind = "live" => ~Has(g.key, "deleted", Pos)
                        /\ g.kind = "deleted" => Ever(g.key, "deleted")
                        /\ ~Has(g.key, "absent", Pos)
                        /\ g.step = "mirror" => Here[g.key] = "live"
      BY <2>2, <2>3, <2>7 DEF FrameGood
    <3>1. CASE g \in FramesOf(below)
      <4>1. PICK h \in FramesOf(stack) : h.key = g.key /\ h.kind = g.kind /\ h.step = g.step
        BY <2>Visits, <3>1 DEF Below
      <4> QED  BY <2>2, <2>4, <4>1 DEF CopyInv, KeyInv, FrameGood
    <3>2. CASE /\ k \notin exported /\ snap[k] # "absent"
               /\ g.key = k /\ g.kind = snap[k] /\ g.step = "refs"
      BY <2>13, <3>2
    <3> QED  BY <2>6, <3>1, <3>2
  <2>15. \A j : OnStack(j) => OnStack(j)'
    BY <2>Visits, <2>6, SMT DEF OnStack, Below
  <2>16. DoneGood'
    <3> SUFFICES ASSUME NEW j \in exported' \cap Selected, Follow(j)', ~OnStack(j)', ~Ever(j, "absent")
                 PROVE  /\ Here[j] # "absent"
                        /\ ~Ever(j, "deleted") => Here[j] = "live"
                        /\ Has(j, "deleted", Pos) => Here[j] = "deleted"
      BY <2>2, <2>3, <2>7 DEF DoneGood
    <3>1. CASE j \in exported
      BY <2>2, <2>4, <2>15, <3>1 DEF CopyInv, KeyInv, DoneGood
    <3>2. CASE j = k /\ k \notin exported
      BY <2>6, <2>13, <3>2 DEF OnStack
    <3> QED  BY <2>5, <3>1, <3>2
  <2>17. EventGood'
    BY <2>AtVersion, <2>7 DEF EventGood
  <2>18. Closed'
    <3> SUFFICES ASSUME pc' \in Reading, NEW m \in exported', ~OnStack(m)', ~Ever(m, "absent")
                 PROVE  Refs[m] \subseteq exported' \/ Skipped(m)'
      BY <2>3 DEF Closed
    <3>1. pc \in Reading /\ pc' = "version"
      BY <2>Goes DEF GoesOn, Reading, Copying
    <3>2. CASE m \in exported
      BY <2>Goes, <2>5, <2>15, <3>1, <3>2 DEF CopyInv, KeyInv, Closed, Skipped
    <3>3. CASE m = k /\ k \notin exported
      <4>1. snap[k] = "absent"
        BY <2>6, <3>3 DEF OnStack
      <4> QED  BY <2>AtVersion, <3>1, <3>3, <4>1
    <3> QED  BY <2>5, <3>2, <3>3
  <2> QED  BY <2>2, <2>8, <2>9, <2>10, <2>11, <2>12, <2>14, <2>16, <2>17, <2>18 DEF CopyInv, WorkInv, KeyInv
<1>ReferenceCopies. ASSUME NEW r \in Keys, ExportReference(r)
      PROVE  CopyInv'
  <2> USE <1>ReferenceCopies
  <2> USE DEF Step
  <2>1. /\ Busy /\ r \in Top.refs
        /\ UNCHANGED <<rows, snap, log, copies, floor, exporters, dst, pc, todo, job, at, until, current>>
    BY DEF ExportReference, Work, source
  <2>2. GoesOn
    BY <2>1 DEF GoesOn, Busy, Reading, Copying
  <2>3. PICK f : f = [Top EXCEPT !.refs = @ \ {r}]
    OBVIOUS
  <2>4. PICK below : below = <<f>> \o Tail(stack)
    OBVIOUS
  <2>5. Visit(r, below)
    BY <2>3, <2>4 DEF ExportReference
  <2>6. Top \in Frame /\ Top \in FramesOf(stack) /\ stack \in Seq(Frame) /\ stack # <<>> /\ Distinct(stack)
    BY <2>1, TopFacts
  <2>7. f \in Frame /\ f.key = Top.key /\ f.kind = Top.kind /\ f.step = Top.step /\ f.refs = Top.refs \ {r}
    BY <2>3, <2>6 DEF Frame
  <2>8. Below(r, below)
    <3>1. LET t == <<f>> \o Tail(stack)
          IN /\ t \in Seq(Frame) /\ Distinct(t) /\ t # <<>>
             /\ \A g \in FramesOf(t) : g = f \/ (g \in FramesOf(stack) /\ g.key # f.key)
             /\ \A g \in FramesOf(stack) : g = Top \/ g \in FramesOf(t)
             /\ f \in FramesOf(t)
      BY <2>6, <2>7, Swapped
    <3>2. \A g \in FramesOf(below) : \E h \in FramesOf(stack) :
              /\ h.key = g.key /\ h.kind = g.kind /\ h.step = g.step
              /\ g.refs \subseteq h.refs /\ h.refs \subseteq g.refs \cup {r}
      <4> SUFFICES ASSUME NEW g \in FramesOf(below)
                   PROVE  \E h \in FramesOf(stack) :
                              /\ h.key = g.key /\ h.kind = g.kind /\ h.step = g.step
                              /\ g.refs \subseteq h.refs /\ h.refs \subseteq g.refs \cup {r}
        OBVIOUS
      <4>1. CASE g = f
        BY <2>6, <2>7, <4>1
      <4>2. CASE g \in FramesOf(stack)
        BY <4>2
      <4> QED  BY <2>4, <3>1, <4>1, <4>2
    <3> QED  BY <2>4, <2>7, <3>1, <3>2 DEF Below
  <2>9. PICK k : k = Top.key
    OBVIOUS
  <2>10. k \in Keys /\ k \in exported /\ Shown(k) /\ r \in Refs[k]
    BY <2>1, <2>6, <2>9 DEF CopyInv, WorkInv, Frames, Frame
  <2>11. Shown(r)
    BY <2>10 DEF SourceInv, RefsFirst
  <2>12. Ever(r, "live")
    BY <2>11, Chain DEF IInv
  <2>13. ASSUME pc = "version"
         PROVE  /\ Event.kind = "live" /\ Event.key \in Selected \cap exported /\ Event.key \in Above(r)
                /\ Shown(Event.key)
    <3>1. /\ Event.kind = "live" /\ Event.key \in Selected /\ Shown(Event.key) /\ Event.key \in exported
          /\ Event.key \in Above(k)
      BY <2>6, <2>9, <2>13 DEF CopyInv, WorkInv, Reads
    <3>2. k \in Above(r)
      BY <2>10, AboveSelf, AboveStep
    <3>3. PICK j : j = Event.key
      OBVIOUS
    <3>4. j \in Above(r)
      BY <3>1, <3>2, <3>3, <1>AboveAbove
    <3> QED  BY <3>1, <3>3, <3>4
  <2>14. exported' = exported \cup {r}
    BY <2>5 DEF Visit
  <2>15. pc \in {"version", "copy"} /\ pc' = pc
    BY <2>1 DEF Busy
  <2>16. ~(snap[r] = "absent" /\ ~Ever(r, "absent"))
    BY <2>11 DEF Shown
  <2> QED  BY <2>1, <2>2, <2>5, <2>6, <2>8, <2>10, <2>12, <2>13, <2>14, <2>15, <2>16, <1>VisitStep
\* A copy of what there is goes on with the next version.
<1>VersionCopies. ASSUME NEW k \in Keys, CopyVersion(k)
      PROVE  CopyInv'
  <2> USE <1>VersionCopies
  <2> USE DEF Step
  <2>1. /\ pc = "copy" /\ stack = <<>> /\ k \in current /\ Visit(k, <<>>)
        /\ UNCHANGED <<rows, snap, log, copies, floor, exporters, dst, pc, todo, job, at, until, current>>
    BY DEF CopyVersion, Work, source
  <2>2. GoesOn
    BY <2>1 DEF GoesOn, Reading, Copying
  <2>3. PICK below : below = <<>>
    OBVIOUS
  <2>4. Visit(k, below)
    BY <2>1, <2>3
  <2>5. Below(k, below)
    BY <2>1, <2>3, EmptyStack DEF Below
  <2>6. Ever(k, "live")
    <3>1. PICK c \in until..Len(log) : Has(k, "live", c)
      BY <2>1 DEF CopyInv, WorkInv, Copies
    <3> QED  BY <3>1, SMT DEF Has, Ever, IInv, Shape
  <2>7. pc' = "copy" /\ "copy" # "version"
    BY <2>1
  <2> QED  BY <2>1, <2>2, <2>4, <2>5, <2>6, <2>7, <1>VisitStep
<1>StartCopies. ASSUME StartEvent
      PROVE  CopyInv'
  <2> USE <1>StartCopies
  <2> USE DEF Step
  <2>1. /\ pc = "events" /\ pc' = "version" /\ stack = <<>>
        /\ UNCHANGED <<rows, snap, log, copies, floor, exporters, dst, todo, job, at, until, current>>
    BY DEF StartEvent, Work, source, CopyInv, WorkInv, WorkTypes
  <2>2. GoesOn /\ pc \in Reading
    BY <2>1 DEF GoesOn, Reading
  <2>3. DstKept
    BY <2>1 DEF DstKept
  <2>4. CASE Event.key \in Selected
    <3>1. PICK k \in Keys : k = Event.key
      BY <2>2, EventFacts
    <3>2. PICK below : below = <<>>
      OBVIOUS
    <3>3. Event.kind = "live" /\ Visit(k, below)
      BY <2>4, <3>1, <3>2 DEF StartEvent
    <3>4. Below(k, below)
      BY <2>1, <3>2, EmptyStack DEF Below
    <3>5. Ever(k, "live") /\ k \in Above(k) /\ k \in exported'
      BY <2>2, <3>1, <3>3, EventFacts, AboveSelf DEF Visit
    <3>6. ASSUME snap[k] = "absent", ~Ever(k, "absent")
          PROVE  Skipped(k)'
      <4>1. /\ at \in Nat /\ at + 1 \in 1..Len(log) /\ at + 1 <= until /\ until <= Len(log)
            /\ until \in Nat /\ Len(log) \in Nat /\ At(k, "live", at + 1)
        BY <2>2, <3>1, <3>3, EventFacts
      <4>2. ~Shown(k)
        BY <3>6 DEF Shown
      <4>3. at + 1 = Len(log) /\ at + 1 = until
        BY <4>1, <4>2, SMT DEF SourceInv, Published
      <4>4. \A j : ~Redo(j, at)
        BY <3>1, <4>1, <4>2, <4>3, SMT DEF Redo, Event
      <4>5. \A j \in Selected : Follow(j)' /\ Here[j] = "live" => ~Has(j, "deleted", at)
        <5>1. \A j : Follow(j)' => Follow(j)
          BY Later DEF IInv
        <5> QED  BY <2>2, <4>4, <5>1 DEF CopyInv, KeyInv, Standing, GoodAt, GoodKey, Here
      <4>6. (\A j, x : Has(j, "deleted", x)' <=> Has(j, "deleted", x)) /\ Here' = Here
        BY <2>1, SameLog DEF Here
      <4>7. stack' = <<>> /\ pc' = "version" /\ at' + 1 = until' /\ at' = at
        BY <2>1, <3>2, <3>3, <3>6, <4>3 DEF Visit
      <4> QED  BY <4>5, <4>6, <4>7 DEF Skipped
    <3> QED  BY <2>1, <2>2, <2>4, <3>1, <3>3, <3>4, <3>5, <3>6, <1>VisitStep
  <2>5. CASE Event.key \notin Selected
    <3>1. UNCHANGED <<exported, stack>>
      BY <2>5 DEF StartEvent
    <3>2. Jobs' /\ Cursors' /\ Stored' /\ Listed' /\ Standing' /\ InJob /\ InJob' /\ Pos' = Pos
      BY <2>2, <2>3, GoesOnKeeps
    <3>3. /\ \A j, kind, x : Has(j, kind, x)' <=> Has(j, kind, x)
          /\ \A j, kind : Ever(j, kind)' <=> Ever(j, kind)
      BY <2>1, SameLog
    <3>4. \A j : Follow(j)' => Follow(j)
      BY Later DEF IInv
    <3>5. Event' = Event /\ Here' = Here
      BY <2>1 DEF Event, Here
    <3>6. WorkTypes'
      BY <2>1, <3>1, <3>2, EmptyStack DEF CopyInv, WorkInv, WorkTypes, Reading
    <3>7. Frames' /\ Reads' /\ Copies'
      BY <2>1, <2>5, <3>1, <3>5, EmptyStack DEF Frames, Reads, Copies
    <3>8. Heard'
      BY <2>1, HeardLater
    <3>9. FrameGood' /\ EventGood'
      BY <2>1, <2>5, <3>1, <3>5, EmptyStack DEF FrameGood, EventGood
    <3>10. DoneGood'
      BY <3>1, <3>2, <3>3, <3>4, <3>5 DEF CopyInv, KeyInv, DoneGood, OnStack
    <3>11. Closed'
      BY <2>1, <2>2, <3>1, <3>3 DEF CopyInv, KeyInv, Closed, Skipped, OnStack
    <3> QED  BY <3>2, <3>6, <3>7, <3>8, <3>9, <3>10, <3>11 DEF CopyInv, WorkInv, KeyInv
  <2> QED  BY <2>4, <2>5
<1> QED  BY <1>ReferenceCopies, <1>VersionCopies, <1>StartCopies

=============================================================================
