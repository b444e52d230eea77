------------------------- MODULE ExporterCopyProofs -------------------------
(***************************************************************************)
(* What TLAPS proves of the copies that exporters make (CaughtUp), for any *)
(* number of exporters, versions and references among them, events,        *)
(* operations, lost calls and crashes, as long as an exporter's name keeps *)
(* a destination of its own.                                               *)
(***************************************************************************)
EXTENDS ExporterVisitProofs

\* A leaf that names no prover is proved by Zenon.
USE Zenon

-----------------------------------------------------------------------------
(***************************************************************************)
(* Deletions are replayed.                                                 *)
(***************************************************************************)
LEMMA DeleteCopies ==
    ASSUME Step, NEW fate, DeleteEvent(fate)
    PROVE  CopyInv'
\* A version that is to be gone at a destination is not live there.
<1>GoneNotLive. ASSUME pc \in Reading, NEW k \in Selected, k = Event.key, Event.kind = "absent", Follow(k)
      PROVE  Here[k] # "live"
  <2> USE <1>GoneNotLive
  <2> USE DEF Step
  <2> SUFFICES ASSUME Here[k] = "live" PROVE FALSE
    OBVIOUS
  <2>1. /\ at \in Nat /\ at + 1 \in 1..Len(log) /\ Len(log) \in Nat
        /\ k \in Keys /\ At(k, "absent", at + 1) /\ Ever(k, "absent")
    BY EventFacts
  <2>2. Has(k, "deleted", at)
    <3>1. Has(k, "deleted", at + 1)
      BY <2>1 DEF SourceInv, Ordered
    <3>2. PICK i \in 1..(at + 1) : At(k, "deleted", i)
      BY <3>1 DEF Has
    <3>3. i # at + 1
      BY <2>1, <3>2 DEF At
    <3> QED  BY <2>1, <3>2, <3>3, SMT DEF Has
  <2>3. Redo(k, at)
    BY <2>2 DEF CopyInv, KeyInv, Standing, GoodAt, GoodKey, Here
  <2>4. PICK i \in (at + 1)..Len(log) : log[i].kind = "live" /\ log[i].key \in Above(k)
    BY <2>3 DEF Redo
  <2>5. log[i].key = k
    <3>1. k \in Above(k)
      BY <2>1, AboveSelf
    <3>2. Ever(k, "deleted")
      BY <2>1, Chain DEF IInv
    <3> QED  BY <2>1, <2>4, <3>1, <3>2 DEF Follow
  <2>6. At(k, "live", i) /\ i \in 1..Len(log)
    BY <2>1, <2>4, <2>5, SMT DEF At
  <2>7. ~Has(k, "absent", i)
    BY <2>1, <2>6 DEF Follow, SourceInv, Ordered
  <2> QED  BY <2>1, <2>4, <2>7, SMT DEF Has
<1> USE DEF Step
<1> DEFINE next == /\ pc' = "version"
                   /\ UNCHANGED <<exporters, todo, job, at, until, current, exported, stack, keep, ready>>
<1>1. /\ pc = "events" /\ Event.key \in Selected /\ Event.kind # "live"
      /\ Send(DeleteVersion(Event.key, Event.kind = "absent"), fate, next)
  BY DEF DeleteEvent
<1> HIDE DEF next
<1>2. pc \in Reading /\ InJob /\ stack = <<>>
  BY <1>1 DEF Reading, InJob, CopyInv, WorkInv, WorkTypes
<1>3. PICK k \in Keys, gone \in BOOLEAN : k = Event.key /\ gone = (Event.kind = "absent")
  BY <1>2, EventFacts
<1>4. /\ Ever(k, "live") /\ Ever(k, "deleted") /\ (gone => Ever(k, "absent"))
      /\ ~gone => Event.kind = "deleted"
  <2>1. Ever(k, Event.kind) /\ Event.kind \in {"deleted", "absent"} /\ Ever(k, "live")
    BY <1>1, <1>2, <1>3, EventFacts DEF Kinds
  <2> QED  BY <1>3, <2>1, Chain DEF IInv
<1> DEFINE call == DeleteVersion(Event.key, Event.kind = "absent")
<1>5. call = DeleteVersion(k, gone)
  BY <1>3
<1>6. /\ \/ call.dst = dst
         \/ ~gone /\ Here[k] = "live" /\ call.dst = Put(k, "deleted")
         \/ gone /\ Here[k] = "deleted" /\ call.dst = Put(k, "absent")
      /\ call.is = "ok" /\ ~gone => call.dst[job.dest][k] # "live"
      /\ call.is = "ok" /\ gone /\ Here[k] # "live" => call.dst[job.dest][k] = "absent"
  BY <1>2, <1>5, DeleteEffect, SMT
<1>7. UNCHANGED <<rows, snap, log, floor, early, copies>> /\ (dst' = dst \/ dst' = call.dst)
  BY <1>1, SendCases
<1> HIDE DEF call
<1>8. DstKept /\ Heard' /\ dst' \in [Dests -> [Keys -> Kinds]]
  <2>1. PICK v \in Kinds : v = IF gone THEN "absent" ELSE "deleted"
    BY DEF Kinds
  <2>2. dst' = dst \/ dst' = Put(k, v)
    BY <1>6, <1>7, <2>1
  <2>3. ASSUME dst' # dst, NEW x \in 0..at, GoodKey(k, Here[k], x) PROVE GoodKey(k, v, x)
    <3>1. CASE gone
      BY <1>4, <2>1, <3>1 DEF GoodKey
    <3>2. CASE ~gone
      BY <1>4, <1>6, <1>7, <2>1, <2>3, <3>2 DEF GoodKey
    <3> QED  BY <3>1, <3>2
  <2> QED  BY <1>2, <1>4, <1>7, <2>2, <2>3, PutKept
<1>9. CopyInv' \/ (next /\ dst' = call.dst /\ call.is = "ok")
  BY <1>1, <1>2, <1>8, SendKeeps, SMT DEF call
<1>10. CASE next /\ dst' = call.dst /\ call.is = "ok"
  <2>1. pc' = "version" /\ UNCHANGED <<exporters, todo, job, at, until, current, exported, stack>>
    BY <1>10 DEF next
  <2>2. GoesOn
    BY <1>2, <1>7, <2>1 DEF GoesOn, Reading
  <2>3. Jobs' /\ Cursors' /\ Stored' /\ Listed' /\ Standing' /\ InJob /\ InJob' /\ Pos' = Pos
    BY <1>8, <2>2, GoesOnKeeps
  <2>4. /\ \A j, kind, x : Has(j, kind, x)' <=> Has(j, kind, x)
        /\ \A j, kind : Ever(j, kind)' <=> Ever(j, kind)
    BY <1>7, SameLog
  <2>5. \A j : Follow(j)' => Follow(j)
    BY Later DEF IInv
  <2>6. Event' = Event /\ Here' = dst'[job.dest]
    BY <1>7, <2>1 DEF Event, Here
  <2>7. WorkTypes'
    BY <1>2, <1>8, <2>1, <2>3, EmptyStack DEF CopyInv, WorkInv, WorkTypes, Reading
  <2>8. Frames' /\ Reads' /\ Copies'
    BY <1>1, <1>2, <2>1, <2>6, EmptyStack DEF Frames, Reads, Copies
  <2>9. FrameGood'
    BY <1>2, <2>1, EmptyStack DEF FrameGood
  <2>10. ~gone => Here'[k] # "live"
    BY <1>6, <1>10, <2>6
  <2>11. gone /\ k \in Selected /\ Follow(k)' => Here'[k] = "absent"
    <3> SUFFICES ASSUME gone, k \in Selected, Follow(k)' PROVE Here'[k] = "absent"
      OBVIOUS
    <3>1. Here[k] # "live"
      BY <1>2, <1>3, <2>5, <1>GoneNotLive
    <3> QED  BY <1>6, <1>10, <2>6, <3>1
  <2>12. EventGood'
    BY <1>3, <1>4, <2>6, <2>10, <2>11 DEF EventGood
  <2>13. \A j \in Keys : j # k => Here'[j] = Here[j]
    BY <1>2, <1>6, <1>10, <2>6, Puts, SMT DEF Here, Kinds
  <2>14. Here'[k] = Here[k] \/ (~gone /\ Here'[k] = "deleted") \/ gone
    <3>1. Put(k, "deleted")[job.dest][k] = "deleted"
      BY <1>2, Puts DEF Kinds
    <3> QED  BY <1>6, <1>10, <2>6, <3>1 DEF Here
  <2>15. DoneGood'
    <3> SUFFICES ASSUME NEW j \in exported \cap Selected, Follow(j)', ~Ever(j, "absent")
                 PROVE  /\ Here'[j] # "absent"
                        /\ ~Ever(j, "deleted") => Here'[j] = "live"
                        /\ Has(j, "deleted", Pos) => Here'[j] = "deleted"
      BY <2>1, <2>3, <2>4 DEF DoneGood
    <3>1. j \in Keys /\ ~OnStack(j)
      BY <1>2, EmptyStack, ExporterAssumption DEF OnStack
    <3>2. /\ Here[j] # "absent"
          /\ ~Ever(j, "deleted") => Here[j] = "live"
          /\ Has(j, "deleted", Pos) => Here[j] = "deleted"
      BY <2>3, <2>5, <3>1 DEF CopyInv, KeyInv, DoneGood
    <3>3. CASE j # k
      BY <2>13, <3>1, <3>2, <3>3
    <3>4. CASE j = k
      <4>1. ~gone /\ Ever(k, "deleted")
        BY <1>4, <3>4
      <4>2. Here'[k] \in Kinds
        BY <1>2, <1>8, <2>6 DEF CopyInv, WorkInv, Jobs
      <4> QED  BY <2>10, <2>14, <3>2, <3>4, <4>1, <4>2 DEF Kinds
    <3> QED  BY <3>3, <3>4
  <2>16. Closed'
    BY <1>1, <1>2, <2>1, <2>4 DEF CopyInv, KeyInv, Closed, Skipped, OnStack
  <2> QED  BY <1>8, <2>3, <2>7, <2>8, <2>9, <2>12, <2>15, <2>16 DEF CopyInv, WorkInv, KeyInv
<1> QED  BY <1>9, <1>10

-----------------------------------------------------------------------------
(***************************************************************************)
(* An event is done with.                                                  *)
(***************************************************************************)
LEMMA ProgressCopies ==
    ASSUME Step, Progress
    PROVE  CopyInv'
\* A set that has a version's references with it, but for those that are not
\* above k, and holds something above k, holds k.
<1>AboveReaches. ASSUME NEW k \in Keys, NEW j \in Above(k), NEW E, j \in E,
             \A m \in E \cap Above(k) : Refs[m] \subseteq E
      PROVE  k \in E
  <2> USE <1>AboveReaches
  <2> SUFFICES ASSUME k \notin E PROVE FALSE
    OBVIOUS
  <2> DEFINE S == {i \in Above(k) : i \notin E}
  <2>1. S \in SUBSET Keys /\ k \in S
    BY AboveSelf DEF Above
  <2>2. ASSUME NEW i \in Keys, Refs[i] \cap S # {} PROVE i \in S
    <3>1. PICK r \in Refs[i] : r \in Above(k) /\ r \notin E
      BY <2>2
    <3>2. i \in Above(k)
      BY <3>1, AboveStep
    <3> QED  BY <3>1, <3>2
  <2>3. j \in S
    <3> HIDE DEF S
    <3> QED  BY <2>1, <2>2 DEF Above
  <2> QED  BY <2>3
<1>HasMore. ASSUME Shape, NEW k, NEW kind, NEW y \in 0..Len(log), NEW x \in 0..y, Has(k, kind, x)
      PROVE  Has(k, kind, y) /\ Ever(k, kind)
  BY <1>HasMore, SMT DEF Shape, Has, Ever
<1>OneMore. ASSUME pc \in Reading, NEW k, NEW kind
      PROVE  /\ Has(k, kind, at + 1) <=> Has(k, kind, at) \/ (k = Event.key /\ kind = Event.kind)
  <2> USE <1>OneMore
  <2>1. at \in Nat
    BY EventFacts
  <2> QED  BY <2>1, SMT DEF Has, At, Event
\* What a replay of the event has to meet, it has met or will meet again.
<1>MetAgain. ASSUME pc = "version", stack = <<>>, NEW k \in Selected, Follow(k), k # Event.key,
             Has(k, "deleted", at), Here[k] = "live"
      PROVE  Redo(k, at + 1)
  <2> USE <1>MetAgain
  <2> USE DEF Step
  <2>1. pc \in Reading /\ InJob /\ Pos = at /\ k \in Keys /\ at \in Nat /\ at + 1 \in 1..Len(log) /\ Len(log) \in Nat
    BY EventFacts, ExporterAssumption DEF Reading, InJob
  <2>2. Redo(k, at)
    BY <2>1 DEF CopyInv, KeyInv, Standing, GoodAt, GoodKey, Here
  <2>3. PICK i \in (at + 1)..Len(log) :
            log[i].kind = "live" /\ log[i].key \in Selected \cap Above(k) /\ Shown(log[i].key)
    BY <2>2 DEF Redo
  <2>4. CASE i # at + 1
    <3>1. i \in (at + 1 + 1)..Len(log)
      BY <2>1, <2>4, SMT
    <3> QED  BY <2>3, <3>1 DEF Redo
  <2>5. CASE i = at + 1
    <3>1. Event.kind = "live" /\ Event.key \in Selected /\ Event.key \in Above(k)
      BY <2>3, <2>5 DEF Event
    <3>2. Event.key \in exported
      BY <3>1 DEF CopyInv, WorkInv, Reads
    <3>3. \A j \in Above(k) : ~Ever(j, "absent")
      <4>1. Ever(k, "deleted")
        BY <2>1, <1>HasMore, SMT DEF IInv
      <4> QED  BY <3>1, <4>1 DEF Follow
    <3>4. \A j : ~OnStack(j)
      BY EmptyStack DEF OnStack
    <3>5. k \notin exported
      <4>1. k \in Above(k)
        BY <2>1, AboveSelf
      <4> QED  BY <2>1, <3>3, <3>4, <4>1 DEF CopyInv, KeyInv, DoneGood
    <3>6. \A m \in exported \cap Above(k) : Refs[m] \subseteq exported \/ Skipped(m)
      BY <2>1, <3>3, <3>4 DEF CopyInv, KeyInv, Closed
    <3>7. PICK E, e : E = exported /\ e = Event.key
      OBVIOUS
    <3>8. ~(\A m \in E \cap Above(k) : Refs[m] \subseteq E)
      BY <2>1, <3>1, <3>2, <3>5, <3>7, <1>AboveReaches
    <3>9. PICK m \in exported \cap Above(k) : Skipped(m)
      BY <3>6, <3>7, <3>8
    <3>10. m # k
      BY <3>5
    <3> QED  BY <3>9, <3>10 DEF Skipped
  <2> QED  BY <2>4, <2>5
<1>ReadGood. ASSUME pc = "version", stack = <<>>, NEW k \in Selected, Follow(k)
      PROVE  GoodKey(k, Here[k], at + 1)
  <2> USE <1>ReadGood
  <2> USE DEF Step
  <2>1. /\ pc \in Reading /\ InJob /\ Pos = at /\ k \in Keys /\ at \in Nat /\ at + 1 \in 1..Len(log) /\ Len(log) \in Nat
        /\ Event.kind \in Kinds /\ At(Event.key, Event.kind, at + 1) /\ Ever(Event.key, Event.kind)
    BY EventFacts, ExporterAssumption DEF Reading, InJob
  <2>2. GoodKey(k, Here[k], at)
    BY <2>1 DEF CopyInv, KeyInv, Standing, GoodAt, Here
  <2>3. \A kind : Has(k, kind, at + 1) <=> Has(k, kind, at) \/ (k = Event.key /\ kind = Event.kind)
    BY <2>1, <1>OneMore
  <2>4. \A kind : Has(k, kind, at) => Ever(k, kind)
    BY <2>1, SMT DEF Has, Ever
  <2>5. (Ever(k, "absent") => Ever(k, "deleted")) /\ (Ever(k, "deleted") => Ever(k, "live"))
    BY <2>1, Chain DEF IInv
  <2>6. CASE k # Event.key
    <3>1. Has(k, "deleted", at) /\ Here[k] = "live" => Redo(k, at + 1)
      BY <2>6, <1>MetAgain
    <3> QED  BY <2>2, <2>3, <2>6, <3>1 DEF GoodKey
  <2>7. CASE k = Event.key /\ Event.kind = "live"
    <3>1. ~Has(k, "deleted", at + 1) /\ ~Has(k, "absent", at + 1)
      BY <2>1, <2>7 DEF Follow, SourceInv, Ordered
    <3>2. k \in exported /\ ~OnStack(k)
      BY <2>7, EmptyStack DEF CopyInv, WorkInv, Reads, OnStack
    <3>3. ~Ever(k, "absent") => Here[k] # "absent" /\ (~Ever(k, "deleted") => Here[k] = "live")
      BY <2>1, <3>2 DEF CopyInv, KeyInv, DoneGood
    <3> QED  BY <2>5, <3>1, <3>3 DEF GoodKey
  <2>8. CASE k = Event.key /\ Event.kind = "deleted"
    <3>1. Here[k] # "live" /\ Ever(k, "deleted")
      BY <2>1, <2>8 DEF CopyInv, KeyInv, EventGood
    <3>2. (Has(k, "live", at + 1) <=> Has(k, "live", at)) /\ (Has(k, "absent", at + 1) <=> Has(k, "absent", at))
      BY <2>3, <2>8, SMT
    <3> QED  BY <2>2, <3>1, <3>2 DEF GoodKey
  <2>9. CASE k = Event.key /\ Event.kind = "absent"
    <3>1. Here[k] = "absent" /\ Ever(k, "absent")
      BY <2>1, <2>9 DEF CopyInv, KeyInv, EventGood
    <3> QED  BY <2>5, <3>1 DEF GoodKey
  <2> QED  BY <2>1, <2>6, <2>7, <2>8, <2>9 DEF Kinds
<1> USE DEF Step
<1>1. /\ pc = "version" /\ stack = <<>>
      /\ UNCHANGED <<rows, snap, log, copies, floor, dst, early>>
      /\ exporters' = ExporterState(job.name, at, at + 1, "RUNNING")
  BY DEF Progress, Work, source
<1>2. /\ pc \in Reading /\ InJob /\ Pos = at /\ at \in Nat /\ at + 1 \in 1..Len(log) /\ Len(log) \in Nat
  BY <1>1, EventFacts DEF Reading, InJob
<1>3. PICK d, to, st : d = job.dest /\ to = at + 1 /\ st = "RUNNING"
  OBVIOUS
<1>4. DstKept /\ Heard' /\ dst' \in [Dests -> [Keys -> Kinds]]
  BY <1>1, HeardLater DEF DstKept, CopyInv, WorkInv, WorkTypes
<1>5. GoodAt(d, to)'
  <2>1. to \in 0..Len(log)
    BY <1>2, <1>3, SMT
  <2>2. GoodAt(d, to)
    BY <1>1, <1>3, <1>ReadGood DEF GoodAt, Here
  <2> QED  BY <1>1, <2>1, <2>2, GoodAtLater
<1>6. exporters' = ExporterState(job.name, at, to, st)
  BY <1>1, <1>3
<1>7. CASE at + 1 = until
  <2>1. Leave
    BY <1>7 DEF Progress
  <2> QED  BY <1>1, <1>2, <1>3, <1>4, <1>5, <1>6, <2>1, EndKeeps
<1>8. CASE at + 1 # until
  <2>1. pc' = "events" /\ at' = at + 1 /\ UNCHANGED <<todo, job, until, current, exported, stack>>
    BY <1>8 DEF Progress
  <2>2. InJob' /\ Pos' = at + 1
    BY <2>1 DEF InJob, Pos, Reading
  <2>3. PICK e : e = exporters'
    OBVIOUS
  <2>4. /\ DOMAIN e = DOMAIN exporters
        /\ \A m \in DOMAIN exporters :
              \/ e[m].offset = exporters[m].offset
              \/ m = job.name /\ exporters[m].offset = at /\ e[m].offset = to
    BY <1>6, <2>3, OneMoves, SMT DEF IInv
  <2>5. WorkTypes'
    BY <1>1, <1>4, <2>1, <2>2, EmptyStack DEF CopyInv, WorkInv, WorkTypes, Reading
  <2>6. Jobs'
    BY <1>2, <2>1, <2>2 DEF CopyInv, WorkInv, Jobs
  <2>7. Cursors'
    <3>1. \A n \in DOMAIN todo' : /\ n \in DOMAIN exporters' => exporters'[n].offset <= todo'[n].offset
                                  /\ todo'[n].offset < floor' => todo'[n].offset = 0
      BY <1>1, <1>2, <2>1, <2>3, <2>4 DEF CopyInv, WorkInv, Cursors, Jobs
    <3>2. job'.name \in DOMAIN exporters' => exporters'[job'.name].offset <= at'
      <4> SUFFICES ASSUME job.name \in DOMAIN exporters PROVE e[job.name].offset <= at + 1
        BY <2>1, <2>3, <2>4
      <4>1. exporters[job.name].offset \in Nat /\ exporters[job.name].offset <= at
        BY <1>2 DEF CopyInv, WorkInv, Cursors, IInv, Shape, RecordsIn, Rec
      <4> QED  BY <1>2, <1>3, <2>4, <4>1, SMT
    <3>3. pc' \notin Copying
      BY <2>1 DEF Copying
    <3> QED  BY <3>1, <3>2, <3>3 DEF Cursors
  <2>8. Frames' /\ Reads' /\ Copies'
    BY <1>1, <2>1, EmptyStack DEF Frames, Reads, Copies
  <2>9. Stored'
    <3>1. \A m \in DOMAIN exporters' :
              \/ m \in DOMAIN exporters /\ exporters'[m].offset = exporters[m].offset
              \/ GoodAt(home[m], exporters[m].offset)'
      <4> SUFFICES ASSUME NEW m \in DOMAIN exporters', m = job.name, exporters'[m].offset = to
                   PROVE  GoodAt(home[m], exporters[m].offset)'
        BY <2>3, <2>4
      <4>1. d = home[m]
        BY <1>2, <1>3 DEF CopyInv, WorkInv, Jobs
      <4> QED  BY <1>5, <4>1
    <3> QED  BY <1>4, <3>1, StoredKept
  <2>10. Listed'
    BY <1>4, <2>1, ListedKept
  <2>11. Standing'
    BY <1>3, <1>5, <2>1 DEF Standing
  <2>12. /\ \A j, kind, x : Has(j, kind, x)' <=> Has(j, kind, x)
         /\ \A j, kind : Ever(j, kind)' <=> Ever(j, kind)
    BY <1>1, SameLog
  <2>13. \A j : Follow(j)' => Follow(j)
    BY Later DEF IInv
  <2>14. Here' = Here /\ \A j : ~OnStack(j)
    BY <1>1, <2>1, EmptyStack DEF Here, OnStack
  <2>15. FrameGood' /\ EventGood'
    BY <1>1, <2>1, EmptyStack DEF FrameGood, EventGood
  <2>16. DoneGood'
    <3> SUFFICES ASSUME NEW j \in exported \cap Selected, Follow(j)', ~Ever(j, "absent")
                 PROVE  /\ Here[j] # "absent"
                        /\ ~Ever(j, "deleted") => Here[j] = "live"
                        /\ Has(j, "deleted", at + 1) => Here[j] = "deleted"
      BY <2>1, <2>2, <2>12, <2>14 DEF DoneGood
    <3>1. Follow(j) /\ j \in Keys
      BY <2>13, ExporterAssumption
    <3>2. /\ Here[j] # "absent"
          /\ ~Ever(j, "deleted") => Here[j] = "live"
          /\ Has(j, "deleted", at) => Here[j] = "deleted"
      BY <1>2, <2>14, <3>1 DEF CopyInv, KeyInv, DoneGood
    <3>3. j = Event.key /\ Event.kind = "deleted" => Here[j] # "live"
      BY <1>1, <3>1 DEF CopyInv, KeyInv, EventGood
    <3>4. Here[j] \in Kinds
      BY <1>2, <3>1 DEF CopyInv, WorkInv, WorkTypes, Jobs, Here
    <3>5. Has(j, "deleted", at + 1) <=> Has(j, "deleted", at) \/ (j = Event.key /\ "deleted" = Event.kind)
      BY <1>2, <1>OneMore
    <3> QED  BY <3>2, <3>3, <3>4, <3>5 DEF Kinds
  <2>17. Closed'
    BY <1>2, <1>8, <2>1, <2>12, <2>14 DEF CopyInv, KeyInv, Closed, Skipped
  <2> QED  BY <1>4, <2>5, <2>6, <2>7, <2>8, <2>9, <2>10, <2>11, <2>15, <2>16, <2>17 DEF CopyInv, WorkInv, KeyInv
<1> QED  BY <1>7, <1>8

-----------------------------------------------------------------------------
(***************************************************************************)
(* What there is is copied.                                                *)
(***************************************************************************)
LEMMA FullCopies ==
    ASSUME Step, \/ Snapshot
                 \/ \E fate : ReconcileMode(fate) \/ CopyDone(fate) \/ \E s : Reconcile(s, fate)
    PROVE  CopyInv'
\* A step of a copy between two versions.
<1>BetweenVersions. ASSUME GoesOn, DstKept, Heard', dst' \in [Dests -> [Keys -> Kinds]],
             pc \in Copying, pc' \in {"copy", "reconcile"}, stack = <<>>,
             stack' = <<>>, exported' = exported, current' \subseteq Keys, Copies', DoneGood'
      PROVE  CopyInv'
  <2> USE <1>BetweenVersions
  <2>1. Jobs' /\ Cursors' /\ Stored' /\ Listed' /\ Standing' /\ InJob /\ InJob'
    BY GoesOnKeeps
  <2>2. WorkTypes'
    BY <2>1, EmptyStack DEF Step, CopyInv, WorkInv, WorkTypes, Copying
  <2>3. Frames' /\ Reads' /\ FrameGood' /\ EventGood' /\ Closed'
    BY EmptyStack DEF Frames, Reads, FrameGood, EventGood, Closed, Reading
  <2> QED  BY <2>1, <2>2, <2>3 DEF CopyInv, WorkInv, KeyInv
<1>SnapshotCopies. ASSUME Snapshot
      PROVE  CopyInv'
  <2> USE <1>SnapshotCopies
  <2> USE DEF Step
  <2>1. /\ pc = "snapshot" /\ pc' = "copy"
        /\ UNCHANGED <<rows, snap, log, floor, exporters, dst, todo, job, at, until, exported, stack>>
        /\ current' = {k \in Keys : snap[k] # "absent"}
        /\ early' = early \cup {k \in Keys : snap[k] # rows[k]} /\ copies'
    BY DEF Snapshot, source
  <2>2. GoesOn /\ pc \in Copying
    BY <2>1 DEF GoesOn, Copying
  <2>3. DstKept /\ Heard' /\ dst' \in [Dests -> [Keys -> Kinds]]
    BY <2>1, HeardLater DEF DstKept, CopyInv, WorkInv, WorkTypes
  <2>4. stack = <<>> /\ exported = {}
    BY <2>1 DEF CopyInv, WorkInv, WorkTypes
  <2>5. /\ \A j, kind, x : Has(j, kind, x)' <=> Has(j, kind, x)
        /\ \A j, kind : Ever(j, kind)' <=> Ever(j, kind)
    BY <2>1, SameLog
  <2>6. Copies'
    <3>1. PICK c \in until..Len(log) : c = Len(log)
      BY <2>2, SMT DEF IInv, Shape, Place
    <3>2. \A k \in current' : Has(k, "live", c)
      BY <2>1, <3>1 DEF SourceInv, Rowed, Ever
    <3>3. ASSUME NEW k \in Keys, Follow(k)', Has(k, "live", c)
          PROVE  k \in current'
      <4>1. k \notin early' /\ ~Ever(k, "absent")
        BY <2>1, <2>5, <3>3 DEF Follow
      <4>2. snap[k] = rows[k] /\ Ever(k, "live")
        BY <2>1, <3>1, <3>3, <4>1 DEF Ever
      <4> QED  BY <2>1, <4>1, <4>2 DEF SourceInv, Rowed
    <3>4. /\ \A k \in exported' \cup current' : Has(k, "live", c)'
          /\ \A k \in Keys : Follow(k)' /\ Has(k, "live", c)' => k \in current'
      BY <2>1, <2>4, <2>5, <3>2, <3>3
    <3>5. c \in until'..Len(log')
      BY <2>1
    <3> QED  BY <2>1, <3>4, <3>5 DEF Copies
  <2>7. DoneGood'
    BY <2>1, <2>4 DEF DoneGood
  <2> QED  BY <2>1, <2>2, <2>3, <2>4, <2>6, <2>7, <1>BetweenVersions
<1>AskedCopies. ASSUME NEW fate, ReconcileMode(fate)
      PROVE  CopyInv'
  <2> USE <1>AskedCopies
  <2> USE DEF Step
  <2> DEFINE next == /\ pc' = "reconcile"
                     /\ UNCHANGED <<exporters, todo, job, at, until, current, exported, stack, keep>>
  <2>1. pc = "copy" /\ stack = <<>> /\ EnsureImportMode(fate, next)
    BY DEF ReconcileMode, Copied
  <2>2. InJob /\ pc \in Copying
    BY <2>1 DEF InJob, Copying
  <2> HIDE DEF next
  <2>3. CopyInv' \/ (next /\ UNCHANGED <<rows, snap, log, floor, dst, early, copies>>)
    BY <2>1, <2>2, EnsureKeeps
  <2>4. CASE next /\ UNCHANGED <<rows, snap, log, floor, dst, early, copies>>
    <3>1. pc' = "reconcile" /\ UNCHANGED <<exporters, todo, job, at, until, current, exported, stack>>
      BY <2>4 DEF next
    <3>2. GoesOn /\ InJob' /\ Pos' = Pos
      BY <2>2, <2>4, <3>1 DEF GoesOn, Copying, InJob, Pos, Reading
    <3>3. DstKept /\ Heard' /\ dst' \in [Dests -> [Keys -> Kinds]] /\ current' \subseteq Keys
      BY <2>4, <3>1, HeardLater DEF DstKept, CopyInv, WorkInv, WorkTypes
    <3>4. Copies'
      BY <2>1, <2>4, <3>1, <3>2, CopiesKept
    <3>5. /\ \A j, kind, x : Has(j, kind, x)' <=> Has(j, kind, x)
          /\ \A j, kind : Ever(j, kind)' <=> Ever(j, kind)
      BY <2>4, SameLog
    <3>6. (\A j : Follow(j)' => Follow(j)) /\ Here' = Here
      BY <2>4, <3>1, Later DEF IInv, Here
    <3>7. DoneGood'
      BY <2>2, <3>1, <3>2, <3>5, <3>6 DEF CopyInv, KeyInv, DoneGood, OnStack
    <3> QED  BY <2>1, <2>2, <3>1, <3>2, <3>3, <3>4, <3>7, <1>BetweenVersions
  <2> QED  BY <2>3, <2>4
\* A subject is removed: it is none of those copied.
<1>ReconcileCopies. ASSUME NEW s, NEW fate, Reconcile(s, fate)
      PROVE  CopyInv'
  <2> USE <1>ReconcileCopies
  <2> USE DEF Step
  <2> DEFINE next == /\ pc' = "copy"
                     /\ UNCHANGED <<exporters, todo, job, at, until, current, exported, stack, keep, ready>>
  <2>1. pc = "reconcile" /\ s \in Orphans /\ Send(DeleteSubject(s), fate, next)
    BY DEF Reconcile
  <2>2. InJob /\ pc \in Copying /\ at = 0 /\ stack = <<>> /\ Pos = until
    BY <2>1 DEF InJob, Copying, CopyInv, WorkInv, WorkTypes, Cursors, Pos, Reading
  <2> HIDE DEF next
  <2>3. UNCHANGED <<rows, snap, log, floor, early, copies>> /\ (dst' = dst \/ dst' = DeleteSubject(s).dst)
    BY <2>1, SendCases
  <2>4. job.dest \in Dests /\ dst \in [Dests -> [Keys -> Kinds]]
    BY <2>2 DEF CopyInv, WorkInv, WorkTypes, Jobs
  <2>5. /\ dst' \in [Dests -> [Keys -> Kinds]]
        /\ \A d : d # job.dest => dst'[d] = dst[d]
        /\ \A k \in Keys : dst'[job.dest][k] = Here[k] \/ (k[1] = s /\ dst'[job.dest][k] = "absent")
    <3> DEFINE ks == {k \in Keys : k[1] = s /\ Here[k] # "absent"}
               h == [k \in Keys |-> IF k \in ks THEN "absent" ELSE dst[job.dest][k]]
    <3>1. dst' = dst \/ dst' = [dst EXCEPT ![job.dest] = h]
      BY <2>3 DEF DeleteSubject
    <3>2. h \in [Keys -> Kinds] /\ \A k \in Keys : h[k] = Here[k] \/ (k[1] = s /\ h[k] = "absent")
      BY <2>4 DEF Kinds, Here
    <3> HIDE DEF h
    <3>3. CASE dst' = dst
      BY <2>4, <3>3 DEF Here
    <3>4. CASE dst' = [dst EXCEPT ![job.dest] = h]
      BY <2>4, <3>2, <3>4, SMT
    <3> QED  BY <3>1, <3>3, <3>4
  <2>6. DstKept
    <3>1. \A x \in 0..at : x = 0
      BY <2>2, SMT
    <3> QED  BY <2>2, <2>3, <2>5, <3>1, GoodAtZero DEF DstKept
  <2>7. Heard'
    <3>1. \A j : Ever(j, "live") => Ever(j, "live")'
      BY Later DEF IInv
    <3>2. \A d \in Dests, k \in Keys : dst'[d][k] # "absent" => dst[d][k] # "absent"
      BY <2>5 DEF Here
    <3> QED  BY <3>1, <3>2 DEF CopyInv, KeyInv, Heard
  <2>8. CopyInv' \/ next
    BY <2>1, <2>2, <2>5, <2>6, <2>7, SendKeeps, SMT
  <2>9. CASE next
    <3>1. pc' = "copy" /\ UNCHANGED <<exporters, todo, job, at, until, current, exported, stack>>
      BY <2>9 DEF next
    <3>2. GoesOn /\ InJob' /\ Pos' = Pos
      BY <2>2, <2>3, <3>1 DEF GoesOn, Copying, InJob, Pos, Reading
    <3>3. current' \subseteq Keys
      BY <3>1 DEF CopyInv, WorkInv, WorkTypes
    <3>4. Copies'
      BY <2>1, <2>3, <3>1, <3>2, CopiesKept
    <3>5. /\ \A j, kind, x : Has(j, kind, x)' <=> Has(j, kind, x)
          /\ \A j, kind : Ever(j, kind)' <=> Ever(j, kind)
      BY <2>3, SameLog
    <3>6. (\A j : Follow(j)' => Follow(j)) /\ Here' = dst'[job.dest]
      BY <2>3, <3>1, Later DEF IInv, Here
    <3>7. ASSUME NEW j \in exported \cap Selected, Follow(j) PROVE Here'[j] = Here[j]
      <4>1. j \in Keys
        BY ExporterAssumption
      <4>2. j \in current
        BY <2>1, <3>7, <4>1 DEF CopyInv, WorkInv, Copies
      <4>3. j[1] # s
        BY <2>1, <4>2 DEF Orphans
      <4> QED  BY <2>5, <3>6, <4>1, <4>3
    <3>8. DoneGood'
      BY <2>2, <3>1, <3>2, <3>5, <3>6, <3>7 DEF CopyInv, KeyInv, DoneGood, OnStack
    <3> QED  BY <2>2, <2>5, <2>6, <2>7, <3>1, <3>2, <3>3, <3>4, <3>8, <1>BetweenVersions
  <2> QED  BY <2>8, <2>9
\* At the end of a copy all that was there when it began is at the destination.
<1>CopiedGood. ASSUME Copied, NEW k \in Selected, Follow(k)
      PROVE  GoodKey(k, Here[k], until)
  <2> USE <1>CopiedGood
  <2> USE DEF Step
  <2>1. pc = "copy" /\ stack = <<>> /\ current \cap Selected \subseteq exported
    BY DEF Copied
  <2>2. InJob /\ Pos = until /\ k \in Keys /\ ~OnStack(k)
    BY <2>1, EmptyStack, ExporterAssumption DEF InJob, Pos, Copying, Reading, OnStack
  <2>3. until \in 0..Len(log) /\ Len(log) \in Nat
    BY <2>2, PosInLog, SMT DEF IInv, Shape
  <2>4. PICK c \in until..Len(log) : \A j \in Keys : Follow(j) /\ Has(j, "live", c) => j \in current
    BY <2>1 DEF CopyInv, WorkInv, Copies
  <2>5. Has(k, "live", until) => k \in exported
    <3>1. Has(k, "live", until) => Has(k, "live", c)
      BY <2>3, SMT DEF Has
    <3> QED  BY <2>1, <2>2, <2>4, <3>1
  <2>6. ~Ever(k, "absent") /\ ~Has(k, "absent", until)
    <3>1. copies
      BY <2>1 DEF CopyInv, WorkInv, Copies
    <3>2. ~Ever(k, "absent")
      BY <3>1 DEF Follow
    <3> QED  BY <2>3, <3>2, SMT DEF Ever, Has
  <2>7. Has(k, "deleted", until) => Has(k, "live", until)
    BY <2>2, <2>3, Chain DEF IInv
  <2>8. k \in exported => /\ Here[k] # "absent"
                          /\ ~Ever(k, "deleted") => Here[k] = "live"
                          /\ Has(k, "deleted", until) => Here[k] = "deleted"
    BY <2>2, <2>6 DEF CopyInv, KeyInv, DoneGood
  <2> QED  BY <2>5, <2>6, <2>7, <2>8 DEF GoodKey
<1>CopyDoneCopies. ASSUME NEW fate, CopyDone(fate)
      PROVE  CopyInv'
  <2> USE <1>CopyDoneCopies
  <2> USE DEF Step
  <2>1. Copied /\ UNCHANGED <<rows, snap, log, copies, floor, dst, early>>
    BY DEF CopyDone, Work, source
  <2>2. InJob /\ until \in 0..Len(log)
    BY <2>1, SMT DEF Copied, InJob, Copying, IInv, Shape, Place
  <2>3. DstKept /\ Heard' /\ dst' \in [Dests -> [Keys -> Kinds]]
    BY <2>1, HeardLater DEF DstKept, CopyInv, WorkInv, WorkTypes
  <2>4. CASE fate = "answered"
    <3>1. PICK d, to, st : d = job.dest /\ to = until /\ st = "RUNNING"
      OBVIOUS
    <3>2. exporters' = ExporterState(job.name, at, to, st) /\ Leave
      BY <2>4, <3>1 DEF CopyDone
    <3>3. GoodAt(d, to)
      BY <2>1, <3>1, <1>CopiedGood DEF GoodAt, Here
    <3>4. GoodAt(d, to)'
      BY <2>1, <2>2, <3>1, <3>3, GoodAtLater
    <3> QED  BY <2>1, <2>2, <2>3, <3>1, <3>2, <3>4, EndKeeps
  <2>5. CASE fate # "answered"
    <3>1. PICK st : st = "ERROR"
      OBVIOUS
    <3>2. Halt(st)
      BY <2>5, <3>1 DEF CopyDone
    <3> QED  BY <2>1, <2>2, <2>3, <3>2, HaltKeeps
  <2> QED  BY <2>4, <2>5
<1> QED  BY <1>SnapshotCopies, <1>AskedCopies, <1>ReconcileCopies, <1>CopyDoneCopies

-----------------------------------------------------------------------------
(***************************************************************************)
(* Every step.                                                             *)
(***************************************************************************)
LEMMA CopyInit == Init => CopyInv
<1> SUFFICES ASSUME Init PROVE CopyInv
  OBVIOUS
<1>1. /\ pc = "idle" /\ stack = <<>> /\ exported = {} /\ current = {}
      /\ DOMAIN todo = {} /\ DOMAIN exporters = {}
      /\ dst = [d \in Dests |-> [k \in Keys |-> "absent"]]
  BY DEF Init, NoExporters
<1>2. dst \in [Dests -> [Keys -> Kinds]] /\ \A d \in Dests, k \in Keys : dst[d][k] = "absent"
  BY <1>1 DEF Kinds
<1>3. WorkTypes
  BY <1>1, <1>2, EmptyStack DEF WorkTypes
<1>4. Jobs /\ Cursors /\ Frames /\ Reads /\ Copies
  BY <1>1, EmptyStack DEF Jobs, Cursors, Frames, Reads, Copies, InJob, Reading, Copying
<1>5. KeyInv
  BY <1>1, <1>2 DEF KeyInv, Stored, Listed, Standing, Heard, FrameGood, DoneGood, EventGood, Closed, InJob, Reading, Copying
<1> QED  BY <1>3, <1>4, <1>5 DEF CopyInv, WorkInv

\* The clients, the publication and the operators.
LEMMA OutsideKeeps ==
    ASSUME Step, UNCHANGED <<floor, dst, pc, todo, job, at, until, current, exported, stack>>,
           \A n \in DOMAIN exporters' :
               \/ exporters'[n].offset = 0
               \/ n \in DOMAIN exporters /\ exporters'[n].offset = exporters[n].offset
    PROVE  CopyInv'
<1>EventStays. ASSUME pc \in Reading
      PROVE  /\ at \in 0..Len(log) /\ at + 1 \in 0..Len(log) /\ at + 1 \in 1..Len(log)
             /\ log'[at + 1] = log[at + 1] /\ Event.key \in Keys
  <2> USE <1>EventStays
  <2>1. at \in Nat /\ Len(log) \in Nat /\ at < until /\ until \in Nat /\ until <= Len(log)
    BY SMT DEF Step, IInv, Shape, Place
  <2>2. at + 1 \in 1..Len(log)
    BY <2>1, SMT
  <2>3. Event.key \in Keys
    BY <2>2, Entries DEF Step, IInv, Event
  <2> QED  BY <2>1, <2>2, <2>3, SMT DEF Step, Grows
<1>1. /\ \A k, kind : \A x \in 0..Len(log) : Has(k, kind, x)' <=> Has(k, kind, x)
      /\ \A k, kind : Ever(k, kind) => Ever(k, kind)'
      /\ \A k : Follow(k)' => Follow(k)
      /\ \A k : \A x \in 0..Len(log) : Redo(k, x) => Redo(k, x)'
  BY Later DEF Step, IInv
<1>2. \A k \in Keys : Shown(k) => Shown(k)'
  BY DEF Step, Grows
<1>3. DstKept
  BY DEF DstKept
<1>4. Stored' /\ Listed' /\ Standing' /\ Heard'
  BY <1>3, StoredKept, ListedKept, StandingKept, HeardLater
<1>5. WorkTypes' /\ Jobs'
  BY DEF Step, CopyInv, WorkInv, WorkTypes, Jobs, InJob
<1>6. Cursors'
  <2>1. at \in Nat /\ \A n \in DOMAIN todo : todo[n].offset \in Nat
    BY DEF Step, IInv, Shape, RecordsIn, Rec
  <2> QED  BY <2>1, SMT DEF Step, CopyInv, WorkInv, Cursors, InJob
<1>7. Frames'
  <2>1. \A f \in FramesOf(stack) : f.key \in Keys
    BY DEF Step, CopyInv, WorkInv, WorkTypes, Frames
  <2> QED  BY <1>2, <2>1 DEF Step, CopyInv, WorkInv, Frames
<1>8. pc \in Reading => Event' = Event /\ Event.key \in Keys
  BY <1>EventStays DEF Event
<1>9. Reads'
  BY <1>2, <1>8 DEF Step, CopyInv, WorkInv, Reads, Above, Reading
<1>10. Copies'
  <2> SUFFICES ASSUME pc \in {"copy", "reconcile"}
               PROVE  /\ copies'
                      /\ \E c \in until..Len(log') :
                            /\ \A k \in exported \cup current : Has(k, "live", c)'
                            /\ \A k \in Keys : Follow(k)' /\ Has(k, "live", c)' => k \in current
    BY DEF Copies
  <2>1. PICK c \in until..Len(log) :
              /\ \A k \in exported \cup current : Has(k, "live", c)
              /\ \A k \in Keys : Follow(k) /\ Has(k, "live", c) => k \in current
    BY DEF Step, CopyInv, WorkInv, Copies
  <2>2. until \in Nat /\ Len(log) \in Nat /\ Len(log') \in Nat /\ Len(log) <= Len(log')
    BY SMT DEF Step, IInv, Shape, Grows
  <2>3. c \in 0..Len(log) /\ c \in until..Len(log')
    BY <2>2, SMT
  <2>4. copies'
    BY DEF Step, CopyInv, WorkInv, Copies, Grows
  <2> QED  BY <1>1, <2>1, <2>3, <2>4
<1>11. InJob => Pos' = Pos /\ Pos \in 0..Len(log) /\ Here' = Here
  BY PosInLog DEF Pos, Here
<1>12. InJob' = InJob /\ \A k : OnStack(k)' <=> OnStack(k)
  BY DEF InJob, OnStack
<1>13. FrameGood'
  <2> SUFFICES ASSUME InJob, NEW f \in FramesOf(stack), f.key \in Selected, Follow(f.key)'
               PROVE  /\ f.kind = "live" => ~Has(f.key, "deleted", Pos)'
                      /\ f.kind = "deleted" => Ever(f.key, "deleted")'
                      /\ ~Has(f.key, "absent", Pos)'
                      /\ f.step = "mirror" => Here'[f.key] = "live"
    BY <1>12 DEF FrameGood
  <2>1. Follow(f.key)
    BY <1>1
  <2>2. \A c : Has(f.key, c, Pos)' <=> Has(f.key, c, Pos)
    BY <1>1, <1>11
  <2> QED  BY <1>1, <1>11, <2>1, <2>2 DEF Step, CopyInv, KeyInv, FrameGood
<1>14. DoneGood'
  <2> SUFFICES ASSUME InJob, NEW k \in exported \cap Selected, Follow(k)', ~OnStack(k), ~Ever(k, "absent")'
               PROVE  /\ Here'[k] # "absent"
                      /\ ~Ever(k, "deleted")' => Here'[k] = "live"
                      /\ Has(k, "deleted", Pos)' => Here'[k] = "deleted"
    BY <1>12 DEF DoneGood
  <2>1. Follow(k) /\ ~Ever(k, "absent") /\ (Ever(k, "deleted") => Ever(k, "deleted")')
    BY <1>1
  <2>2. Has(k, "deleted", Pos)' <=> Has(k, "deleted", Pos)
    BY <1>1, <1>11
  <2> QED  BY <1>11, <2>1, <2>2 DEF Step, CopyInv, KeyInv, DoneGood
<1>15. EventGood'
  <2> SUFFICES ASSUME pc = "version", Event.key \in Selected, Follow(Event.key)'
               PROVE  /\ Event.kind = "deleted" => Here'[Event.key] # "live"
                      /\ Event.kind = "absent" => Here'[Event.key] = "absent"
    BY <1>8 DEF EventGood, Reading
  <2>1. Event' = Event
    BY <1>8 DEF Reading
  <2>2. Follow(Event.key)
    BY <1>1, <2>1
  <2>3. Here' = Here
    BY DEF Here
  <2> QED  BY <2>2, <2>3 DEF Step, CopyInv, KeyInv, EventGood
<1>16. Closed'
  <2> SUFFICES ASSUME pc \in Reading, NEW m \in exported, ~OnStack(m), ~Ever(m, "absent")',
                      ~(Refs[m] \subseteq exported)
               PROVE  Skipped(m)'
    BY <1>12 DEF Closed
  <2>1. Skipped(m)
    BY <1>1 DEF Step, CopyInv, KeyInv, Closed
  <2>2. /\ at \in 0..Len(log) /\ at + 1 \in 0..Len(log)
        /\ \A k : Has(k, "deleted", at)' <=> Has(k, "deleted", at)
        /\ \A k : Redo(k, at + 1) => Redo(k, at + 1)'
    BY <1>1, <1>EventStays
  <2>3. Here' = Here /\ \A k : Above(k)' = Above(k)
    BY DEF Here, Above
  <2> QED  BY <1>1, <2>1, <2>2, <2>3 DEF Skipped
<1> QED  BY <1>4, <1>5, <1>6, <1>7, <1>9, <1>10, <1>13, <1>14, <1>15, <1>16 DEF CopyInv, WorkInv, KeyInv

\* The loop of the worker, and a crash.
LEMMA RoundKeeps ==
    ASSUME Step, List \/ Rest \/ PruneLog \/ Crash
    PROVE  CopyInv'
<1> USE DEF Step
<1>0. DOMAIN NoExporters = {}
  BY DEF NoExporters
<1>1. /\ dst' = dst /\ exporters' = exporters
      /\ stack' = <<>> /\ exported' = {} /\ current' \subseteq Keys
      /\ dst' \in [Dests -> [Keys -> Kinds]]
      /\ pc' \in {"idle", "next", "prune"}
  <2>1. CASE Crash
    BY <2>1 DEF CopyInv, WorkInv, WorkTypes, Crash
  <2>2. CASE List \/ Rest \/ PruneLog
    <3>1. pc \in {"idle", "next", "prune"} /\ pc' \in {"idle", "next", "prune"}
      BY <2>2 DEF List, Rest, PruneLog
    <3>2. stack = <<>> /\ exported = {}
      BY <3>1 DEF CopyInv, WorkInv, WorkTypes, InJob, Reading, Copying
    <3>3. UNCHANGED <<exporters, dst, stack, exported, current>>
      BY <2>2 DEF List, Rest, PruneLog
    <3> QED  BY <3>1, <3>2, <3>3 DEF CopyInv, WorkInv, WorkTypes
  <2> QED  BY <2>1, <2>2
<1>2. \/ DOMAIN todo' = {} /\ pc' \in {"idle", "next", "prune"}
      \/ List /\ todo' = exporters /\ floor' = floor /\ pc' = "next"
  <2>1. CASE Crash
    BY <1>0, <2>1 DEF Crash
  <2>2. CASE List
    BY <2>2 DEF List
  <2>3. CASE Rest
    BY <1>0, <2>3 DEF Rest
  <2>4. CASE PruneLog
    BY <2>4 DEF PruneLog, CopyInv, WorkInv, Jobs
  <2> QED  BY <2>1, <2>2, <2>3, <2>4
<1>3. DstKept
  BY <1>1 DEF DstKept
<1>4. Stored' /\ Heard'
  BY <1>1, <1>3, StoredKept, HeardLater
<1>5. CASE DOMAIN todo' = {} /\ pc' \in {"idle", "next", "prune"}
  <2>1. Listed'
    BY <1>5 DEF Listed
  <2> QED  BY <1>1, <1>4, <1>5, <2>1, OutOfJob
<1>6. CASE List /\ todo' = exporters /\ floor' = floor /\ pc' = "next"
  <2>1. Listed'
    BY <1>1, <1>4, <1>6 DEF Stored, Listed
  <2>2. \A n \in DOMAIN todo' : n \in DOMAIN home /\ todo'[n].dest = home[n]
    BY <1>6 DEF Homes
  <2>3. \A n \in DOMAIN exporters : exporters[n].offset \in Nat
    BY DEF IInv, Shape, RecordsIn, Rec
  <2>4. \A n \in DOMAIN todo' : /\ n \in DOMAIN exporters' => exporters'[n].offset <= todo'[n].offset
                                /\ todo'[n].offset < floor' => todo'[n].offset = 0
    BY <1>1, <1>6, <2>3, SMT DEF IInv, TrimmedOnlyAtZero
  <2> QED  BY <1>1, <1>4, <1>6, <2>1, <2>2, <2>4, OutOfJob
<1> QED  BY <1>2, <1>5, <1>6

\* A record is taken up: the worker stands where the record says.
LEMMA TakeCopies ==
    ASSUME Step, NEW n \in DOMAIN todo, Take(n)
    PROVE  CopyInv'
<1> USE DEF Step
<1> DEFINE rec == todo[n]
<1>1. /\ pc = "next" /\ UNCHANGED <<floor, dst, current, exported, stack>>
      /\ todo' = [m \in DOMAIN todo \ {n} |-> todo[m]]
  BY DEF Take
<1>2. rec \in Rec /\ rec.offset \in 0..Len(log) /\ rec.offset \in Nat /\ rec.dest \in Dests
  BY SMT DEF IInv, Shape, RecordsIn, Rec
<1>3. stack = <<>> /\ exported = {} /\ current \subseteq Keys /\ dst \in [Dests -> [Keys -> Kinds]]
  BY <1>1 DEF CopyInv, WorkInv, WorkTypes, InJob, Reading, Copying
<1>4. DstKept
  BY <1>1 DEF DstKept
<1>5. DOMAIN exporters' = DOMAIN exporters /\ \A m \in DOMAIN exporters : exporters'[m].offset = exporters[m].offset
  <2>1. exporters' = exporters \/ exporters' = ExporterState(n, rec.offset, rec.offset, "RUNNING")
    BY DEF Take
  <2>2. PICK e : e = exporters'
    OBVIOUS
  <2>3. CASE e = ExporterState(n, rec.offset, rec.offset, "RUNNING")
    <3>1. /\ DOMAIN e = DOMAIN exporters
          /\ \A m \in DOMAIN exporters :
                \/ e[m].offset = exporters[m].offset
                \/ m = n /\ exporters[m].offset = rec.offset /\ e[m].offset = rec.offset
      BY <2>3, OneMoves, SMT DEF IInv
    <3> QED  BY <2>2, <3>1
  <2> QED  BY <2>1, <2>2, <2>3
<1>6. \A m \in DOMAIN todo' : m \in DOMAIN todo /\ m # n /\ todo'[m] = todo[m]
  BY <1>1
<1>7. Stored' /\ Listed' /\ Heard'
  <2>1. Stored'
    BY <1>4, <1>5, StoredKept
  <2>2. Listed'
    BY <1>4, <1>6, ListedKept
  <2> QED  BY <1>1, <2>1, <2>2, HeardLater
<1>8. /\ \A m \in DOMAIN todo' : m \in DOMAIN home /\ todo'[m].dest = home[m]
      /\ \A m \in DOMAIN todo' : /\ m \in DOMAIN exporters' => exporters'[m].offset <= todo'[m].offset
                                 /\ todo'[m].offset < floor' => todo'[m].offset = 0
  BY <1>1, <1>5, <1>6 DEF CopyInv, WorkInv, Jobs, Cursors
<1>9. \/ pc' = "next"
      \/ /\ pc' \in {"snapshot", "events"}
         /\ job' = [name |-> n, dest |-> rec.dest] /\ at' = rec.offset
         /\ pc' = "snapshot" => rec.offset < floor
  <2> DEFINE waits == rec.state \in {"PAUSED", "FAILED"}
             copy == rec.offset < floor
             end == IF copy THEN Len(log) ELSE Min({Len(log), rec.offset + Batch})
             idle == ~copy /\ end <= rec.offset
  <2>1. IF waits \/ idle THEN UNCHANGED <<pc, job, at, until>>
        ELSE /\ pc' = IF copy THEN "snapshot" ELSE "events"
             /\ job' = [name |-> n, dest |-> rec.dest]
             /\ at' = rec.offset /\ until' = end
    BY DEF Take
  <2> HIDE DEF waits, end
  <2> QED  BY <1>1, <2>1
<1> HIDE DEF rec
<1>10. CASE pc' = "next"
  BY <1>1, <1>3, <1>7, <1>8, <1>10, OutOfJob
<1>11. CASE /\ pc' \in {"snapshot", "events"}
            /\ job' = [name |-> n, dest |-> rec.dest] /\ at' = rec.offset
            /\ pc' = "snapshot" => rec.offset < floor
  <2>1. job'.name = n /\ job'.dest = rec.dest
    BY <1>11
  <2>2. n \in DOMAIN home /\ rec.dest = home[n]
    BY DEF CopyInv, WorkInv, Jobs, rec
  <2>3. WorkTypes'
    BY <1>1, <1>3, <1>11, EmptyStack DEF WorkTypes, Reading, Copying
  <2>4. Jobs'
    BY <1>2, <1>6, <1>8, <1>11, <2>1, <2>2 DEF Jobs, InJob
  <2>5. Cursors'
    <3>1. n \in DOMAIN exporters' => exporters'[n].offset <= at'
      BY <1>5, <1>11 DEF CopyInv, WorkInv, Cursors, rec
    <3>2. pc' \in Copying => at' = 0
      BY <1>11 DEF CopyInv, WorkInv, Cursors, rec, Copying
    <3> QED  BY <1>8, <2>1, <3>1, <3>2 DEF Cursors
  <2>6. Frames' /\ Reads' /\ Copies'
    BY <1>1, <1>3, <1>11, EmptyStack DEF Frames, Reads, Copies
  <2>7. Standing'
    <3>1. PICK y \in 0..Len(log) : y = rec.offset
      BY <1>2
    <3>2. GoodAt(home[n], y)
      BY <3>1 DEF CopyInv, KeyInv, Listed, rec
    <3>3. GoodAt(home[n], y)'
      BY <1>1, <3>2, GoodAtLater
    <3>4. y = at' /\ home[n] = job'.dest
      BY <1>11, <2>1, <2>2, <3>1
    <3>5. GoodAt(job.dest, at)'
      BY <3>3, <3>4
    <3> QED  BY <3>5 DEF Standing
  <2>8. FrameGood' /\ DoneGood' /\ EventGood' /\ Closed'
    BY <1>1, <1>3, <1>11, EmptyStack DEF FrameGood, DoneGood, EventGood, Closed
  <2> QED  BY <1>7, <2>3, <2>4, <2>5, <2>6, <2>7, <2>8 DEF CopyInv, WorkInv, KeyInv
<1> QED  BY <1>9, <1>10, <1>11

LEMMA CopyStep ==
    ASSUME IInv, IInv', SourceInv, SourceInv', Grows, Homes, Homes', CopyInv, [Next]_vars
    PROVE  CopyInv'
<1>1. Step
  BY DEF Step
<1>OperatorCopies. ASSUME Operator
      PROVE  CopyInv'
  <2> USE <1>OperatorCopies
  <2> USE DEF Step
  <2>1. \E op : Operate(op)
    BY DEF Operator, CreateExporter, DeleteExporter, Transition, SetDestinationMode
  <2>2. UNCHANGED <<floor, dst, pc, todo, job, at, until, current, exported, stack>>
    BY <2>1 DEF Operate, worker
  <2>3. ASSUME NEW n, NEW rec, Store(n, rec), rec.offset = 0 \/ (n \in DOMAIN exporters /\ rec.offset = exporters[n].offset)
        PROVE  \A m \in DOMAIN exporters' :
                   \/ exporters'[m].offset = 0
                   \/ m \in DOMAIN exporters /\ exporters'[m].offset = exporters[m].offset
    BY <2>3 DEF Store
  <2>4. \A m \in DOMAIN exporters' :
            \/ exporters'[m].offset = 0
            \/ m \in DOMAIN exporters /\ exporters'[m].offset = exporters[m].offset
    <3>1. ASSUME NEW n \in Names, NEW d \in Dests, CreateExporter(n, d)
          PROVE  \E rec : Store(n, rec) /\ rec.offset = 0
      <4>1. PICK rec : rec = [state |-> "RUNNING", offset |-> 0, dest |-> d]
        OBVIOUS
      <4>2. rec.offset = 0 /\ Store(n, rec)
        BY <3>1, <4>1 DEF CreateExporter
      <4> QED  BY <4>2
    <3>2. ASSUME NEW n \in Names, DeleteExporter(n)
          PROVE  \A m \in DOMAIN exporters' : m \in DOMAIN exporters /\ exporters'[m] = exporters[m]
      BY <3>2 DEF DeleteExporter
    <3>3. ASSUME NEW n \in Names, NEW op \in {"pause", "resume", "reset"}, Transition(n, op)
          PROVE  \E rec : Store(n, rec) /\ (rec.offset = 0 \/ (n \in DOMAIN exporters /\ rec.offset = exporters[n].offset))
      <4>1. n \in DOMAIN exporters /\ exporters[n] \in Rec
        BY <3>3 DEF Transition, IInv, Shape, RecordsIn
      <4>2. PICK rec : /\ Store(n, rec)
                       /\ rec = [exporters[n] EXCEPT
                                    !.state = CASE op = "pause" -> "PAUSED"
                                                [] op = "resume" -> "RUNNING"
                                                [] op = "reset" -> IF @ = "PAUSED" THEN @ ELSE "RUNNING",
                                    !.offset = IF op = "reset" THEN 0 ELSE @]
        BY <3>3 DEF Transition
      <4>3. rec.offset = IF op = "reset" THEN 0 ELSE exporters[n].offset
        BY <4>1, <4>2 DEF Rec
      <4> QED  BY <4>1, <4>2, <4>3
    <3>4. ASSUME NEW d \in Dests, NEW m, SetDestinationMode(d, m) PROVE exporters' = exporters
      BY <3>4 DEF SetDestinationMode
    <3> QED  BY <2>3, <3>1, <3>2, <3>3, <3>4 DEF Operator
  <2> QED  BY <2>2, <2>4, OutsideKeeps
<1>WorkerCopies. ASSUME Worker
      PROVE  CopyInv'
  <2> USE <1>1, <1>WorkerCopies
  <2>1. CASE List \/ Rest \/ PruneLog
    BY <2>1, RoundKeeps
  <2>2. CASE \E n \in DOMAIN todo : Take(n)
    BY <2>2, TakeCopies
  <2>3. CASE StartEvent \/ \E k \in Keys : ExportReference(k) \/ CopyVersion(k)
    BY <2>3, VisitCopies
  <2>4. CASE \E fate : ExportMode(fate) \/ ExportPost(fate) \/ ExportMirror(fate)
    BY <2>4, ExportCopies
  <2>5. CASE \E fate : DeleteEvent(fate)
    BY <2>5, DeleteCopies
  <2>6. CASE Progress
    BY <2>6, ProgressCopies
  <2>7. CASE \/ Snapshot
             \/ \E fate : ReconcileMode(fate) \/ CopyDone(fate) \/ \E s : Reconcile(s, fate)
    BY <2>7, FullCopies
  <2> QED  BY <2>1, <2>2, <2>3, <2>4, <2>5, <2>6, <2>7 DEF Worker
<1>2. CASE Client
  <2>1. PICK k \in Keys, kind \in Kinds : Write(k, kind)
    BY <1>2, ClientLogs
  <2>2. UNCHANGED <<floor, exporters, dst, pc, todo, job, at, until, current, exported, stack>>
    BY <2>1 DEF Write, worker
  <2> QED  BY <1>1, <2>2, OutsideKeeps
<1>3. CASE Publish
  <2>1. UNCHANGED <<floor, exporters, dst, pc, todo, job, at, until, current, exported, stack>>
    BY <1>3 DEF Publish, worker
  <2> QED  BY <1>1, <2>1, OutsideKeeps
<1>4. CASE UNCHANGED vars
  <2>1. UNCHANGED <<floor, exporters, dst, pc, todo, job, at, until, current, exported, stack>>
    BY <1>4 DEF vars, worker
  <2> QED  BY <1>1, <2>1, OutsideKeeps
<1>5. CASE Operator
  BY <1>1, <1>5, <1>OperatorCopies
<1>6. CASE Worker
  BY <1>1, <1>6, <1>WorkerCopies
<1>7. CASE Crash
  BY <1>1, <1>7, RoundKeeps
<1> QED  BY <1>2, <1>3, <1>4, <1>5, <1>6, <1>7 DEF Next

\* At the end of the log a good copy is a copy of the rows.
LEMMA GoodIsCaughtUp ==
    ASSUME IInv, SourceInv, Homes, CopyInv
    PROVE  CaughtUp
<1>FollowedFollow. ASSUME Shape, NEW k \in Keys, Followed(k)
      PROVE  Follow(k)
  <2> USE <1>FollowedFollow
  <2>1. DOMAIN log = 1..Len(log) /\ \A i \in 1..Len(log) : log[i] \in Entry
    BY Entries
  <2>2. \A e \in Entry : e = [kind |-> e.kind, key |-> e.key]
    BY SMT DEF Entry
  <2> HIDE DEF Entry
  <2>3. ASSUME NEW j, NEW kind PROVE Logged(j, kind) = {i \in 1..Len(log) : At(j, kind, i)}
    BY <2>1, <2>2 DEF Logged, At
  <2>4. ASSUME NEW j, NEW kind PROVE Ever(j, kind) <=> Logged(j, kind) # {}
    BY <2>3 DEF Ever, Has
  <2>5. Once(k)
    BY <2>3 DEF Followed, Once
  <2> QED  BY <2>4, <2>5 DEF Followed, Repeatable, Follow
<1> SUFFICES ASSUME NEW n \in DOMAIN exporters, Settled(n), NEW k \in Selected, Followed(k)
             PROVE  dst[exporters[n].dest][k] = rows[k]
  BY DEF CaughtUp
<1>1. k \in Keys /\ Shape /\ Len(log) \in Nat
  BY ExporterAssumption, SMT DEF IInv, Shape
<1>2. Follow(k)
  BY <1>1, <1>FollowedFollow
<1>3. PICK d, v : d = exporters[n].dest /\ v = dst[d][k]
  OBVIOUS
<1>4. d = home[n] /\ d \in Dests
  BY <1>1, <1>3 DEF Homes, Shape, RecordsIn, Rec
<1>5. GoodKey(k, v, Len(log)) /\ v \in Kinds /\ (v # "absent" => Ever(k, "live"))
  BY <1>1, <1>2, <1>3, <1>4 DEF CopyInv, KeyInv, Stored, GoodAt, Settled, Heard, WorkInv, WorkTypes
<1>6. /\ Ever(k, "live") /\ ~Ever(k, "absent") => v # "absent"
      /\ Ever(k, "live") /\ ~Ever(k, "deleted") => v = "live"
      /\ Ever(k, "deleted") => v # "live"
      /\ Ever(k, "absent") => v = "absent"
  <2>1. ~Redo(k, Len(log))
    BY <1>1, SMT DEF Redo
  <2> QED  BY <1>5, <2>1 DEF GoodKey, Ever
<1>7. (Ever(k, "absent") => Ever(k, "deleted")) /\ (Ever(k, "deleted") => Ever(k, "live"))
  BY <1>1, Chain
<1>8. /\ rows[k] \in Kinds
      /\ rows[k] # "absent" => Ever(k, "live") /\ ~Ever(k, "absent")
      /\ rows[k] = "deleted" => Ever(k, "deleted")
      /\ rows[k] = "live" => ~Ever(k, "deleted")
      /\ rows[k] = "absent" => ~Ever(k, "live") \/ Ever(k, "absent")
  BY <1>1, <1>2 DEF Follow, SourceInv, SourceTypes, Rowed
<1> QED  BY <1>3, <1>5, <1>6, <1>7, <1>8, SMT DEF Kinds

\* Whatever is lost, replayed, reset, paused, trimmed or restarted on the way, an
\* exporter that runs at the end of the log has made its destination a copy of
\* the versions it selects and follows, as long as its name keeps a destination
\* of its own.
THEOREM CopiesAreComplete == Spec /\ []Homes => []CaughtUp
<1> DEFINE J == IInv /\ SourceInv
<1>1. Init => J /\ CopyInv
  BY Initially, SourceInit, CopyInit
<1>2. J /\ [Next]_vars => J' /\ Grows
  BY Inductive, SourceStep
<1>3. J /\ J' /\ Grows /\ Homes /\ Homes' /\ CopyInv /\ [Next]_vars => CopyInv'
  BY CopyStep
<1>4. J /\ Homes /\ CopyInv => CaughtUp
  BY GoodIsCaughtUp
<1> HIDE DEF J
<1> QED  BY <1>1, <1>2, <1>3, <1>4, PTL DEF Spec

=============================================================================
